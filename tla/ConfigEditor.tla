---------------------------- MODULE ConfigEditor -----------------------------
(* The editing of config.toml by the web interface: structured edits of one  *)
(* table under the lock of the editor service (services/config_editor.py),   *)
(* raw saves of the whole file without it (services/config.py), and hands    *)
(* on the file from outside.  Every request runs in a worker thread; between *)
(* its reading of the file, the validation of what it will write, and the    *)
(* replacement of the file, other requests go on.                            *)
EXTENDS ConfigModel

CONSTANTS Requests,     \* requests of the web interface
          Operations,   \* structured edits that may be submitted
          RawTexts,     \* documents that may be submitted or put there by hand
          Files,        \* password files that may exist
          MaxHands      \* bound: changes of files from outside

Nobody == "nobody"
States == {"text", "missing", "garbage", "unreadable"}

VARIABLES file,         \* config.toml: [state, doc]
          byHand,       \* was it last written from outside?
          disk,         \* the password files that exist
          holder,       \* owner of _write_lock
          calls,        \* the requests
          hands         \* changes from outside so far
vars == <<file, byHand, disk, holder, calls, hands>>

Text(d) == [state |-> "text", doc |-> d]
Idle == [at |-> "idle", op |-> [what |-> "none"], new |-> <<>>, overtaken |-> FALSE,
         answer |-> "none"]
EmptyAs(s) == [state |-> s, doc |-> <<>>]

(***************************************************************************)
(* Edits of a document.                                                    *)
(***************************************************************************)
Blank == "blank"
NotANumber == "not a number"
Refusal == [ok |-> FALSE, doc |-> <<>>]
Done(d) == [ok |-> TRUE, doc |-> d]

Put(doc, p, table) == [q \in DOMAIN doc \union {p} |-> IF q = p THEN table ELSE doc[q]]
Without(doc, ps) == [q \in DOMAIN doc \ ps |-> doc[q]]
\* A table of defaults or options goes when nothing is left in it.
PutOrDrop(doc, p, table) == IF DOMAIN table = {} THEN Without(doc, {p}) ELSE Put(doc, p, table)
Rename(doc, old, new) ==
    LET name(p) == IF p = old THEN new ELSE p
    IN  [q \in {name(p) : p \in DOMAIN doc} |-> IF q = new THEN doc[old] ELSE doc[q]]
OfJob(p, j) == p[1] # "global" /\ p[2] = j
RenameJob(doc, old, new) ==
    LET name(p) == IF OfJob(p, old) THEN [p EXCEPT ![2] = new] ELSE p
    IN  [q \in {name(p) : p \in DOMAIN doc} |-> doc[CHOOSE p \in DOMAIN doc : name(p) = q]]

\* The entries of a form are read without the space around them; Blank is
\* nothing but space, "empty" the box of a list, and a fraction no number.
FormIsBad(form) == \E f \in DOMAIN form : form[f] \in {NotANumber, Fraction}
ApplyFields(table, form) ==
    Over([f \in {g \in DOMAIN form : form[g] # Blank} |-> form[f]],
         [f \in DOMAIN table \ DOMAIN form |-> table[f]])

\* secret: [mode, value]; a blank direct password keeps the one that is set.
CredentialIsBad(table, secret) ==
    /\ secret.mode \in Passwords
    /\ secret.value = Blank
    /\ secret.mode = "password" => "password" \notin DOMAIN table
ApplyCredential(table, secret) ==
    LET rest == [f \in DOMAIN table \ Passwords |-> table[f]]
    IN  CASE secret.mode = "absent" -> table
          [] secret.mode = "inherit" -> rest
          [] OTHER -> LET value == IF secret.value = Blank THEN table["password"] ELSE secret.value
                      IN  Over([f \in {secret.mode} |-> value], rest)

\* [what |-> "global", tables |-> forms by path, secret]
SaveGlobal(doc, op) ==
    LET backup == ApplyFields(At(doc, <<"global", "backup">>), op.tables[<<"global", "backup">>])
        rclone == ApplyFields(At(doc, <<"global", "rclone">>), op.tables[<<"global", "rclone">>])
        global == ApplyFields(At(doc, <<"global">>), op.tables[<<"global">>])
        secret == ApplyCredential(backup, op.secret)
        saved  == PutOrDrop(Put(doc, <<"global">>, global), <<"global", "backup">>, secret)
    IN  IF \/ \E p \in DOMAIN op.tables : FormIsBad(op.tables[p])
           \/ CredentialIsBad(backup, op.secret)
        THEN Refusal
        ELSE Done(PutOrDrop(saved, <<"global", "rclone">>, rclone))

\* [what |-> "job", job |-> name or Nothing for a new one, new |-> name, form]
SaveJob(doc, op) ==
    LET taken   == <<"job", op.new>> \in DOMAIN doc
        renamed == IF op.job = Nothing THEN Put(doc, <<"job", op.new>>, <<>>)
                   ELSE RenameJob(doc, op.job, op.new)
    IN  IF \/ op.new # op.job /\ taken
           \/ op.job # Nothing /\ <<"job", op.job>> \notin DOMAIN doc
           \/ FormIsBad(op.form)
        THEN Refusal
        ELSE Done(Put(renamed, <<"job", op.new>>,
                      ApplyFields(At(renamed, <<"job", op.new>>), op.form)))

\* [what |-> "defaults", kind, job, form], with a secret for those of backups
SaveBackupDefaults(doc, op) ==
    LET p     == <<"backup", op.job>>
        table == ApplyFields(At(doc, p), op.form)
    IN  IF \/ <<"job", op.job>> \notin DOMAIN doc
           \/ FormIsBad(op.form)
           \/ CredentialIsBad(table, op.secret)
        THEN Refusal
        ELSE Done(PutOrDrop(doc, p, ApplyCredential(table, op.secret)))

SaveRcloneDefaults(doc, op) ==
    LET p == <<"rclone", op.job>>
    IN  IF <<"job", op.job>> \notin DOMAIN doc \/ FormIsBad(op.form) THEN Refusal
        ELSE Done(PutOrDrop(doc, p, ApplyFields(At(doc, p), op.form)))

\* The guards that saving a backup, a workflow and an rclone task share, and
\* the table that is edited: renamed, or created without fields.
TaskRefused(doc, op) ==
    \/ <<"job", op.job>> \notin DOMAIN doc
    \/ op.task # op.new /\ <<op.kind, op.job, op.new>> \in DOMAIN doc
    \/ op.task # Nothing /\ <<op.kind, op.job, op.task>> \notin DOMAIN doc
    \/ FormIsBad(op.form)
Placed(doc, op) ==
    IF op.task = Nothing THEN Put(doc, <<op.kind, op.job, op.new>>, <<>>)
    ELSE Rename(doc, <<op.kind, op.job, op.task>>, <<op.kind, op.job, op.new>>)

\* [what |-> "task", kind, job, task |-> name or Nothing, new |-> name, form, secret]
SaveBackup(doc, op) ==
    LET placed == Placed(doc, op)
        p      == <<"backup", op.job, op.new>>
        table  == ApplyFields(At(placed, p), op.form)
    IN  IF op.new \in Reserved \/ TaskRefused(doc, op) \/ CredentialIsBad(table, op.secret)
        THEN Refusal
        ELSE Done(Put(placed, p, ApplyCredential(table, op.secret)))

SaveRclone(doc, op) ==
    LET placed == Placed(doc, op)
        p      == <<"rclone", op.job, op.new>>
    IN  IF op.new \in Reserved \/ TaskRefused(doc, op) THEN Refusal
        ELSE Done(Put(placed, p, ApplyFields(At(placed, p), op.form)))

\* The form of a workflow has steps, too.
SaveWorkflow(doc, op) ==
    LET placed == Placed(doc, op)
        p      == <<"workflow", op.job, op.new>>
        table  == ApplyFields(At(placed, p), op.form)
    IN  IF op.steps = {} \/ (\E s \in op.steps : ~ Named(doc, op.job, s)) \/ TaskRefused(doc, op)
        THEN Refusal
        ELSE Done(Put(placed, p, Over([f \in {"steps"} |-> op.steps], table)))

\* [what |-> "delete", kind, job, task]
DeleteTask(doc, op) ==
    LET p == <<op.kind, op.job, op.task>>
    IN  IF p \notin DOMAIN doc THEN Refusal ELSE Done(Without(doc, {p}))

\* [what |-> "deleteJob", job]
DeleteJob(doc, op) ==
    IF <<"job", op.job>> \notin DOMAIN doc THEN Refusal
    ELSE Done(Without(doc, {p \in DOMAIN doc : OfJob(p, op.job)}))

Edit(doc, op) ==
    CASE op.what = "global" -> SaveGlobal(doc, op)
      [] op.what = "job" -> SaveJob(doc, op)
      [] op.what = "defaults" /\ op.kind = "backup" -> SaveBackupDefaults(doc, op)
      [] op.what = "defaults" /\ op.kind = "rclone" -> SaveRcloneDefaults(doc, op)
      [] op.what = "task" /\ op.kind = "backup" -> SaveBackup(doc, op)
      [] op.what = "task" /\ op.kind = "rclone" -> SaveRclone(doc, op)
      [] op.what = "task" /\ op.kind = "workflow" -> SaveWorkflow(doc, op)
      [] op.what = "delete" -> DeleteTask(doc, op)
      [] op.what = "deleteJob" -> DeleteJob(doc, op)

(***************************************************************************)
(* What may be submitted or put there by hand.                             *)
(***************************************************************************)
Inheritable(p) == p[1] # "global"
PageFields(p) == FieldsOf(p) \ (Passwords \union {"steps"})
GlobalPaths == {<<"global">>} \union {<<"global", kind>> : kind \in Containers}

\* A field that is set has a value, in the forms its type has.
IsTable(table) ==
    \A f \in DOMAIN table \ {"steps"} :
        /\ table[f] \notin {Nothing, Blank, NotANumber}
        /\ table[f] \in {"empty", BlankLine, Padded} => f \in Lists
        /\ table[f] = EmptyText => f \in Texts
        /\ table[f] = QuotedNo => f \in Flags
        /\ table[f] = Fraction => f \in Numbers
IsPath(p) ==
    \/ p \in GlobalPaths
    \/ p = <<p[1], p[2]>> /\ p[1] \in Containers \union {"job"} /\ p[2] # Nothing
    \/ p = <<p[1], p[2], p[3]>> /\ p[1] \in Kinds /\ p[2] # Nothing /\ p[3] # Nothing
\* In TOML the tables [jobs.<job>.backup.<task>] make a table [jobs.<job>], too.
IsDocument(doc) ==
    \A p \in DOMAIN doc :
        IsPath(p) /\ IsTable(doc[p]) /\ (p \in GlobalPaths \/ <<"job", p[2]>> \in DOMAIN doc)

\* A form has fields of its page; only an inherited list has a box for "empty".
IsForm(p, form) ==
    /\ form = [f \in DOMAIN form |-> form[f]] /\ DOMAIN form \subseteq PageFields(p)
    /\ \A f \in DOMAIN form : /\ form[f] \notin {Nothing} \union (Odd \ {Fraction})
                              /\ form[f] = "empty" => f \in Lists /\ Inheritable(p)
IsSecret(secret) ==
    /\ secret = [mode |-> secret.mode, value |-> secret.value]
    /\ secret.mode \in Passwords \union {"absent", "inherit"}
    /\ secret.value \notin {Nothing, NotANumber, "empty"} \union Odd
IsOperation(op) ==
    \/ /\ op.what = "global" /\ IsSecret(op.secret)
       /\ op = [what |-> "global", secret |-> op.secret, tables |-> op.tables]
       /\ op.tables = [p \in GlobalPaths |-> op.tables[p]]
       /\ \A p \in GlobalPaths : IsForm(p, op.tables[p])
    \/ /\ op.what = "job" /\ op.new # Nothing /\ IsForm(<<"job", op.new>>, op.form)
       /\ op = [what |-> "job", job |-> op.job, new |-> op.new, form |-> op.form]
    \/ /\ op.what = "defaults" /\ op.kind \in Containers
       /\ IsForm(<<op.kind, op.job>>, op.form)
       /\ LET defaults == [what |-> "defaults", kind |-> op.kind, job |-> op.job,
                           form |-> op.form]
          IN  CASE op.kind = "backup" ->
                     op = Over([f \in {"secret"} |-> op.secret], defaults) /\ IsSecret(op.secret)
                [] op.kind = "rclone" -> op = defaults
    \/ /\ op.what = "task" /\ op.kind \in Kinds /\ op.new # Nothing
       /\ IsForm(<<op.kind, op.job, op.new>>, op.form)
       /\ LET task == [what |-> "task", kind |-> op.kind, job |-> op.job, task |-> op.task,
                       new |-> op.new, form |-> op.form]
          IN  CASE op.kind = "backup" ->
                     op = Over([f \in {"secret"} |-> op.secret], task) /\ IsSecret(op.secret)
                [] op.kind = "rclone"   -> op = task
                [] op.kind = "workflow" -> op = Over([f \in {"steps"} |-> op.steps], task)
    \/ op.what \in {"delete", "deleteJob"}
ASSUME EditorAssumption ==
    /\ Nobody \notin Requests /\ MaxHands \in Nat
    /\ \A op \in Operations : IsOperation(op)
    /\ \A doc \in RawTexts : IsDocument(doc)

(***************************************************************************)
(* The pages: the request a browser makes when a page is saved as shown.    *)
(* An empty list has a box of its own where a field is inherited; a direct *)
(* password is never shown.  A flag is shown by its truth, where a text is *)
(* always true, and blank lines and the space around a line get lost.      *)
(***************************************************************************)
\* Mutant: an empty list that ends the inheritance is shown like no list.
FieldView_EmptyIsBlank(p, value) ==
    CASE value \in {"empty", EmptyText, BlankLine} -> Blank
      [] value = QuotedNo -> "yes"
      [] value = Padded -> "padded"
      [] OTHER -> value
FieldView(p, value) ==
    CASE value \in {EmptyText, BlankLine} -> Blank
      [] value = "empty" /\ ~ Inheritable(p) -> Blank
      [] value = QuotedNo -> "yes"
      [] value = Padded -> "padded"
      [] OTHER -> value
FieldViews(p, table) ==
    [f \in PageFields(p) |-> IF f \in DOMAIN table THEN FieldView(p, table[f]) ELSE Blank]
CredentialView(table) ==
    LET set == PasswordHint(table)
    IN  IF set = <<>> THEN [mode |-> "inherit", value |-> Blank]
        ELSE [mode |-> set[1], value |-> IF set[1] = "password" THEN Blank ELSE set[2]]

GlobalForm(doc) ==
    [what |-> "global", secret |-> CredentialView(At(doc, <<"global", "backup">>)),
     tables |-> [p \in GlobalPaths |-> FieldViews(p, At(doc, p))]]
JobForm(doc, j) ==
    [what |-> "job", job |-> j, new |-> j,
     form |-> FieldViews(<<"job", j>>, At(doc, <<"job", j>>))]
BackupDefaultsForm(doc, j) ==
    LET table == At(doc, <<"backup", j>>)
    IN  [what |-> "defaults", kind |-> "backup", job |-> j,
         form |-> FieldViews(<<"backup", j>>, table), secret |-> CredentialView(table)]
RcloneDefaultsForm(doc, j) ==
    [what |-> "defaults", kind |-> "rclone", job |-> j,
     form |-> FieldViews(<<"rclone", j>>, At(doc, <<"rclone", j>>))]
TaskForm(doc, p) ==
    [what |-> "task", kind |-> p[1], job |-> p[2], task |-> p[3], new |-> p[3],
     form |-> FieldViews(p, doc[p])]
BackupForm(doc, p)   == Over([secret |-> CredentialView(doc[p])], TaskForm(doc, p))
RcloneForm(doc, p)   == TaskForm(doc, p)
WorkflowForm(doc, p) == Over([steps |-> StepsOf(doc, p)], TaskForm(doc, p))

Forms(doc) ==
    LET jobs     == {p[2] : p \in {q \in DOMAIN doc : q[1] = "job"}}
        tasks(k) == {p \in DOMAIN doc : IsTask(p) /\ p[1] = k}
    IN  UNION { {GlobalForm(doc)}, {JobForm(doc, j) : j \in jobs},
                {BackupDefaultsForm(doc, j) : j \in jobs},
                {RcloneDefaultsForm(doc, j) : j \in jobs},
                {BackupForm(doc, p) : p \in tasks("backup")},
                {RcloneForm(doc, p) : p \in tasks("rclone")},
                {WorkflowForm(doc, p) : p \in tasks("workflow")} }

\* After a refusal the page shows what was submitted, but for a direct password;
\* no choice of a password source is shown as the choice to inherit one.
PseudoTable(form) == [f \in {g \in DOMAIN form : form[g] # Blank} |-> form[f]]
CredentialViewFromForm(secret) ==
    [mode  |-> IF secret.mode = "absent" THEN "inherit" ELSE secret.mode,
     value |-> IF secret.mode = "password" THEN Blank ELSE secret.value]
Submitted(p, form) == [f \in DOMAIN form |-> FieldViews(p, PseudoTable(form))[f]]
FormAgain(op) ==
    LET secret(o) == IF "secret" \notin DOMAIN o THEN o
                     ELSE [o EXCEPT !.secret = CredentialViewFromForm(o.secret)]
    IN  CASE op.what = "global" ->
               secret([op EXCEPT !.tables =
                          [p \in DOMAIN op.tables |-> Submitted(p, op.tables[p])]])
          [] op.what = "job"      -> [op EXCEPT !.form = Submitted(<<"job", op.new>>, op.form)]
          [] op.what = "defaults" ->
               secret([op EXCEPT !.form = Submitted(<<op.kind, op.job>>, op.form)])
          [] op.what = "task"     ->
               secret([op EXCEPT !.form = Submitted(<<op.kind, op.job, op.new>>, op.form)])
          [] OTHER -> op

\* The tables that a page writes, and those an edit is about.
OnPage(op) ==
    CASE op.what = "global"   -> GlobalPaths
      [] op.what = "job"      -> {<<"job", op.new>>}
      [] op.what = "defaults" -> {<<op.kind, op.job>>}
      [] op.what = "task"     -> {<<op.kind, op.job, op.new>>}
Addressed(op, p) ==
    CASE op.what = "global" -> p[1] = "global"
      [] op.what = "job" -> OfJob(p, op.job) \/ OfJob(p, op.new)
      [] op.what = "defaults" -> p = <<op.kind, op.job>>
      [] op.what = "task" -> p \in {<<op.kind, op.job, op.task>>, <<op.kind, op.job, op.new>>}
      [] op.what = "delete" -> p = <<op.kind, op.job, op.task>>
      [] op.what = "deleteJob" -> OfJob(p, op.job)

(***************************************************************************)
(* Requests.                                                               *)
(***************************************************************************)
IsRaw(r) == calls[r].op.what = "raw"
Answered(a) == [Idle EXCEPT !.at = "answered", !.answer = a]
Answer(r, a) == calls' = [calls EXCEPT ![r] = Answered(a)]
Release(r) == holder' = IF holder = r THEN Nobody ELSE holder

Init ==
    /\ file \in {Text(d) : d \in {t \in RawTexts : Loadable(t, Files)}}
                 \union {EmptyAs("missing")}
    /\ byHand = FALSE
    /\ disk = Files
    /\ holder = Nobody
    /\ calls = [r \in Requests |-> Idle]
    /\ hands = 0

Submit(r) ==
    /\ calls[r].at = "idle"
    /\ \E op \in Operations : calls' = [calls EXCEPT ![r].at = "waiting", ![r].op = op]
    /\ UNCHANGED <<file, byHand, disk, holder, hands>>

SubmitRaw(r) ==
    /\ calls[r].at = "idle"
    /\ \E d \in RawTexts :
         calls' = [calls EXCEPT ![r].at = "validating", ![r].op = [what |-> "raw"], ![r].new = d]
    /\ UNCHANGED <<file, byHand, disk, holder, hands>>

\* The lock is taken, the file read, the table edited in memory; a refusal
\* ends the request and gives the lock back.
Edited(r) ==
    LET edit == Edit(file.doc, calls[r].op)
    IN  IF file.state \in {"garbage", "unreadable"}
        THEN Answer(r, "error") /\ UNCHANGED holder
        ELSE IF ~ edit.ok
        THEN Answer(r, "refused") /\ UNCHANGED holder
        ELSE /\ calls' = [calls EXCEPT ![r].at = "validating", ![r].new = edit.doc]
             /\ holder' = r
\* Mutant: the edit does not wait for the lock.
Begin_Unlocked(r) ==
    /\ calls[r].at = "waiting"
    /\ Edited(r)
    /\ UNCHANGED <<file, byHand, disk, hands>>
Begin(r) ==
    /\ calls[r].at = "waiting"
    /\ holder = Nobody
    /\ Edited(r)
    /\ UNCHANGED <<file, byHand, disk, hands>>

\* The document goes through the loading pipeline in a file of its own.
\* Mutant: only the models are checked.
Validate_ModelsOnly(r) ==
    /\ calls[r].at = "validating"
    /\ IF ModelProblems(calls[r].new) = {} THEN calls' = [calls EXCEPT ![r].at = "writing"]
       ELSE IF IsRaw(r) THEN Answer(r, "refused") ELSE calls' = [calls EXCEPT ![r].at = "blaming"]
    /\ UNCHANGED <<file, byHand, disk, holder, hands>>
Validate(r) ==
    /\ calls[r].at = "validating"
    /\ IF Loadable(calls[r].new, disk) THEN calls' = [calls EXCEPT ![r].at = "writing"]
       ELSE IF IsRaw(r) THEN Answer(r, "refused") ELSE calls' = [calls EXCEPT ![r].at = "blaming"]
    /\ UNCHANGED <<file, byHand, disk, holder, hands>>

\* Structured edits under way when the file is replaced by somebody without the lock.
Overtaking(cs) ==
    [q \in Requests |-> IF cs[q].at \in {"validating", "writing"}
                        THEN [cs[q] EXCEPT !.overtaken = TRUE] ELSE cs[q]]

Write(r) ==
    /\ calls[r].at = "writing"
    /\ file' = Text(calls[r].new)
    /\ byHand' = FALSE
    /\ LET after == [calls EXCEPT ![r] = Answered("saved")]
       IN  calls' = IF IsRaw(r) THEN Overtaking(after) ELSE after
    /\ Release(r)
    /\ UNCHANGED <<disk, hands>>

\* No space, no permission: the file stays as it is.
WriteFails(r) ==
    /\ calls[r].at = "writing"
    /\ Answer(r, "error")
    /\ Release(r)
    /\ UNCHANGED <<file, byHand, disk, hands>>

\* A refused edit is compared with the file as it is now: the same message
\* means that the file was broken before.
\* Mutant: the lock is kept.
Blame_KeepsLock(r) ==
    /\ calls[r].at = "blaming"
    /\ \E a \in {"refused", "broken before"} : Answer(r, a)
    /\ UNCHANGED <<file, byHand, disk, holder, hands>>
Blame(r) ==
    /\ calls[r].at = "blaming"
    /\ \E mine \in Messages(calls[r].new, disk) \union {{}} :
         \E old \in (IF file.state = "text" THEN Messages(file.doc, disk) ELSE {}) \union {{}} :
            Answer(r, IF mine = old /\ mine # {} THEN "broken before" ELSE "refused")
    /\ Release(r)
    /\ UNCHANGED <<file, byHand, disk, hands>>

RequestStep(r) == Begin(r) \/ Validate(r) \/ Write(r) \/ WriteFails(r) \/ Blame(r)

\* Somebody edits, breaks or removes the file, or a password file comes or goes.
HandWrites ==
    /\ hands < MaxHands
    /\ hands' = hands + 1
    /\ file' \in {Text(d) : d \in RawTexts} \union {EmptyAs(s) : s \in States \ {"text"}}
    /\ byHand' = TRUE
    /\ calls' = Overtaking(calls)
    /\ UNCHANGED <<disk, holder>>
FilesChange ==
    /\ hands < MaxHands
    /\ hands' = hands + 1
    /\ disk' \in SUBSET Files \ {disk}
    /\ UNCHANGED <<file, byHand, holder, calls>>

Next ==
    \/ \E r \in Requests : Submit(r) \/ SubmitRaw(r) \/ RequestStep(r)
    \/ HandWrites
    \/ FilesChange

Fairness == \A r \in Requests : WF_vars(RequestStep(r))
Spec == Init /\ [][Next]_vars /\ Fairness

(***************************************************************************)
(* Properties.                                                             *)
(***************************************************************************)
\* Every variable has its type, and the lock is held exactly by a structured
\* edit between its reading of the file and its answer.
TypeOK ==
    /\ file.state \in States /\ byHand \in BOOLEAN
    /\ disk \subseteq Files /\ hands \in 0 .. MaxHands
    /\ \A r \in Requests :
         /\ calls[r].answer \in {"none", "saved", "refused", "broken before", "error"}
         /\ holder = r <=> calls[r].at \in {"validating", "writing", "blaming"} /\ ~ IsRaw(r)

\* Whatever is edited, renamed, deleted or saved in raw form, by however many
\* requests at once: a file written by the interface can be loaded as long as
\* the files it names exist (ConfigService._save_raw_sync).
FileStaysLoadable ==
    (file.state = "text" /\ ~ byHand) => Loadable(file.doc, Files)

\* A structured edit that is saved leaves every table it is not about as it
\* is in the file it replaces: other requests' edits survive, and so do the
\* tasks under a table of defaults (_serialized_write).  The exception is a
\* file replaced without the lock after the edit has read it.
EditsDoNotInterfere ==
    [][\A r \in Requests :
         (/\ calls[r].at = "writing" /\ calls'[r].answer = "saved"
          /\ ~ IsRaw(r) /\ ~ calls[r].overtaken)
         => \A p \in DOMAIN file.doc \union DOMAIN file'.doc :
              Addressed(calls[r].op, p) \/ At(file'.doc, p) = At(file.doc, p)]_vars

\* The translations of the inheritance agree for every task of a loadable
\* file: what a page shows as inherited is what a table gets that sets nothing
\* (field_views against resolve_config).  The exception is a field for which
\* the first level above the task that has it holds an empty text: the page
\* shows nothing as inherited, and the run inherits from further up ...
HintsAgree(doc) ==
    \A p \in {q \in DOMAIN doc : IsTask(q)} :
        LET shown == Parent(doc, p)
        IN  /\ \A f \in Inherited(p[1]) \union Cross : Emptied(doc, Above(p, f), f) \/
                 AboveTask(doc, p[1], p[2], f) =
                    IF f \in DOMAIN shown THEN Loads(shown[f]) ELSE Default(f)
            /\ p[1] = "backup" =>
                 PasswordHint(shown) = PasswordHint(SecretAboveTask(doc, p[2]))

\* ... the level that the view of a job names as the source of a value has
\* that value, a value without a source is the default, and no value that
\* some level sets is hidden (_FieldSourceResolver, _effective_value).  The
\* exception is a source that holds an empty text: the value is the one from
\* further up, or none ...
SourcesAgree(doc) ==
    \A p \in {q \in DOMAIN doc : IsTask(q)} :
        LET view   == EffectiveView(doc, p)
            secret == EffectiveCredentials(doc, p)
        IN  /\ \A f \in Inherited(p[1]) \union Cross : Emptied(doc, Chain(p, f), f) \/
                 IF f \notin DOMAIN view THEN SourceOf(doc, p, f) = <<>>
                 ELSE view[f].value = IF view[f].source = <<>> THEN Default(f)
                                      ELSE Loads(doc[view[f].source][f])
            /\ p[1] = "backup" =>
                 secret.value = IF secret.source = <<>> THEN <<>>
                                ELSE PasswordHint(doc[secret.source])

\* ... a page that is saved as it is shown is refused if it shows a fraction as
\* a number; else it is accepted and changes no value of any task.  The exceptions
\* are the values that no page can show as they are: a quoted "no" comes back as
\* a yes, which may lack a retention policy, and blank lines and the space around
\* lines get lost.  A page shown after a refusal asks for the same edit, unless
\* a new direct password has to be typed again, or the request, unlike that of a
\* page, chose no password source.
Repeatable(secret) ==
    secret.mode # "absent" /\ (secret.mode = "password" => secret.value = Blank)
Holds(doc, p, f, values) == Has(doc, p, f) /\ doc[p][f] \in values
Unshown == {QuotedNo, BlankLine, Padded}
Disturbed(doc, op, p, f) ==
    \E q \in OnPage(op) \intersect Range(Chain(p, f)) : Holds(doc, q, f, Unshown)
FormsAgree(doc) ==
    /\ \A op \in Forms(doc) :
         LET saved == Edit(doc, op)
         IN  IF \E p \in OnPage(op) : \E f \in Numbers : Holds(doc, p, f, {Fraction})
             THEN ~ saved.ok
             ELSE /\ saved.ok
                  /\ \/ Loadable(saved.doc, disk)
                     \/ \E p \in OnPage(op) : Holds(doc, p, "retention", {QuotedNo})
                  /\ \A p \in {q \in DOMAIN doc : IsTask(q)} :
                       /\ p \in DOMAIN saved.doc /\ StepsOf(saved.doc, p) = StepsOf(doc, p)
                       /\ \A f \in Inherited(p[1]) \union Cross :
                            \/ Resolve(saved.doc, p, f) = Resolve(doc, p, f)
                            \/ Disturbed(doc, op, p, f)
                       /\ p[1] = "backup" => ResolveSecret(saved.doc, p) = ResolveSecret(doc, p)
    /\ \A op \in Operations :
         ("secret" \in DOMAIN op => Repeatable(op.secret)) =>
            Edit(doc, FormAgain(op)) = Edit(doc, op)

\* The editor and the view of a job say the same of a file as the runs that follow it.
ViewsAgree ==
    (file.state = "text" /\ Loadable(file.doc, disk)) =>
        HintsAgree(file.doc) /\ SourcesAgree(file.doc)
PagesRoundTrip ==
    (file.state = "text" /\ Loadable(file.doc, disk)) => FormsAgree(file.doc)

\* Every request is answered, and so the lock is given back: no refusal, no
\* failed write and no broken file stops the editing.
EditsAreAnswered ==
    \A r \in Requests : calls[r].at # "idle" ~> calls[r].at = "answered"
=============================================================================
