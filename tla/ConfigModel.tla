----------------------------- MODULE ConfigModel -----------------------------
(* The configuration as a value: the tables of config.toml, their three      *)
(* levels of inheritance, and what makes a file loadable.                    *)
(*                                                                           *)
(* A document maps the paths of its tables to the fields set in them:        *)
(* <<"global">>, <<"global", kind>>, <<"job", j>>, the defaults <<kind, j>>  *)
(* of a job and its tasks <<kind, j, t>>.  A field stands for its class:     *)
(* retention and notify for the flags, keep for the keep_* fields, exclude   *)
(* for the lists, three password fields, and the steps of a workflow.        *)
(* The same inheritance is written three times in the code: by the resolver, *)
(* by the hints of the editor, and by the view of where a value comes from.  *)
EXTENDS FiniteSets, Sequences, Functions

CONSTANT Reserved     \* names that are keys of a table of defaults, not of a task

Containers == {"backup", "rclone"}       \* hold defaults as well as tasks
Kinds      == Containers \union {"workflow"}
Passwords  == {"password", "password_env", "password_file"}
Cross      == {"notify"}                 \* inherited from the job, not from its defaults
Lists      == {"exclude"}
Flags      == {"retention", "notify"}
Texts      == {"keep", "bwlimit"}        \* keep_within and bwlimit may be an empty text
Numbers    == {"keep", "retryCount", "retryDelay"}
Inherited(kind) ==
    CASE kind = "backup" -> {"retention", "keep", "exclude"}
      [] kind = "rclone" -> {"exclude", "bwlimit"}
      [] OTHER -> {}

\* The fields of a table, by the model that reads it; anything else is refused.
RawGlobalConfig            == {"retryCount", "retryDelay"} \union Cross
RawGlobalBackupConfig      == Inherited("backup") \union Passwords
RawGlobalRcloneConfig      == Inherited("rclone")
RawJobConfig               == Cross
RawJobBackupSectionConfig  == Inherited("backup") \union Passwords
RawJobRcloneSectionConfig  == Inherited("rclone")
RawBackupConfig            == Inherited("backup") \union Passwords \union Cross
RawRcloneSyncTaskConfig    == Inherited("rclone") \union Cross
RawWorkflowConfig          == {"steps"} \union Cross
FieldsOf(p) ==
    CASE p = <<"global">>            -> RawGlobalConfig
      [] p = <<"global", "backup">>  -> RawGlobalBackupConfig
      [] p = <<"global", "rclone">>  -> RawGlobalRcloneConfig
      [] p[1] = "job"                -> RawJobConfig
      [] p[1] = "backup"             -> IF Len(p) = 2 THEN RawJobBackupSectionConfig
                                        ELSE RawBackupConfig
      [] p[1] = "rclone"             -> IF Len(p) = 2 THEN RawJobRcloneSectionConfig
                                        ELSE RawRcloneSyncTaskConfig
      [] OTHER                       -> RawWorkflowConfig

Nothing   == "nothing"
Malformed == "malformed"

\* Values that can be loaded, written otherwise than the editor writes them:
EmptyText == "empty text"     \* keep_within = "", loaded as no value
QuotedNo  == "quoted no"      \* retention = "no", loaded as false
Fraction  == "7.0"            \* keep_last = 7.0, loaded as 7
BlankLine == "blank line"     \* exclude = [""]
Padded    == " padded"        \* exclude = [" padded"]
Odd == {EmptyText, QuotedNo, Fraction, BlankLine, Padded}
Loads(value) ==
    CASE value = EmptyText -> Nothing
      [] value = QuotedNo  -> "no"
      [] value = Fraction  -> "7"
      [] OTHER             -> value

At(doc, p) == IF p \in DOMAIN doc THEN doc[p] ELSE <<>>
Has(doc, p, f) == f \in DOMAIN At(doc, p)
Get(table, f) == IF f \in DOMAIN table THEN Loads(table[f]) ELSE Nothing
\* The first table with the fields of the second where it has none.
Over(upper, lower) ==
    [f \in DOMAIN upper \union DOMAIN lower |-> IF f \in DOMAIN upper THEN upper[f] ELSE lower[f]]

IsTask(p) == Len(p) = 3
TasksOf(doc, kind, j) == {p[3] : p \in {q \in DOMAIN doc : IsTask(q) /\ q[1] = kind /\ q[2] = j}}

(***************************************************************************)
(* The resolver.                                                           *)
(***************************************************************************)
Default(f) ==
    CASE f \in Lists -> "empty"
      [] f \in Flags -> "no"
      [] OTHER -> Nothing

\* A value that is set ends the inheritance, an empty list or a "no" included,
\* but not an empty text.
Inherit(f, own, above) ==
    IF own # Nothing THEN own ELSE IF above # Nothing THEN above ELSE Default(f)

ResolveJob(doc, j, f) == Inherit(f, Get(At(doc, <<"job", j>>), f), Get(At(doc, <<"global">>), f))

ResolveDefaults(doc, kind, j, f) ==
    Inherit(f, Get(At(doc, <<kind, j>>), f), Get(At(doc, <<"global", kind>>), f))

\* The value above a task: what it gets when it sets nothing.
AboveTask(doc, kind, j, f) ==
    IF f \in Cross THEN ResolveJob(doc, j, f) ELSE ResolveDefaults(doc, kind, j, f)

Resolve(doc, p, f) == Inherit(f, Get(At(doc, p), f), AboveTask(doc, p[1], p[2], f))

\* The three password fields are inherited together or not at all.
Secret(table) == [f \in Passwords \intersect DOMAIN table |-> table[f]]
InheritSecret(own, above) == IF DOMAIN own # {} THEN own ELSE above
SecretAboveTask(doc, j) ==
    InheritSecret(Secret(At(doc, <<"backup", j>>)), Secret(At(doc, <<"global", "backup">>)))
ResolveSecret(doc, p) == InheritSecret(Secret(At(doc, p)), SecretAboveTask(doc, p[2]))

(***************************************************************************)
(* The editor: what it shows as inherited below a job.                     *)
(***************************************************************************)
GlobalParent(doc, kind) ==
    Over(At(doc, <<"global", kind>>), [f \in {"retention"} \intersect Inherited(kind) |-> "no"])
CrossFields(table) == [f \in Cross \intersect DOMAIN table |-> table[f]]
CrossParent(doc) == Over(CrossFields(At(doc, <<"global">>)), [f \in Cross |-> "no"])

\* The password field in force, in an order of preference: its name and value.
Preferred(table, order) ==
    LET set == {i \in DOMAIN order : order[i] \in DOMAIN table}
        f   == order[CHOOSE i \in set : \A k \in set : i <= k]
    IN  IF set = {} THEN <<>> ELSE <<f, table[f]>>

\* Mutant: the choice of the job is added, that of the global level stays.
MergePassword_KeepsBoth(result, table) == Over(Secret(table), result)
MergePassword(result, table) ==
    LET chosen == Preferred(table, <<"password", "password_env", "password_file">>)
    IN  IF chosen = <<>> THEN result
        ELSE Over([f \in {chosen[1]} |-> chosen[2]],
                  [f \in DOMAIN result \ Passwords |-> result[f]])

TaskParent(doc, kind, j) ==
    LET defaults == At(doc, <<kind, j>>)
        scalars  == [f \in DOMAIN defaults \ Passwords |-> defaults[f]]
        merged   == Over(scalars, GlobalParent(doc, kind))
        secrets  == IF kind = "backup" THEN MergePassword(merged, defaults) ELSE merged
        crossed  == Over(CrossFields(At(doc, <<"job", j>>)), CrossParent(doc))
    IN  Over(crossed, secrets)

\* The password source the editor names, as set or as inherited.
PasswordHint(table) == Preferred(table, <<"password_env", "password_file", "password">>)

\* The values a page about a table takes its hints from.
Parent(doc, p) ==
    CASE p[1] = "global"            -> <<>>
      [] p[1] = "job"               -> CrossParent(doc)
      [] Len(p) = 2                 -> GlobalParent(doc, p[1])
      [] OTHER                      -> TaskParent(doc, p[1], p[2])

(***************************************************************************)
(* The view of a job: the level that set a value, an empty text included.  *)
(***************************************************************************)
Above(p, f) ==
    IF f \in Cross THEN <<<<"job", p[2]>>, <<"global">>>>
    ELSE <<<<p[1], p[2]>>, <<"global", p[1]>>>>
Chain(p, f) == <<p, Above(p, f)[1], Above(p, f)[2]>>

First(doc, chain, fields) ==
    LET set == {i \in DOMAIN chain : fields \intersect DOMAIN At(doc, chain[i]) # {}}
    IN  IF set = {} THEN <<>> ELSE chain[CHOOSE i \in set : \A k \in set : i <= k]

SourceOf(doc, p, f) == First(doc, Chain(p, f), {f})
SecretSource(doc, p) == First(doc, Chain(p, "password"), Passwords)

\* The first of these levels with the field holds an empty text.
Emptied(doc, chain, f) ==
    LET first == First(doc, chain, {f}) IN first # <<>> /\ doc[first][f] = EmptyText

\* What the view shows of a task: values without effect are left out.
EffectiveField(doc, p, f) == [value |-> Resolve(doc, p, f), source |-> SourceOf(doc, p, f)]
Visible(field) == field.value # Nothing /\ (field.value = "empty" => field.source # <<>>)
EffectiveView(doc, p) ==
    [f \in {g \in Inherited(p[1]) \union Cross : Visible(EffectiveField(doc, p, g))} |->
        EffectiveField(doc, p, f)]
EffectiveCredentials(doc, p) ==
    [value  |-> Preferred(ResolveSecret(doc, p), <<"password_env", "password_file", "password">>),
     source |-> SecretSource(doc, p)]

(***************************************************************************)
(* What loading a file refuses.  The checks of the models come first and   *)
(* are reported together, then the first problem of the raw document, then *)
(* the first of the resolved one.                                          *)
(***************************************************************************)
StepsOf(doc, p) == IF Has(doc, p, "steps") THEN doc[p]["steps"] ELSE {}
Named(doc, j, step) == step.task \in TasksOf(doc, step.kind, j)
HasPolicy(doc, p) == Resolve(doc, p, "keep") # Nothing

UnknownFields(doc) ==
    {<<"unknown", p>> : p \in {q \in DOMAIN doc : ~ DOMAIN doc[q] \subseteq FieldsOf(q)}}
MalformedFields(doc) == {<<"field", p>> : p \in {q \in DOMAIN doc :
                               \E f \in DOMAIN doc[q] \ {"steps"} : doc[q][f] = Malformed}}
SeveralPasswords(doc) ==
    {<<"passwords", p>> : p \in {q \in DOMAIN doc : Cardinality(DOMAIN Secret(doc[q])) > 1}}
ReservedNames(doc) ==
    {<<"name", p>> : p \in {q \in DOMAIN doc : IsTask(q) /\ q[1] \in Containers
                               /\ q[3] \in Reserved}}
BadSteps(doc) ==
    {<<"steps", p>> : p \in {q \in DOMAIN doc : IsTask(q) /\ q[1] = "workflow"
                                /\ StepsOf(doc, q) = {}}}
ModelProblems(doc) == UNION {UnknownFields(doc), MalformedFields(doc), SeveralPasswords(doc),
                             ReservedNames(doc), BadSteps(doc)}

MissingFiles(doc, disk) ==
    {<<"file", p>> : p \in {q \in DOMAIN doc : Has(doc, q, "password_file")
                               /\ Get(doc[q], "password_file") \notin disk}}
UnknownSteps(doc) ==
    {<<"step", p>> : p \in {q \in DOMAIN doc : IsTask(q) /\ q[1] = "workflow"
                               /\ \E s \in StepsOf(doc, q) : ~ Named(doc, q[2], s)}}
RawProblems(doc, disk) == MissingFiles(doc, disk) \union UnknownSteps(doc)

RetryProblem(doc) ==
    IF Has(doc, <<"global">>, "retryCount") /\ ~ Has(doc, <<"global">>, "retryDelay")
    THEN {<<"retry">>} ELSE {}
NoPolicy(doc) ==
    {<<"policy", p>> : p \in {q \in DOMAIN doc : IsTask(q) /\ q[1] = "backup"
                                 /\ Resolve(doc, q, "retention") = "yes" /\ ~ HasPolicy(doc, q)}}
NoPolicyForStep(doc) ==
    {<<"stepPolicy", p>> : p \in {q \in DOMAIN doc : IsTask(q) /\ q[1] = "workflow"
            /\ \E s \in StepsOf(doc, q) :
                 /\ s.kind = "backup" /\ s.part = "retention"
                 /\ ~ HasPolicy(doc, <<"backup", q[2], s.task>>)}}
ResolvedProblems(doc) == RetryProblem(doc) \union NoPolicy(doc) \union NoPolicyForStep(doc)

\* The messages loading may end with; none for a file that can be loaded.
Messages(doc, disk) ==
    IF ModelProblems(doc) # {} THEN {ModelProblems(doc)}
    ELSE IF RawProblems(doc, disk) # {} THEN {{m} : m \in RawProblems(doc, disk)}
    ELSE {{m} : m \in ResolvedProblems(doc)}
Loadable(doc, disk) == Messages(doc, disk) = {}
=============================================================================
