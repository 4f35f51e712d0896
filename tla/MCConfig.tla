------------------------------ MODULE MCConfig -------------------------------
(* ConfigEditor for TLC: one job with a backup and a workflow that uses it,  *)
(* the operations that can collide on them, and texts with broken details.   *)
EXTENDS ConfigEditor

F(f, v) == [x \in {f} |-> v]
Absent  == [mode |-> "absent", value |-> Blank]
Inherit1 == [mode |-> "inherit", value |-> Blank]
Direct  == [mode |-> "password", value |-> "secret"]
Keep    == [mode |-> "password", value |-> Blank]
FromFile == [mode |-> "password_file", value |-> "keyfile"]

Use(t, part) == [kind |-> "backup", task |-> t, part |-> part]
Base ==
    [p \in {<<"global">>, <<"global", "backup">>, <<"job", "home">>, <<"backup", "home">>,
            <<"backup", "home", "docs">>, <<"workflow", "home", "night">>} |->
        CASE p = <<"global">> -> F("notify", "yes")
          [] p = <<"global", "backup">> -> [x \in {"keep", "password_env"} |->
                                              IF x = "keep" THEN "7" ELSE "ENV"]
          [] p = <<"job", "home">> -> <<>>
          [] p = <<"backup", "home">> -> F("exclude", "cache")
          [] p = <<"backup", "home", "docs">> -> F("retention", "yes")
          [] OTHER -> F("steps", {Use("docs", "retention")})]
NoKeep  == Put(Base, <<"global", "backup">>, F("password_env", "ENV"))
KeyFile == Put(Base, <<"backup", "home", "docs">>, F("password_file", "keyfile"))
TwoKeys == Put(Base, <<"backup", "home">>, [x \in {"password", "password_env"} |-> "x"])
Misplaced == Put(Put(Base, <<"job", "home">>, F("retention", "no")),
                 <<"backup", "home">>, F("exclude", Malformed))
Cleared ==
    Put(Put(Put(Base, <<"global", "backup">>,
                [x \in {"exclude", "keep"} |-> IF x = "exclude" THEN "tmp" ELSE "7"]),
            <<"backup", "home">>,
            [x \in {"exclude", "password"} |-> IF x = "exclude" THEN "empty" ELSE "secret"]),
        <<"global", "rclone">>, F("exclude", "empty"))

\* Values that can be loaded but not be shown as they are.
Uneven ==
    Put(Put(Put(Base, <<"job", "home">>, F("notify", QuotedNo)),
            <<"backup", "home">>,
            [x \in {"exclude", "keep"} |-> IF x = "exclude" THEN Padded ELSE EmptyText]),
        <<"backup", "home", "docs">>,
        [x \in {"retention", "exclude", "keep"} |->
            CASE x = "retention" -> QuotedNo [] x = "exclude" -> BlankLine [] OTHER -> Fraction])

MCTexts == {Base, NoKeep, KeyFile, TwoKeys, Misplaced, Cleared, Uneven}
MCOps ==
  { [what |-> "global", secret |-> FromFile,
     tables |-> [p \in {<<"global">>, <<"global", "backup">>, <<"global", "rclone">>} |->
        CASE p = <<"global">> -> F("notify", Blank)
          [] p = <<"global", "backup">> -> F("keep", "9") [] OTHER -> F("exclude", "tmp")]],
    [what |-> "global", secret |-> Inherit1,
     tables |-> [p \in {<<"global">>, <<"global", "backup">>, <<"global", "rclone">>} |->
        CASE p = <<"global">> -> F("retryCount", "3")
          [] p = <<"global", "backup">> -> F("keep", Blank) [] OTHER -> F("exclude", Blank)]],
    [what |-> "job", job |-> Nothing, new |-> "web", form |-> <<>>],
    [what |-> "job", job |-> "home", new |-> "web", form |-> F("notify", "no")],
    [what |-> "defaults", kind |-> "backup", job |-> "home",
     form |-> F("exclude", Blank), secret |-> Absent],
    [what |-> "defaults", kind |-> "backup", job |-> "home",
     form |-> F("keep", "5"), secret |-> Direct],
    [what |-> "defaults", kind |-> "backup", job |-> "home",
     form |-> F("keep", NotANumber), secret |-> Absent],
    [what |-> "defaults", kind |-> "rclone", job |-> "home",
     form |-> F("exclude", "empty")],
    [what |-> "task", kind |-> "backup", job |-> "home", task |-> "docs", new |-> "pics",
     form |-> F("retention", "no"), secret |-> Absent],
    [what |-> "task", kind |-> "backup", job |-> "home", task |-> "docs", new |-> "docs",
     form |-> F("exclude", "empty"), secret |-> Keep],
    [what |-> "task", kind |-> "backup", job |-> "home", task |-> Nothing, new |-> "pics",
     form |-> F("retention", Blank), secret |-> FromFile],
    [what |-> "task", kind |-> "rclone", job |-> "home", task |-> Nothing, new |-> "docs",
     form |-> F("notify", "no")],
    [what |-> "task", kind |-> "workflow", job |-> "home", task |-> "night", new |-> "day",
     steps |-> {Use("pics", "all")}, form |-> F("notify", Blank)],
    [what |-> "delete", kind |-> "backup", job |-> "home", task |-> "docs"],
    [what |-> "deleteJob", job |-> "home"] }
=============================================================================
