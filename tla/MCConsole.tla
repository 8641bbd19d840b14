----------------------------- MODULE MCConsole ------------------------------
EXTENDS Console
MCHabits ==
    {{"backup-schedule", "stop", "start", "backup", "backup-delete"},
     {"settings-mail", "mail-enable", "mail-disable", "stop", "start", "update", "restore"},
     {"plan-add", "plan-delete", "resources", "create", "delete", "retry", "start"},
     {"upload", "mkdir", "file-delete", "file-move"}}
MCFilePaths == {<<"d">>, <<"d", "a">>, <<"e">>, <<"e", "d">>, <<"e", "d", "a">>, <<"l">>}
MCInitialTree ==
    [p \in MCFilePaths |-> CASE p \in {<<"d">>, <<"e">>} -> Directory
                             [] p = <<"d", "a">> -> File(0)
                             [] p = <<"l">> -> Link
                             [] OTHER -> Nothing]
=============================================================================
