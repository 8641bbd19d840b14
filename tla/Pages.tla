------------------------------- MODULE Pages --------------------------------
(***************************************************************************)
(* What the panel's pages offer (cmd/panel/views.templ, compiled to        *)
(* views_templ.go): for each template the forms it contains.  A form is a  *)
(* tuple of the handler's name and the values the page puts into it.  A    *)
(* view v is what render and renderFiles hand to the templates: the page,  *)
(* the site, whether the host's capacity is known, the saved plans and the *)
(* entries of the directory shown.                                         *)
(***************************************************************************)
EXTENDS Naturals, Sequences

\* The resources of the built-in plans, and custom ones.
BuiltIn == {"small", "standard", "large"}
Resources == BuiltIn \cup {"custom"}

SitePages == {"site", "backups", "updates", "database", "resources"}
PageNames == SitePages \cup {"dashboard", "new", "settings", "activity", "roadmap", "files"}

When(condition, forms) == {f \in forms : condition}

\* operationPending and HealthError.
Settled(s) == ~s.pending /\ ~s.health

-----------------------------------------------------------------------------
(* Around every page *)

LanguageSwitcher == {<<"language">>}

Sidebar == LanguageSwitcher \cup {<<"logout">>}

LoginPage == LanguageSwitcher \cup {<<"login">>}

-----------------------------------------------------------------------------
(* A site *)

\* The value of an option, "saved-" with an ID for a saved plan, and the
\* resources the page shows for it.
ResourceFields(v) ==
    {<<<<"plan", r>>, r>> : r \in Resources} \cup
    {<<<<"saved", p.id>>, p.resources>> : p \in v.plans}

\* Without the capacity of the host the button is disabled.
SiteResourcesForm(v) ==
    When(Settled(v.site) /\ v.site.status \in {"running", "stopped"} /\ v.capacity,
         {<<"resources", o[1], o[2]>> : o \in ResourceFields(v)})

\* The checkbox; interval and retention have valid values in the form.
BackupSchedule == {<<"backup-schedule", on>> : on \in BOOLEAN}

BackupConfirmDialog(b) == {<<"restore", b>>, <<"backup-delete", b>>}

BackupList(s) == UNION {BackupConfirmDialog(b) : b \in s.backups}

SiteMail(s) ==
    When(s.status = "running" /\ Settled(s),
         {IF s.mail THEN <<"mail-disable">> ELSE <<"mail-enable">>})

DeleteSite == {<<"delete">>}

SiteWorkspace(v) ==
    LET ready == v.site.status = "running" /\ Settled(v.site)
    IN  UNION {
          When(v.page = "backups" /\ ready, {<<"backup">>}),
          When(v.page = "updates" /\ ready, {<<"update">>}),
          When(v.page = "database" /\ ready, {<<"database-start">>}),
          When(v.page = "site" /\ v.site.status = "failed" /\ ~v.site.pending, {<<"retry">>}),
          When(v.page = "resources", SiteResourcesForm(v)),
          When(v.page = "backups", BackupSchedule \cup BackupList(v.site)),
          When(v.page = "site", SiteMail(v.site) \cup DeleteSite)}

\* Buttons by the status alone.
SiteCardUnsettled(v) ==
    UNION {
      When(v.page = "site" /\ v.site.status = "running", {<<"stop">>}),
      When(v.page = "site" /\ v.site.status \in {"stopped", "unhealthy"}, {<<"start">>}),
      When(v.page # "dashboard", SiteWorkspace(v))}
SiteCard(v) ==
    UNION {
      When(v.page = "site" /\ v.site.status = "running" /\ Settled(v.site), {<<"stop">>}),
      When(v.page = "site" /\ v.site.status \in {"stopped", "unhealthy"} /\ Settled(v.site),
           {<<"start">>}),
      When(v.page # "dashboard", SiteWorkspace(v))}

\* Refresh service status, and the card of every site (here: of the one).
Sites(v) == {<<"reconcile">>} \cup When(v.site.status # "none", SiteCard(v))

-----------------------------------------------------------------------------
(* Other pages *)

NewSite(v) == When(v.capacity, {<<"create", o[1], o[2]>> : o \in ResourceFields(v)})

\* A plan is added with custom resources under a name, and deleted by its ID.
ResourcePlanSettings(v) ==
    {<<"plan-add", name>> : name \in v.names} \cup {<<"plan-delete", p.id>> : p \in v.plans}

SettingsPage(v) == {<<"settings-mail", on>> : on \in BOOLEAN} \cup ResourcePlanSettings(v)

\* Dialogs and context menu (ui/assets/app.js): links can only be looked at.
FileManagerDialogs(v) ==
    {<<"upload", v.directory>>, <<"mkdir", v.directory>>}
      \cup {<<"file-delete", e>> : e \in v.mutable}
      \cup {<<"file-move", e>> : e \in v.mutable}

\* Downloads change nothing and are left out.
FilesPage(v) == Sidebar \cup FileManagerDialogs(v)

AppShell(v) ==
    UNION {Sidebar,
           When(v.page = "new", NewSite(v)),
           When(v.page \in SitePages \cup {"dashboard"}, Sites(v)),
           When(v.page = "settings", SettingsPage(v))}

\* render shows the login page without a session and answers 404 for a site that
\* does not exist; showFiles answers 404 unless the site is running.
Page(v) ==
    CASE ~v.loggedIn -> LoginPage
      [] v.loggedIn /\ v.page = "files" -> When(v.site.status = "running", FilesPage(v))
      [] v.loggedIn /\ v.page # "files" ->
           When(v.page \in SitePages => v.site.status # "none", AppShell(v))
=============================================================================
