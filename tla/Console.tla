------------------------------ MODULE Console -------------------------------
(***************************************************************************)
(* The panel as its administrator uses it: pages that may be out of date   *)
(* when their forms are submitted, the handlers that accept or refuse      *)
(* them, the backup scheduler, the mail settings, the resource plans and   *)
(* the file manager, for one site.  A tracked call (cmd/panel/runtime.go,  *)
(* modelled step by step in Panel) is here one step that begins it and one *)
(* that ends it.                                                           *)
(***************************************************************************)
EXTENDS Pages, FileManager, FiniteSets

CONSTANTS
    Habits,       \* sets of forms; the administrator of a behaviour uses one of them
    PlanNames,    \* names of saved resource plans
    MaxPlans,     \* 30 in the code
    Interval,     \* IntervalHours of the backup schedule
    MaxTime,      \* bound on the clock
    MaxForms,     \* bound on the forms submitted
    MaxFaults     \* bound on failing calls and saves and on restarts

ASSUME IntervalAssumption == Interval \in Nat \ {0}

VARIABLES
    site,       \* the record in sites.json
    host,       \* what the worker has made of the site
    mail,       \* settings.json: global mail settings, with a version
    plans,      \* resource-plans.json
    ids,        \* IDs handed out by NewID and NewBackupID
    task,       \* the tracked call under way, while opsMu is held
    receipt,    \* the worker's receipt of the call that has no confirmed result
    scheduler,  \* runScheduledBackups: waiting for opsMu or not, and its now
    habit,      \* the forms the administrator uses
    page,       \* of these, the forms of the pages in the browser's tabs
    now,        \* the clock
    forms,      \* forms submitted
    faults,     \* faults so far
    restored,   \* history: the plugin is the one of a restored backup
    notBefore   \* history: no scheduled backup is wanted before this time

consoleVars == <<site, host, mail, plans, ids, task, receipt, scheduler, page,
                 habit, now, forms, faults, restored, notBefore, fileVars>>

Statuses == {"none", "creating", "running", "stopped", "unhealthy", "failed", "deleting"}

NoSite ==
    [status |-> "none", pending |-> FALSE, health |-> FALSE, mail |-> FALSE,
     enabled |-> FALSE, next |-> 0, resources |-> "standard", backups |-> {}]

\* No plugin is version 0.
NoHost == [installed |-> FALSE, up |-> FALSE, plugin |-> 0, resources |-> "standard"]
NoTask == [kind |-> "none", arg |-> <<>>, shown |-> <<>>]
NoReceipt == [kind |-> "none", done |-> FALSE, backups |-> {}]
Never == MaxTime + Interval + 1

\* One site is running and sends its mail through the settings saved first.
ConsoleInit ==
    /\ FileInit
    /\ site = [NoSite EXCEPT !.status = "running", !.mail = TRUE]
    /\ host = [NoHost EXCEPT !.installed = TRUE, !.up = TRUE, !.plugin = 1]
    /\ mail = [enabled |-> TRUE, version |-> 1]
    /\ plans = {}
    /\ ids = 0
    /\ task = NoTask
    /\ receipt = NoReceipt
    /\ scheduler = [waiting |-> FALSE, tick |-> 0]
    /\ habit \in Habits
    /\ page = {}
    /\ now = 0
    /\ forms = 0
    /\ faults = 0
    /\ restored = FALSE
    /\ notBefore = Never

Fault == faults < MaxFaults /\ faults' = faults + 1

\* opsMu.
Unlocked == task.kind = "none" /\ script = Idle

-----------------------------------------------------------------------------
(* Pages *)

View(name, dir) ==
    [loggedIn |-> TRUE, page |-> name, site |-> site, plans |-> plans, capacity |-> TRUE,
     names |-> PlanNames, directory |-> dir,
     mutable |-> {p \in FilePaths : Parent(p) = dir /\ tree[p] \notin {Nothing, Link}}]

\* showFiles lists a directory only.
Directories == {<<>>} \cup {p \in FilePaths : tree[p] = Directory}

\* A page in a new tab; the others stay as they are.
OpenPage ==
    /\ \E name \in PageNames, dir \in Directories :
         /\ name # "files" => dir = <<>>
         /\ page' = page \cup {f \in Page(View(name, dir)) : f[1] \in habit}
    /\ page' # page
    /\ UNCHANGED <<site, host, mail, plans, ids, task, receipt, scheduler,
                   habit, now, forms, faults, restored, notBefore, fileVars>>

-----------------------------------------------------------------------------
(* What the handlers check before they act *)

\* formResources: the resources a plan stands for, {} if it is gone.
FormResources(plan) ==
    IF plan[1] = "saved" THEN {p.resources : p \in {q \in plans : q.id = plan[2]}}
                         ELSE {plan[2]}

Known(b) == {c \in site.backups : c.id = b.id}

\* siteAction and the handlers it calls.
SiteAccepts(f) ==
    /\ site.status # "none"
    /\ ~site.pending
    /\ CASE f[1] = "resources" ->
              ~site.health /\ site.status \in {"running", "stopped"} /\ FormResources(f[2]) # {}
         [] f[1] \in {"upload", "mkdir", "file-delete", "file-move", "backup", "update"} ->
              site.status = "running"
         [] f[1] \in {"mail-enable", "mail-disable"} ->
              site.status = "running" /\ (f[1] = "mail-enable" => mail.enabled)
         [] f[1] = "restore" ->
              site.status \in {"running", "stopped", "unhealthy"} /\ Known(f[2]) # {}
         [] f[1] = "backup-delete" -> Known(f[2]) # {}
         [] f[1] = "retry" -> site.status = "failed"
         [] OTHER -> TRUE

\* PutResourcePlan and DeleteResourcePlan.
PlanAccepts(f) ==
    IF f[1] = "plan-add"
    THEN Cardinality(plans) < MaxPlans /\ \A p \in plans : p.name # f[2]
    ELSE \E p \in plans : p.id = f[2]

Elsewhere == {"language", "logout", "login", "reconcile"}

Accepts(f) ==
    CASE f[1] \in {"plan-add", "plan-delete"} -> PlanAccepts(f)
      [] f[1] \in Elsewhere \cup {"settings-mail"} -> TRUE
      [] f[1] = "create" -> site.status = "none" /\ FormResources(f[2]) # {}
      [] OTHER -> SiteAccepts(f)

\* A form of one of the pages is submitted; opsMu is taken for its handler.
Submit(f) ==
    /\ f \in page
    /\ forms < MaxForms
    /\ forms' = forms + 1
    /\ Unlocked
    /\ Accepts(f)

-----------------------------------------------------------------------------
(* Tracked calls *)

Tracked == {"create", "retry", "start", "stop", "delete", "backup", "update", "restore", "resources"}

\* The marker is on disk before the worker is called.
CallTracked(kind, arg, shown) ==
    /\ task' = [kind |-> kind, arg |-> arg, shown |-> shown]
    /\ receipt' = NoReceipt
    /\ site' = CASE kind = "create" -> [NoSite EXCEPT !.status = "creating", !.pending = TRUE,
                                                      !.resources = arg]
                 [] kind = "retry" -> [site EXCEPT !.status = "creating", !.pending = TRUE]
                 [] kind = "delete" -> [site EXCEPT !.status = "deleting", !.pending = TRUE]
                 [] OTHER -> [site EXCEPT !.pending = TRUE]
    /\ UNCHANGED <<host, mail, plans, habit, page, now, restored, fileVars>>

SubmitTracked(f) ==
    /\ f[1] \in Tracked
    /\ Submit(f)
    /\ CASE f[1] \in {"create", "resources"} ->
              \E r \in FormResources(f[2]) : CallTracked(f[1], r, f[3])
         [] f[1] = "restore" -> \E b \in Known(f[2]) : CallTracked("restore", b, f[2])
         [] OTHER -> CallTracked(f[1], <<>>, <<>>)
    /\ UNCHANGED <<ids, scheduler, faults, notBefore>>

Snapshot == [id |-> ids + 1, plugin |-> host.plugin, tree |-> tree]

\* The backups a call takes before or as its own work.
Taken(kind) == IF kind \in {"backup", "scheduled", "update", "restore"} THEN {Snapshot} ELSE {}

\* What a completed call has done to the site.
HostAfter(t) ==
    CASE t.kind = "delete" -> NoHost
      [] t.kind \in {"create", "retry"} ->
           [host EXCEPT !.installed = TRUE, !.up = TRUE, !.resources = site.resources]
      [] t.kind = "resources" -> [host EXCEPT !.resources = t.arg]
      [] t.kind = "start" -> [host EXCEPT !.up = TRUE]
      [] t.kind = "stop" -> [host EXCEPT !.up = FALSE]
      [] t.kind = "restore" -> [host EXCEPT !.up = TRUE, !.plugin = t.arg.plugin]
      [] OTHER -> host

TreeAfter(t) ==
    CASE t.kind = "delete" -> [p \in FilePaths |-> Nothing]
      [] t.kind = "restore" -> t.arg.tree
      [] OTHER -> tree

\* What a call that failed or was fenced leaves; one that was never sent, the host
\* as it was.
HostsBroken(t) ==
    LET down == [host EXCEPT !.up = FALSE]
    IN  CASE t.kind \in {"create", "retry", "delete"} -> {host, down, NoHost}
          [] t.kind = "resources" -> {host, down, [down EXCEPT !.resources = t.arg]}
          [] t.kind \in {"update", "restore", "backup", "scheduled"} -> {host, down}
          [] OTHER -> {host}

\* The record as the steps of an unfinished call may have left it: an update saves
\* its safety backup, a restore marks the site stopped before it takes one.
RecordsLeft(t) ==
    LET stopped == IF t.kind = "restore" THEN [site EXCEPT !.status = "stopped"] ELSE site
    IN  IF t.kind \in {"update", "restore"}
        THEN {site, stopped, [stopped EXCEPT !.backups = @ \cup Taken(t.kind)]}
        ELSE {site}

\* applySiteMail after an explicit start; its failure is only recorded.
MailAfterStartUnchanged(h) == h
MailAfterStart(h) == IF mail.enabled THEN [h EXCEPT !.plugin = mail.version] ELSE h

\* runScheduledBackup postpones the next run from its own now.
Postponed(s, kind) ==
    IF kind = "scheduled" THEN [s EXCEPT !.next = scheduler.tick + Interval] ELSE s

SiteAfter(t) ==
    LET s == [site EXCEPT !.pending = FALSE, !.backups = @ \cup Taken(t.kind)]
    IN  CASE t.kind = "delete" -> NoSite
          [] t.kind \in {"create", "retry", "start"} -> [s EXCEPT !.status = "running", !.health = FALSE]
          [] t.kind = "stop" -> [s EXCEPT !.status = "stopped", !.health = FALSE]
          [] t.kind = "restore" -> [s EXCEPT !.status = "running"]
          [] t.kind = "resources" -> [s EXCEPT !.resources = t.arg, !.health = FALSE]
          [] t.kind = "scheduled" -> Postponed(s, "scheduled")
          [] OTHER -> s

\* opsMu is given back; a scheduler that waits for it behind a handler goes on
\* waiting, with the now of its tick.
Released ==
    /\ task' = NoTask
    /\ scheduler' = [scheduler EXCEPT !.waiting = @ /\ task.kind # "scheduled"]

\* The worker confirms the call and the handler saves the result.
TaskSucceeds ==
    /\ task.kind # "none"
    /\ task.kind = "start" => host.installed
    /\ Released
    /\ ids' = ids + Cardinality(Taken(task.kind))
    /\ site' = SiteAfter(task)
    /\ tree' = TreeAfter(task)
    /\ LET remail == task.kind = "start" /\ site.mail /\ mail.enabled
       IN  /\ \/ host' = (IF remail THEN MailAfterStart(HostAfter(task)) ELSE HostAfter(task))
                 /\ UNCHANGED faults
              \/ remail /\ Fault /\ host' = HostAfter(task)
           /\ restored' = CASE task.kind = "restore" -> TRUE
                            [] remail \/ task.kind = "delete" -> FALSE
                            [] OTHER -> restored
    /\ UNCHANGED <<mail, plans, receipt, habit, page, now, forms, notBefore, script, contents>>

\* A backup that is confirmed by the receipt only.
Receipted(t, done) ==
    CASE t.kind \in {"backup", "scheduled"} -> {IF done THEN Taken(t.kind) ELSE {}}
      [] t.kind \in {"update", "restore"} /\ ~done -> {{}, Taken(t.kind)}
      [] OTHER -> {{}}

\* What is left of a call without a confirmed result, whatever the worker did.
Unconfirmed(done) ==
    /\ done /\ task.kind = "start" => host.installed
    /\ \E b \in Receipted(task, done) :
         receipt' = [kind |-> task.kind, done |-> done, backups |-> b]
    /\ ids' = ids + Cardinality(Taken(task.kind))
    /\ IF done
       THEN host' = HostAfter(task) /\ tree' = TreeAfter(task)
            /\ restored' = (restored \/ task.kind = "restore")
       ELSE host' \in HostsBroken(task) /\ UNCHANGED <<tree, restored>>

\* What the handler saves after an error; the marker stays.
Failing(t, s) ==
    CASE t.kind \in {"start", "stop", "delete"} -> [s EXCEPT !.status = "unhealthy"]
      [] t.kind \in {"create", "retry"} -> [s EXCEPT !.status = "failed"]
      [] OTHER -> Postponed(s, t.kind)

\* A failure, or an answer that is lost.
TaskFails ==
    /\ task.kind # "none"
    /\ Released
    /\ IF task.kind = "start" /\ ~host.installed THEN UNCHANGED faults ELSE Fault
    /\ \E done \in BOOLEAN : Unconfirmed(done)
    /\ \E s \in RecordsLeft(task) : site' = Failing(task, s)
    /\ UNCHANGED <<mail, plans, habit, page, now, forms, notBefore, script, contents>>

\* The panel stops and its scheduler with it, or the last save fails: nothing but
\* the marker is known.
Interrupt ==
    /\ Fault
    /\ \/ task.kind # "none" /\ Released
       \/ task' = NoTask /\ scheduler' = [scheduler EXCEPT !.waiting = FALSE]
    /\ IF task.kind = "none" THEN UNCHANGED <<receipt, ids, host, tree, restored>>
       ELSE \E done \in BOOLEAN : Unconfirmed(done)
    /\ site' \in RecordsLeft(task)
    /\ IF script # Idle THEN KillScript ELSE UNCHANGED <<script, contents>>
    /\ UNCHANGED <<mail, plans, habit, page, now, forms, notBefore>>

RuntimeStatus ==
    CASE host.installed /\ host.up -> "running"
      [] host.installed /\ ~host.up -> "stopped"
      [] OTHER -> "unhealthy"

\* The limits are read back from compose.yaml.
Reconciled ==
    LET s == [site EXCEPT !.pending = FALSE, !.health = FALSE,
                          !.resources = IF host.installed THEN host.resources ELSE @]
    IN  CASE site.pending /\ receipt.kind = "delete" /\ receipt.done -> NoSite
          [] site.pending /\ receipt.kind \in {"create", "retry"} -> [s EXCEPT !.status = "failed"]
          [] ~site.pending /\ site.status = "failed" -> s
          [] OTHER -> [s EXCEPT !.status = RuntimeStatus,
                                !.backups = @ \cup (IF site.pending THEN receipt.backups ELSE {})]

\* The 30-second ticker and Refresh service status.
Reconcile ==
    /\ Unlocked
    /\ site.status # "none"
    /\ \/ site' = Reconciled /\ receipt' = NoReceipt /\ UNCHANGED faults
       \/ Fault /\ site' = [site EXCEPT !.health = TRUE] /\ UNCHANGED receipt
    /\ UNCHANGED <<host, mail, plans, ids, task, scheduler, habit, page, now, forms,
                   restored, notBefore, fileVars>>

-----------------------------------------------------------------------------
(* Backups and their schedule *)

DeleteBackup(f) ==
    /\ f[1] = "backup-delete"
    /\ Submit(f)
    /\ site' = [site EXCEPT !.backups = @ \ Known(f[2])]
    /\ UNCHANGED <<host, mail, plans, ids, task, receipt, scheduler, habit, page, now, faults,
                   restored, notBefore, fileVars>>

SaveBackupSchedule(f) ==
    /\ f[1] = "backup-schedule"
    /\ Submit(f)
    /\ site' = [site EXCEPT !.enabled = f[2], !.next = IF f[2] THEN now + Interval ELSE 0]
    /\ notBefore' = IF f[2] THEN now + Interval ELSE Never
    /\ UNCHANGED <<host, mail, plans, ids, task, receipt, scheduler, habit, page, now, faults,
                   restored, fileVars>>

\* List is read without opsMu.
SchedulerTick ==
    /\ ~scheduler.waiting
    /\ site.status # "none" /\ site.enabled /\ site.next # 0 /\ site.next <= now
    /\ scheduler' = [waiting |-> TRUE, tick |-> now]
    /\ UNCHANGED <<site, host, mail, plans, ids, task, receipt, habit, page, now, forms, faults,
                   restored, notBefore, fileVars>>

\* The candidate is taken as it was listed.
WantedAsListed == site.status # "none" /\ ~site.pending
\* A site that is not running is passed over, and stays due.
WantedRunning ==
    /\ site.status = "running" /\ ~site.pending /\ ~site.health
    /\ site.enabled /\ site.next <= scheduler.tick
\* Under opsMu the record is read again.
Wanted ==
    /\ site.status # "none" /\ ~site.pending /\ ~site.health
    /\ site.enabled /\ site.next <= scheduler.tick

\* A site that is not running is postponed.
SchedulerRuns ==
    /\ scheduler.waiting /\ Unlocked
    /\ \/ /\ ~Wanted
          /\ scheduler' = [scheduler EXCEPT !.waiting = FALSE]
          /\ UNCHANGED <<site, host, mail, plans, task, receipt, habit, page, now, faults,
                         restored, notBefore, fileVars>>
       \/ /\ Wanted /\ site.status # "running"
          /\ scheduler' = [scheduler EXCEPT !.waiting = FALSE]
          /\ \/ site' = Postponed(site, "scheduled") /\ UNCHANGED faults
             \/ Fault /\ UNCHANGED site
          /\ notBefore' = scheduler.tick + Interval
          /\ UNCHANGED <<host, mail, plans, task, receipt, habit, page, now, restored, fileVars>>
       \/ /\ Wanted /\ site.status = "running"
          /\ CallTracked("scheduled", <<>>, <<>>)
          /\ notBefore' = scheduler.tick + Interval
          /\ UNCHANGED <<scheduler, faults>>
    /\ UNCHANGED <<ids, forms>>

-----------------------------------------------------------------------------
(* Mail *)

\* applyMail: a site gets the plugin of the settings, or loses it.
Plugin(enabled) == IF enabled THEN mail'.version ELSE 0

\* The plugin is changed before the record: a failed save leaves them apart.
SetSiteMail(f) ==
    /\ f[1] \in {"mail-enable", "mail-disable"}
    /\ Submit(f)
    /\ UNCHANGED mail
    /\ \/ /\ host' = [host EXCEPT !.plugin = Plugin(f[1] = "mail-enable")]
          /\ restored' = FALSE
          /\ \/ site' = [site EXCEPT !.mail = (f[1] = "mail-enable")] /\ UNCHANGED faults
             \/ Fault /\ UNCHANGED site
       \/ Fault /\ UNCHANGED <<host, site, restored>>
    /\ UNCHANGED <<plans, ids, task, receipt, scheduler, habit, page, now, notBefore, fileVars>>

\* saveMailSettings passes over a site that is not running or is pending.
Reached == site.status = "running" /\ ~site.pending /\ site.mail

SaveMailSettings(f) ==
    /\ f[1] = "settings-mail"
    /\ Submit(f)
    /\ \/ /\ mail' = [enabled |-> f[2], version |-> mail.version + 1]
          /\ \/ Reached /\ host' = [host EXCEPT !.plugin = Plugin(f[2])] /\ restored' = FALSE
                /\ UNCHANGED faults
             \/ Reached /\ Fault /\ UNCHANGED <<host, restored>>
             \/ ~Reached /\ UNCHANGED <<host, restored, faults>>
       \/ Fault /\ UNCHANGED <<mail, host, restored>>
    /\ UNCHANGED <<site, plans, ids, task, receipt, scheduler, habit, page, now, notBefore, fileVars>>

-----------------------------------------------------------------------------
(* Resource plans; these handlers do not take opsMu *)

\* A plan under the lowest free number.
FreshPlanLowest == CHOOSE n \in 1..(MaxPlans + 1) : \A p \in plans : p.id # n
\* NewID.
FreshPlan == ids + 1

ResourcePlansAction(f) ==
    /\ f[1] \in {"plan-add", "plan-delete"}
    /\ f \in page /\ forms < MaxForms /\ forms' = forms + 1
    /\ PlanAccepts(f)
    /\ \/ /\ f[1] = "plan-add"
          /\ \E r \in {"small", "custom"} :
               plans' = plans \cup {[id |-> FreshPlan, name |-> f[2], resources |-> r]}
          /\ ids' = ids + 1
       \/ /\ f[1] = "plan-delete"
          /\ plans' = {p \in plans : p.id # f[2]}
          /\ UNCHANGED ids
    /\ UNCHANGED <<site, host, mail, task, receipt, scheduler, habit, page, now, faults,
                   restored, notBefore, fileVars>>

-----------------------------------------------------------------------------
(* Files *)

\* joinRelative: the name is one of the directory's; a move keeps the name.
FileAction(f) ==
    /\ Submit(f)
    /\ \E p, q \in FilePaths :
         /\ \/ f[1] \in {"upload", "mkdir"} /\ Parent(p) = f[2] /\ q = p
            \/ f[1] = "file-delete" /\ p = f[2] /\ q = p
            \/ f[1] = "file-move" /\ p = f[2] /\ q[Len(q)] = p[Len(p)]
         /\ BeginScript(f[1], p, q)
    /\ UNCHANGED <<site, host, mail, plans, ids, task, receipt, scheduler, habit, page, now, faults,
                   restored, notBefore>>

FileStep ==
    /\ ScriptStep
    /\ UNCHANGED <<site, host, mail, plans, ids, task, receipt, scheduler, habit, page, now, forms, faults,
                   restored, notBefore>>

\* What WordPress writes between two requests makes no difference to them.
WordPress ==
    /\ host.up /\ script # Idle
    /\ WordPressWrites
    /\ UNCHANGED <<site, host, mail, plans, ids, task, receipt, scheduler, habit, page, now, forms, faults,
                   restored, notBefore>>

-----------------------------------------------------------------------------

\* Time matters only to an enabled schedule.
ClockTick ==
    /\ site.enabled
    /\ now < MaxTime
    /\ now' = now + 1
    /\ UNCHANGED <<site, host, mail, plans, ids, task, receipt, scheduler, habit, page, forms, faults,
                   restored, notBefore, fileVars>>

SubmitForm ==
    \E f \in page :
       \/ SubmitTracked(f) \/ DeleteBackup(f) \/ SaveBackupSchedule(f)
       \/ SetSiteMail(f) \/ SaveMailSettings(f) \/ ResourcePlansAction(f) \/ FileAction(f)

SchedulerStep == SchedulerTick \/ SchedulerRuns

ConsoleNext ==
    \/ OpenPage \/ SubmitForm
    \/ TaskSucceeds \/ TaskFails \/ Interrupt \/ Reconcile
    \/ SchedulerStep
    \/ FileStep \/ WordPress
    \/ ClockTick

\* The tickers of the scheduler and of the reconciler run as long as the panel
\* does; a call ends by its own timeout and a script with its request; opsMu is
\* handed to a waiting goroutine.
ConsoleSpec ==
    /\ ConsoleInit /\ [][ConsoleNext]_consoleVars
    /\ WF_consoleVars(SchedulerTick) /\ WF_consoleVars(SchedulerRuns)
    /\ WF_consoleVars(TaskSucceeds \/ TaskFails)
    /\ WF_consoleVars(FileStep)
    /\ WF_consoleVars(Reconcile /\ ~site'.health)

-----------------------------------------------------------------------------
(* Properties *)

\* Forms of a site that its pages show without looking for a pending operation.
Unconditional ==
    {"backup-schedule", "restore", "backup-delete", "delete",
     "upload", "mkdir", "file-delete", "file-move"}

\* A fresh page offers no form that its handler would refuse, whatever calls,
\* faults and reconciliations have made of the site.  The exceptions are the
\* forms above, a restore of a site that was never completed or is going, and
\* the mail switch, which does not look at the global settings.
OffersAccepted ==
    Unlocked => \A name \in PageNames \ {"new"} : \A f \in Page(View(name, <<>>)) :
       \/ Accepts(f)
       \/ f[1] \in Unconditional /\ site.pending
       \/ f[1] = "restore" /\ site.status \in {"creating", "failed", "deleting"}
       \/ f[1] = "mail-enable" /\ ~mail.enabled
       \/ f[1] = "plan-add"

\* A form acts on what its page showed, however old the page: the resources of
\* the chosen plan, the content of the chosen backup.
SubmittedAsShown == task.arg = task.shown

\* While nothing fails, a scheduled backup never starts earlier than an interval
\* after the previous one or after the schedule was saved, and never after it
\* was disabled, although the scheduler chose the site before it had the lock.
ScheduleHonoured ==
    [][faults = 0 /\ task.kind = "none" /\ task'.kind = "scheduled" => now >= notBefore]_consoleVars

\* A due schedule is served or changed: it never stays due for ever.
ScheduleServed ==
    (site.enabled /\ site.next <= now) ~> (~site.enabled \/ site.next > now)

\* A running site with mail enabled uses the settings last saved, unless a fault
\* or a restore came in between, whatever was saved while it was stopped.
MailInForce ==
    faults = 0 /\ ~restored /\ Unlocked /\ site.status = "running" /\ site.mail /\ mail.enabled =>
        host.plugin = mail.version
=============================================================================
