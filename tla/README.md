# A TLA+ verification of panel4wp

panel4wp manages WordPress sites on one Docker host. Two processes share the
work: the **panel** (`cmd/panel`) talks to the administrator and keeps a record
of every site in `sites.json`; the **worker** (`cmd/worker`) is the only one that
may use Docker, and executes one HTTP request of the panel at a time. Between
them lie a network, two restart policies and a Docker daemon that goes on
working for a client that is gone. What the system has to get right is what it
believes about a site after any of these has failed, and that is what this
project specifies, model-checks and proves.

## 1. Inventory

| component | state | operations | interacts through |
|---|---|---|---|
| worker, tracked operations (`worker/main.go`, `runtime.go`, `resources.go`) | one receipt per site (`.operations/<id>.json`), `executionMu`, site directories, containers, volumes, routes, backups | `/create`, `/action` (start, stop, delete), `/restore/prepare`, `/backup`, `/restore`, `/update`, `/resources`, `/backup/delete`, `/runtime`, startup recovery | HTTP from the panel; Docker commands and the jobs they leave in the daemon |
| panel, site operations (`panel/main.go`, `runtime.go`, `resources.go`) | `sites.json` records with an operation marker, `opsMu` | the handlers of the site pages, `callTracked`, `reconcileRuntime`, retention | HTTP to the worker, which may be lost or answer late |
| site store (`internal/store/store.go`) | `sites.json` | Get, List, Put, Delete by atomic replacement | called by the panel under `opsMu` |
| database tool (`worker/main.go`) | `toolTimers` under `toolsMu`, the phpMyAdmin container | open, close, expiry callback, removal at startup | a timer goroutine outside `executionMu` |
| backup scheduler (`panel/main.go`) | `BackupPolicy` of each record | candidates, due time, backup, pruning | `opsMu`, tracked calls |
| quota restart gate (`worker/quota_restart.go`) | intent and maintenance files, verified boot | preflight, finish, reconcile, supervisor | Docker labels and restart policies, storage helper |
| quota ledger and preparation (`worker/quota_registry.go`, `quota_prepare.go`) | ledger, sentinel, process lock, preparation records | initialise, reserve, prepare, resume | storage helper |
| quota storage helpers (`deploy/storage-*.c/.h`) | journal, project tags | inventory, tag, verify | run by the worker as containers |
| capacity and resources (`internal/core/resources.go`, `worker/resources.go`) | limits in compose files and records | admission of creates, starts and changes | Docker info, compose files |
| login throttle (`panel/main.go`) | `loginFails` under `loginMu` | allow, fail, reset | concurrent HTTP handlers |
| sessions, CSRF and results (`panel/main.go`) | signed cookies, `flashes` under `flashMu` | log in and out, set and take a result | a browser's overlapping requests and answers |
| audit log (`internal/audit`) | a file of lines, one rotation | append, list | every handler and the scheduler |
| views (`panel/views.templ`) | none: forms and the conditions they are shown under | one page per URL | forms that are submitted later than they were shown |
| mail settings (`internal/settings`, `panel/main.go`) | an encrypted file, a plugin per site | save, enable, disable, apply after a start | untracked calls to the worker |
| file manager (`worker/main.go`, `panel/main.go`) | the files below `wp-content` | upload, mkdir, delete, move | PHP scripts in the site's container, beside WordPress |
| resource plans (`internal/store/plans.go`) | a file of named limits | list, put, delete | panel handlers, without `opsMu` |
| writer security policy and startup migrations (`worker/security.go`, `main.go`) | compose.yaml and the profile of each site | migrate networks and policies, add the database tool | every request that makes a container |
| routes and Caddy (`worker/main.go`) | route files, Caddy's loaded configuration | write, remove, reload two seconds later | a goroutine that outlives its request |
| translations, browser script | texts | | |

Behaviours that are hard to get right, and to test:

* Cancelling a request kills the `docker` client, not the helper container, CLI
  container or database exec the daemon runs for it. An operation that "ended"
  may still be writing the site.
* The worker can stop between any two commands, and its answer can be lost after
  a complete success. The panel must neither repeat the operation nor forget it.
* Every save can fail, and a receipt can be renamed into place while its
  directory sync reports an error.
* The panel can be restarted while the worker is still executing its request,
  and may reconcile, or be asked for something new, before that request ends.
* A half-done restore or update leaves files and database that do not belong
  together.
* `/backup/delete` is not tracked: it has no receipt and no marker.
* The database tool's timer callback runs outside every lock of a request.
* A quota-managed site must never run on storage that was not verified, not even
  after a reboot, when Docker acts before the worker does.
* Preparing a site for a quota writes files on two file systems, by two processes,
  either of which can be killed while the other goes on.
* compose.yaml is rewritten by migrations, upgrades and requests, in an order that
  depends on what an earlier version and an earlier crash have left, and the
  worker refuses a file it does not know.
* The scheduler chooses sites before it has the lock, and passwords are compared
  without one.
* Pages are submitted long after they were shown, in several tabs, and their answers
  arrive in any order.

What makes each component correct:

* worker: a receipt that is final means that nothing of the operation is running
  any more; a pending one is on disk before the first effect; a fenced operation
  leaves the services down; a confirmed deletion or resource change is complete.
* panel: an unsettled operation is marked; a recorded success is confirmed by the
  receipt; no site is forgotten before it is gone; a status that is shown is
  real; a safety backup precedes every update and restore; markers are settled.
* retention: only scheduled backups are pruned, never below the retention, and
  an interrupted pruning is made up for.
* database tool: it is removed in the end; a session is ended by its own timer.
* quota gate: intent before effect, verification before every start; an
  administrator's stop and a failed operation outlast every restart.
* quota ledger and helpers: no project ID is handed out twice, across crashes, the
  loss of the ledger and concurrent processes; a journal describes the data it
  will tag; an interrupted tagging can be taken up again and is never reported
  as complete.
* capacity: the sites that are configured, and those that run with older limits, fit
  at the boundary; a stopped site can be started again.
* access: a window never holds more logins than the limit; a result (a new site's
  password) is shown once, to the browser it is for; rotation and interrupted
  writes never cost the newest entries of the audit log.
* console: what a page offers is accepted; a form acts on what it showed; a
  schedule is honoured and served; a running site sends mail by the current
  settings; a file script destroys nothing it was not told to.
* site configuration: no sequence of upgrades and crashes leaves a file the worker
  refuses; Caddy comes to serve the routes on disk.

`PROJECT.json` lists each hazard at its source line with the properties that
cover it, and says why two of them are not covered.

## 2. Modules

| module | what it is |
|---|---|
| `Worker` | the worker's tracked operations, its receipts, Docker's jobs, crashes and recovery |
| `FencedOperations` | the abstract promise of the receipts: open, write, close |
| `WorkerProofs` | TLAPS proofs about `Worker`: receipts and jobs, the refinement, what operations do to a site's content |
| `Panel` | the panel composed with `Worker`: store, handlers, calls, reconciliation, restarts |
| `PanelProofs` | TLAPS proofs about `Panel`: markers and receipts, the shown status, the lists of backups |
| `DatabaseTool` | the phpMyAdmin container of a site, its requests and timers |
| `QuotaGate` | the restart gate of one quota-managed site: intents, verification, supervisor, reboots |
| `QuotaGateProofs` | TLAPS proofs about `QuotaGate` |
| `StorageAuthority` | the native helper: index of burned project IDs, journals, tagging |
| `QuotaLedger` | project IDs, preparation and tagging by the worker, composed with `StorageAuthority` |
| `QuotaLedgerProofs` | TLAPS proofs about `QuotaLedger` |
| `Capacity` | admission of sites by memory and CPU, and changes of their limits |
| `CapacityProofs` | TLAPS proofs about `Capacity` |
| `SiteConfig` | the configuration of one site: requests, migrations, routes and Caddy, composed with `DatabaseTool` |
| `SiteConfigProofs` | TLAPS proof about `SiteConfig` |
| `LoginThrottle`, `AuditLog` | the throttle of logins; the log with its rotation |
| `Access` | browsers at the panel: sessions, tokens, results; composes the two above |
| `AccessProofs` | TLAPS proofs about `Access` |
| `Pages` | the forms of every page, as operators on what the page is given |
| `FileManager` | the file scripts of one site, beside WordPress |
| `Console` | the administrator, the handlers, the scheduler, mail and plans; composes `Pages` and `FileManager` |
| `ConsoleProofs` | TLAPS proofs about `Console` and the `FileManager` in it |
| `MCWorker`, `MCPanel`, `MCDatabaseTool`, `MCQuotaGate`, `MCQuotaLedger`, `MCCapacity`, `MCSiteConfig`, `MCAccess`, `MCConsole` | instances for TLC (symmetry of IDs, sites, inodes and clients) |

### Worker

`receipt[s]` is the JSON file of `trackOperation`; `task` is the request holding
`executionMu`, or the recovery of one site; `host[s]` is what Docker and the file
system hold: services, containers that lag behind the configured limits, running
jobs, content, directory, route and published backups. Each handler is a *plan*,
the sequence of its Docker commands and file operations in source order
(`CreatePlan`, `RestorePlan`, ...), and each command is an action. A command
succeeds, is impossible (no compose file, name taken, context done), or fails
with no effect, all of its effect, or a named part of it. A *job* (archive helper,
`wp` CLI container, dump or import exec) is started by one step and ends by
another, so that crashes, timeouts and kills fall between the two.

`Begin` is `ServeHTTP` with `trackOperation`: refuse a repeated ID and a site whose
receipt is pending, save the pending receipt, run the handler only if that was
confirmed. An error sends the task to `quiesceSite` (`FencePlan`), which runs under
a context of its own; an error there leaves the receipt pending. `Runtime`
fences a pending receipt before it answers; `Boot`, `Settle` and `Serve` are
`main`. Nothing relies on the panel: any request may come at any time with any
ID, reused ones included.

`data = "torn"` stands for files and database that do not belong together: set
when a restore begins to replace files or a rewriting job is cut short, cleared
when an import completes. `ack` records that an administrator has started the
site since, which the code allows on purpose.

### Panel

`store[s]` is the record in `sites.json` (status, marker, backups, health error),
`handler` the request that holds `opsMu` with its own copy `mem` of the record and
the rest of its `Flow`, `sweep` a `reconcileRuntime` in progress, `call` the one
outstanding HTTP request. Every step either is a step of `Worker` or leaves its
variables alone. `LoseCall` is a lost request, a lost answer or the panel's own
timeout, `PanelRestart` an end of the process at any point. After either, the
worker goes on with what it has received. `CallTracked` saves the marker and
sends; `Answered` applies a confirmed result to `mem`, `Save` writes it;
`Reconcile` is the body of the loop of `reconcileRuntime`, with the recovery of
backups from receipts and the rules for `creating` and `deleting`.

A site begins `Unborn` and ends `Erased`: IDs are random and never reused.
A backup's ID is identified with the ID of the operation that makes it.

### DatabaseTool

`request` is the next step of `databaseAction`, `timers[k]` the state of the k-th
timer and of its callback (`armed`, `fired`, `removed`, `over`), `registered` the
entry of `toolTimers`. `Stopped` models `timer.Stop`, which has no effect on a
callback that has begun. `session` is a history variable: the timer of the
session last opened.

### QuotaGate

For a site with a quota record the worker, not Docker, decides whether the writers
run. `task` holds `executionMu`: a request, the supervisor's tick, the startup or
`/runtime`. As in `Worker` each is a sequence of steps (`StartQuotaSite`,
`PrepareRestore`, `Restore`, ...) with `Preflight` where the code calls
`quotaPreflight`; each step succeeds, refuses, or fails with all, some or none of
its effect. `Unwind` gives what the deferred calls do after an error: the fence of
the function itself, that of `finishQuotaWrite`, and `finish` with `quiesceSite`.
`Assessed` and `Survey` are the two halves of the loop of `reconcileQuotaSites`.
`guard` is what `loadQuotaGuard` finds and `old` the containers with an older
profile, any of which the initial states allow; `enforced` is what the storage probe
would find, which can change between any two steps.
The task remembers whether it has verified the storage (`verified`) and whether it
has launched something since its last verification (`unseen`).
A deletion removes containers and then the directory; `PartlyRemoved` says which of
its files an interrupted `os.RemoveAll` may have left.
A reboot ends everything and lets Docker start what has a restart policy. The
history variable `consent` says that the administrator's last word was to run
the site and that no operation has failed and no fence was applied since.

### QuotaLedger and StorageAuthority

`proc[w]` is `quotaDataTransition` in the worker process `w`: every lock, read and
save is a step. `Saved` is `atomicConfig`, which can report an error before or
after it has replaced the file. `flock` is `.quota-lock`, `dir`, `sentinel`,
`ledger` and `authority` are the files under the state directory, `guard` and
`plan` the two files of a site. `Undo` and `FenceFailure` are the deferred calls.
`StartSite`, `Sweep`, `DeleteSite` and `WriteData` are the rest of the system as
far as it touches a site being prepared.

`helper` is the one process that may hold the authority's lock: `prepare()` and
`tag_data()` as steps, with a kill before each (`KillHelper`). It is not tied to
its worker's life: `by` says who waits for its answer, and a crash or a timeout
sets it to `nobody` and leaves the helper running. `tree[s]` is a version of the
site's data, raised by every write of a running site, and a journal records the
version it was taken from; `tags[s]` are the inodes that carry the project.
`unfit[s]` says what in the data keeps them from being tagged: a set-ID mode or a flag
that tagging must not touch, or an inode that the journal of a deleted site still
names; a write leaves any of it. `outside` is what others have done to the file system
(`Interfere`): an inode with a project, a limit on it or on all of them, no enforcement, a
wrong root. Each is a reason of the helper to refuse, found at the step where the code
looks for it. A system call that fails for another reason is a `KillHelper`.
`DeleteSite` is one step, while the code removes containers, volumes and directory one
after the other: nothing of a transition can come between, because the helper's volumes
are inspected before it is launched and a helper at work holds them.

### Capacity

`config[s]` is the limit in a site's compose.yaml, `made[s]` the limits its two
containers were made with, `running[s]` which of them run. `Check` is
`HostCapacity.Check` over the sum `hostCapacity` makes: every other site, running
or not, with the larger of the saved and the actual limit. Requests are plans of
steps again, reduced to those that change limits or containers; `Fenced` kinds are
stopped after an error, the others are not. `record` and `failed` are what the
panel needs to decide which limits it may send: a retried creation sends the
record, a change needs a site that is not shown as failed. Relaunches by a restore
or by the database tool are not checked in the code and not checked here.

### SiteConfig

`compose` is compose.yaml reduced to what `writerCompose` looks at: the frontend
network and the `security_opt` line of each service (`none`, the `legacy` line, the
`guard`, or no such service). `Familiar` is the test of `writerCompose`. A request
and the startup are lists of steps; `StepFails` ends one with its error, `Crash`
ends the worker, and `Partial` says what the interrupted step may have done:
`atomicConfig` all or nothing, `os.WriteFile` a torn file, `os.RemoveAll` a part.
The steps of `DatabaseTool` are taken over action by action, so its timers fire
between the steps of every other request. `reloads` counts the goroutines that
sleep before `caddy reload`; `excused` records that a difference between `route` and
`loaded` is due to an error that was answered or logged.

### Access, LoginThrottle and AuditLog

An attempt to log in is entered by `loginAllowed`, checked without the lock and then
failed or succeeded. A session is the expiry in its cookie, a token the session its
page was rendered for: the signatures are taken as unforgeable. `wire` holds
redirects, requests and pages on their way between a browser and the panel, so that
the answers of two tabs overtake each other, and each can be lost. `Append` of the
audit log is a step per system call, each of which can fail; a write can leave a
`cut` line or one without its newline (`bare`), and `IsEntry` says which texts `List`
can still parse.

### Console, Pages and FileManager

`Pages` has an operator for each template, named as in `views.templ`, whose value is
the set of forms the template shows for a view. `Console` keeps in `page` the forms of
all open tabs: they stay as they were while the site changes. `Submit` takes the
handlers' conditions from `siteAction` and the functions it calls, which are written
independently of the views. A tracked call is one step that begins it and one that
ends it, with success, an error, a lost answer or a restart of the panel;
`RecordsLeft`, `HostsBroken` and `Receipted` say what each may leave (`Panel` has
the steps in between). `scheduler` is the goroutine of `runScheduledBackups` with
the time of its tick; `notBefore` is a history variable. Mail settings are a
version number and `host.plugin` is the version in the site's plugin. In
`FileManager` a script is its checks and, later, the call that takes effect, with
the semantics of rename(2).

## 3. Runs

| run | instance | checks | result |
|---|---|---|---|
| `worker` | 1 site, 2 IDs, all 9 kinds, 3 faults; 313 thousand states | types; `NoOrphanJobs`, `ReceiptBeforeEffects`, `OneJobPerSite`, `TornNotServed`, `ConfirmedIsDone`; implements `FencedOperations` | holds |
| `panel` | 1 site, 5 IDs, all 11 actions, retention 1, 1 worker fault, 1 upset; 1.15 million states | `UnsettledIsMarked`, `SuccessIsConfirmed`, `DeletionConfirmed`, `ShownStatusIsReal`, `BackupRecorded`, `SafetyFirst`, `RetentionSpares` | holds |
| `panel_progress` | 2 IDs, 1 fault, 2 upsets, fair; 83 thousand states | `MarkerResolved` | holds |
| `panel_retention` | create and scheduled backups only, 1 upset | `RetentionRecovers` | **violated** |
| `site_config` | 5 requests of any of 6 kinds, 3 timers, 2 failures or crashes, fair; 235 thousand states | `ConfigUsable`, `RoutesConverge`, `ToolCloses` | holds |
| `database_tool_session` | 2 timers, no failure | `FreshSession` | **violated** |
| `quota_gate` | 3 requests of any of 11 kinds, 2 faults, 1 change of the storage, fair; 549 thousand states | `RestartIsOurs`, `LaunchVerified`, `ResumeIsIntended`, `FailureBlocks`, `UnentitledStopped` | holds |
| `quota_ledger` | 1 worker, 2 sites, 3 projects (one foreign), 2 inodes, 1 write, 4 transitions, 2 faults, all acts of others; 3.5 million states | `PreparationSound`, `RefusedForCause` | holds |
| `quota_ledger_workers` | 2 workers, 2 sites, 1 inode, 2 transitions, 2 faults, 2 acts of others, fair; 375 thousand states | `ProjectsUnique`, `TransitionEnds` | holds |
| `capacity` | 2 sites, limits of 0, 1 or 4 units of memory and 1 or 2 of CPU, 10 and 6 usable, 2 faults; 1.67 million states | `ConfiguredFits`, `RunningFits`, `ReservationHeld` | holds |
| `access` | 2 browsers, limit and window 2, log of 2 entries, 5 requests, clock to 2, 1 fault; 3.3 million states | `ThrottleHolds`, `ResultShownOnce`, `NewestKept`, `ListRecovers` | holds |
| `console` | 1 site, 4 habits, 4 forms, 1 plan, 6 paths, 2 contents, clock to 2, 1 fault, fair; 232 thousand states | `OffersAccepted`, `SubmittedAsShown`, `MailInForce`, `ScheduleHonoured`, `ScheduleServed`, `FilesConserved` | holds |

`ConfirmedIsDone` says of a confirmed deletion that nothing is left and of a
confirmed change of resources that the containers have the new limits;
`TornNotServed` covers a restore in progress as well as one that was interrupted.
`PreparationSound` says that a journal holds a reserved ID and the data it will tag, and
that tags are covered by a plan in the phase of tagging, complete once it is
`tagged`. `RefusedForCause` says that a helper which is to tag refuses only for one of the
causes in section 2, or for a journal that was cut short, present at the moment of the refusal:
its own tags of an interrupted attempt, in particular, are no cause.
`LaunchVerified` asks for a verification before each launch and for another one after
the last launch, before a start or a gated request succeeds.
`FilesConserved` holds for scripts that WordPress has overtaken, too: between the
check and rename(2) of a move a new file can be lost at the target, never one that the
script has seen.
`OffersAccepted` names the cases in which a page does offer what its handler refuses; they
are mismatches of the code, described with the property.

**Bounds.** One site is enough for the worker's invariants because `executionMu`
serialises the worker and every fact is about one site; startup recovery of
several sites is covered by the proofs, which hold for any set of sites. Two IDs
suffice to tell a repeated operation from another one, and a restore's two
backups apart; they are reused freely in `worker`. In `panel` IDs are fresh, so five of them bound
the history to five tracked calls: enough for a creation, an update or restore
with its safety backup, and for two scheduled backups and the pruning after them. Three
faults allow a failing command, a failing fence and a crash during the recovery
of one operation. In `panel` one fault of the worker meets one upset of the panel
at any two points. In `quota_gate` three requests give a preparation of a restore,
the restore and one more request between or after them, while the supervisor ticks
without a bound. In `quota_ledger` four transitions prepare and tag one site with
two retries, or both sites; three projects with one foreign leave exactly one for each site, so
that a second allocation for a site would have to collide or be refused. Two
inodes are the least that can be half tagged. An act of others counts as a fault when it
begins and can end at any time. In `capacity` the largest site and the
smallest one fill the memory exactly, and two sites with different CPU limits fill
the CPUs exactly; the load of other containers and the disks change at any time. In `site_config` five requests give a
failed creation, its retry, a session of the tool and a deletion, with reloads of both
kinds under way at once; two failures meet in the same migration or request and in
the startup after it. In `access` a limit of two is exceeded by the third of five
attempts, in one window or across two, and a log of two lines is rotated twice. In
`console` the administrator of a behaviour keeps to one of four *habits*, sets of forms
that touch the same state (schedule and backups, mail and restores, plans and
resources, files), while scheduler, reconciler and faults are free: a product of
forms that have no state in common would show nothing more. The
clock runs only while a schedule is enabled and WordPress writes only while a script
is at work, because nothing else looks at them. All bounds (`MaxFaults`, `MaxUpsets`, `MaxTimers`,
`MaxFailures`, `MaxRequests`, `MaxChanges`, `MaxTransitions`, `MaxWrites`,
`MaxProject`, `MaxEntries`, `MaxTime`, `MaxForms`, `MaxPlans`, `MaxContents`, `Ids`) are guards. Operation IDs are only compared, which makes the symmetry sound;
the liveness run uses none.

Deadlock is checked where the system goes on for ever in the model; in
`site_config`, `access` and `console` it may stop when its bounded requests, forms
and clock are used up. `PanelTypeOK`, `ToolTypeOK`, `GateTypeOK`, `LedgerTypeOK`,
`CapacityTypeOK` and `AccessTypeOK` document the types of their modules; they hold in
the same instances and are not among the properties of a run.

**Fairness.** `PanelFairness` assumes that handlers, sweeps, receptions and worker
steps are scheduled (goroutines), that a sweep starts when `opsMu` is free
(`runRuntimeReconciler` has a 30-second ticker), that the worker is restarted
(`restart: unless-stopped` in `compose.yaml`), and that a job ends, which the
20-minute context and the fencing after it enforce. All of it is weak fairness.
Nothing is assumed of the administrator, and faults and upsets are never fair.
`ToolSpec` and `ConfigSpec` assume that timers expire, callbacks, requests and the
reloading goroutines are scheduled, and the worker restarts. `ConsoleSpec` is weakly
fair to the scheduler's ticker and to its turn at `opsMu`, to the end of a call (it
has a timeout), to the steps of a script, and to a reconciliation that reaches the
worker, which the 30-second ticker repeats for ever while faults are bounded. `GateSpec` is weakly fair to the steps of the task at work, the
boot, the end of a job and the supervisor's tick. `runQuotaSupervisor` takes
`executionMu` with `TryLock` and skips the tick if it fails, so under an endless
stream of requests it might never run; `UnentitledStopped` is about the time after
the last request, which the bound on requests provides. `LedgerSpec` is fair to each
transition, to the boot and to the helper. `.quota-lock` is polled, and weak
fairness is enough because the number of transitions is bounded.

## 4. Disagreements between documentation and code

Shown by a run:

* **Retention** (`panel_retention`). The README promises that retention "keeps
  between 1 and 30 scheduled backups". When `/backup/delete` has removed the
  directory and its answer or the following save is lost, the entry stays in
  `sites.json`; every later deletion of it fails at `os.Stat`, and because it is
  the oldest, `pruneScheduledBackups` returns there each time.
* **Fresh session** (`database_tool_session`). "Opening it again starts a fresh
  15-minute session", but the callback of a timer that is just expiring removes
  the container of a session opened meanwhile, and takes the newer timer off
  `toolTimers`.

Noticed while modelling; the models allow each of these, and the properties are
stated so that they say what holds beside them:

* phpMyAdmin "is automatically removed after 15 minutes" (`README.md:127`), but the
  timer is only set after `compose up` and the readiness check have succeeded, is
  cancelled before `compose rm` is known to have succeeded, and is not set again
  when its own `compose rm` fails.
* `/runtime` tells the administrator of a site with an older writer profile to
  "Start the site to apply it with existing volumes" (`runtime.go:230`, and
  `docs/RESOURCES.md:68`). For a managed site `startQuotaSite` inspects the containers
  before `compose up` would recreate them and refuses the older profile each time.
* A failed creation whose deletion then fails is shown as unhealthy, and Retry,
  which `docs/RECOVERY.md:11` recommends, is refused.
* A creation that fails after its route was written leaves the route, which the
  next reload for another site loads.
* A deletion cut short in `os.RemoveAll` may remove a managed site's quota record
  before its compose.yaml; a Start then runs it, with new volumes, as an ordinary site.
* A worker killed inside `os.WriteFile` of `migrateLegacyNetworks` leaves a torn
  compose.yaml that no request accepts, deletion included.
* Disabling mail for all sites while one is stopped leaves the plugin of that site
  as it was after its next start, and a restore brings back the plugin of its
  backup.
* A panel that ends during a scheduled backup begins it again at its first tick.
* A line of the audit log that was cut short makes `List` fail, and the activity
  page stay empty, until the line is rotated away.
* Two worker processes on one state directory, which `lockQuotaLedger` is there for:
  `quotaDataTransition` reads a site's plan before it takes `.quota-lock` and uses
  that copy afterwards. A second worker that read "no plan" and then waited can
  replace the plan of a tagging that the first worker began and left to its helper
  with a plan in the phase `pending`. Project IDs stay unique all the same
  (`ProjectsUniqueHolds`); `PreparationSound` is stated for one worker, the one
  service of `compose.yaml`.
* The answer to one page clears the cookie of a result set after it was asked for.

## 5. Proofs

Each proof module extends the module it is about and holds for every value of its
constants that the named assumptions allow, and for any number of faults.

**`WorkerProofs`**, for every set of sites and IDs and every set of requested kinds,
from `SitesAssumption`, `IdsAssumption`, `MaxFaultsAssumption` and
`ClientKindsAssumption`:

* `TypeCorrect`, `ReceiptBeforeEffectsHolds`, `NoOrphanJobsHolds`,
  `OneJobPerSiteHolds`: the invariants of the same names.
* `Refinement`: `Spec => ImplementsFencedOperations`. Whoever reads the receipts
  gets a truthful account of whether anything is at work on a site.

`NoOrphanJobs` is not inductive: a request that concludes closes the receipt, and
the induction has to know that no job is left at that point. `Inv` therefore
accounts for jobs at each point of an operation (`JobsAccounted`): a running handler has at most
the job it waits for; a fence that has passed `rmjobs` has at most an exec left,
and one that has passed `stopdb` has nothing. For that to suffice, an exec
may only belong to a kind whose fence stops the database
(`ExecsFenced`, and `PlannedExecsFenced` for the steps still to come) and the task
must be the one of the pending receipt (`ReceiptBeforeEffects`). Each action has
a lemma saying that it preserves `Inv` and that it is `Quiet` (receipts as they are, jobs
only ending), `Starts` one job, `Opens` or `Closes` one receipt; the refinement
and `OneJobPerSite` follow from that classification alone.

About the content of sites it proves, from the same assumptions:

* `TornNotServedHolds`, `ConfirmedIsDoneHolds`: the invariants of the same names.

Neither is inductive: while an operation runs, its site may be anything between the
states it starts from and ends in. `ContentInv` says what each point of a handler
has achieved (`Achieved`), by the number of steps that are left of its plan
(`IsEnd`): a restore has WordPress down from its first replacement to the end of its import,
a deletion has removed one thing after another, a change of resources has no
container with older limits at its end. Of the sites at rest `SiteSound` says what
their receipts promise, and `Quenched` that a fence which has stopped WordPress, or
need not, leaves nothing torn being served. The kinds that can tear content are
exactly those whose fence stops WordPress, and that is where the proof would break if
a kind were missing from `quiesceSite`.

**`PanelProofs`**, for any sites, IDs, actions, faults and upsets, from those
assumptions, `NoneAssumption` ("none" is no ID), `ActionsAssumption`, `AllKinds` (the
worker accepts every kind) and `RetentionAssumption` (at least one backup is kept, as
`ValidateBackupPolicy` asks):

* `PanelImplementsWorker`: `PanelSpec => Spec`. The composition adds no behaviour to
  the worker, so the theorems above hold of both processes together.
* `UnsettledIsMarkedHolds`, `SuccessIsConfirmedHolds`, `DeletionConfirmedHolds`,
  `ShownStatusIsRealHolds`.
* `BackupRecordedHolds`, `SafetyFirstHolds`, `RetentionSparesHolds`, for lists of any
  length.

The record of a site and its receipt disagree for as long as a call is under way,
and a handler's copy of the record disagrees with both. `PanelInv` relates the
three: `SiteAgrees` for what is on the two disks (a pending receipt has its marker,
with the same ID and kind; a marker that says succeeded has its receipt; what is
forgotten is gone); `CopyAgrees` for the copy when nothing of the handler is at the
worker; `CallSound` for what each phase of the outstanding call means (sent: the
worker has not seen this ID; received: its task is at work; ok: its receipt says
succeeded); `SweepSound` for the mutual exclusion by `opsMu`. Because every
request carries an ID not used before (`issued`), a receipt with the ID of a marker
is the receipt of that operation. A receipt can never be of an operation nobody is
waiting for and nobody has marked.

For the status, `StatusInv` follows what it claims from the moment a request is sent to
the moment its confirmation is saved. What a record shows when `callTracked` sends the
request is so (`CallShown`, phase sent); each step of the handler brings the services
nearer to what the request is for (`Progress`, by the number of steps left of the plan);
when the last one is done, the status that the panel is going to record for this kind of
operation (`After`) is so, and it stays so in the handler's copy (`CopyShown`) and in the
record (`SitesShown`), because the services of a site without a pending receipt do not
change (`ServicesKept`). A change of resources is where it is delicate: it stops and
recreates the services and the record keeps its status, so the proof needs that
`inspect` found the site as the record shows it. `StatusInv` does not ask that the last
sweep reached the site, so it is stronger than `ShownStatusIsReal`; TLC checked it on the
instance of run `panel` before it was proved.

For the lists of backups there are four places to relate: `sites.json`, the handler's copy,
the receipt and the published archives. `ListInv` says of each list (`Sound`) that it names
only IDs that were issued, that it does not yet name the backup of a pending operation, and
that it does name the backup of a succeeded receipt once its marker is resolved or belongs
to a later operation. This holds of the records (`SitesListed`) and of the copy
(`CopyListed`), which can be ahead of its record. Further, the copy ends with a
published safety backup from the moment one is confirmed to the call it is for
(`SecuredTodos`, `Secured`), and a backup about to be discarded by retention is scheduled,
listed on disk and one too many (`Prunable`); a confirmed backup is published
(`CallListed`) and an update or restore that the worker executes has its safety backup
in `sites.json` (`TaskListed`). The last is why no single property is inductive: the worker
learns nothing of lists, so it takes the order of the handler's saves and calls. That a
published backup stays is shown of every command of the worker (`Grows`): only a deletion of
the site and `/backup/delete` remove one. What filtering leaves of a list (`Among`) is a
recursive function, and its lemmas are proved by taking the least length for which they
would fail: `WFMin` has no operator as a parameter, so the prover can use it. TLC checked
`ListInv` on the instance of run `panel` before it was proved.

**`QuotaGateProofs`**, for any number of requests, faults, crashes, reboots and changes of
the storage, from `MaxRequestsAssumption`, `GateFaultsAssumption`
and `MaxChangesAssumption`:

* `LaunchVerifiedHolds`, `ResumeIsIntendedHolds`, `RestartIsOursHolds`,
  `FailureBlocksHolds`.

A task is a sequence of steps, and what makes it safe is the order of those that are
left. Three relations say all that is needed of it: none of a set is left
(`Lacks`), each of a set has one of another before it (`Behind`), none of a set comes
after one of another (`Parted`). `GateInv` says of every task, for instance, that a launch is
verified already or has a verification before it (`Preflighted`), that a
failed request reaches its receipt only through a fence (`Fencing`), that a
fence takes back the intent before it stops the containers (`Withdrawing`), that a
deletion removes the files of a site that is stopped and down (`Removing`), and that a
task which resumes has the administrator's consent (`Resuming`). For what comes after a launch a second
invariant, `LaunchInv`, says that each launch left in a plan has a verification after
it (`Rechecked`), and that a task with something unseen has a verification left before the
step that lets the site run or closes the receipt (`Attended`). These are shown once
for each plan of the code and for what the deferred calls put in its place after an
error (`Unwind`); after that a step has only to show what it achieves (`Effect`),
and one lemma (`OnwardSound`) carries the rest of the plan over.

**`QuotaLedgerProofs`**, for any sites, projects, inodes, transitions, writes and
faults, from `MaxProjectAssumption`, `ForeignAssumption`, `MaxWritesAssumption`,
`WorkersAssumption`, `MaxTransitionsAssumption`, `LedgerFaultsAssumption` and
`ActsAssumption`:

* `ProjectsUniqueHolds`, for any number of worker processes. `ProjectsInv`: what any file
  or helper binds is what the ledger says, while there is a ledger (`LedgerRules`); only
  a transition that found no binding anywhere may begin one, and before the sentinel
  there is none (`BoundApart`, `Holds`); whoever knows something of the
  ledger holds `.quota-lock` (`ProcHolds`).
* `JournalCurrentHolds` and `RefusedForCauseHolds`, for any number of workers. `JournalInv`: a
  site with a journal is marked and down, so its data cannot change under the
  journal (`Shut`); what a helper has read stays as it was for as long as the helper lives, even if
  its worker is gone (`HelperKept`). From it follows that a helper which is to tag finds its own
journal, true of the data, and nobody of this installation with its project, so that
only the causes are left.
* `PreparationSoundHolds`, for one worker. `TagInv`: a transition knows the plan on disk
  until it replaces it (`Planned`), and a helper that tags has its plan and record
  on disk (`HelperPlanned`). With two workers the first part fails, see section 4.

**`AccessProofs`**, for any browsers, limit, window and lifetimes,
from `LimitAssumption`, `WindowAssumption` and `LifeAssumption`:

* `ThrottleTheorem`: `ThrottleHolds`. However many passwords are compared at
  once, no window holds more than `Limit` attempts of a client between two of its
  successes or restarts of the panel. `ThrottleInv` adds what the induction needs:
  attempts are numbered in the order of their times (`Numbered`), and `loginFails`
  still counts every attempt of the current window (`Remembered`).
* `ResultTheorem`: `ResultShownOnce`. `FlashInv` accounts for the place of each result: in
  `flashes`, in a page on its way, or shown, and in one of them only; cookies and
  requests carry only the IDs of results made for their own browser.
* `NewestKeptHolds` and `ListRecoversHolds`, from `LogSizeAssumption` and `ListLimitAssumption`
  (`List` refuses a limit below 1). `LogInv` locates the two files in everything ever
  written: they are its end, the rotated one before the current one (`Located`); a rotated
  file was full, and there is none only if the current one is full or nothing was
  ever dropped (`Enough`); a file is rotated when it is full and does not grow beyond
  that (`Filled`), which is why a fragment cannot stay in the file `List` reads.

**`SiteConfigProofs`**:

* `ConfigUsableTheorem`: `ConfigUsable`. `ConfigInv` says that compose.yaml is absent,
  torn by the write named above, or sound; that in what is left of any request a step
  that makes containers comes after the one that writes the profile and before
  any removal (`Ordered`); and that a request about to make containers has its profile.

**`ConsoleProofs`**, for any plans, interval, paths, contents, forms, time and faults, from
`IntervalAssumption`, `FilePathsAssumption` (paths are sequences of names, and with a path
its parents are paths) and `InitialTreeAssumption` (what is somewhere is in
directories, as in every file system):

* `OffersAcceptedHolds`, from the types alone (`ConsoleTyped`: the records keep their
  shape, and `opsMu` is held by a call or by a script, never by both). A page is a function
  of the record; the proof goes through every form of every template and compares
  its conditions with the handler's.
* `SubmittedAsShownHolds`. A page stays in the browser while the plans and the backups
  change. `ShownInv`: every plan and backup has an identifier given once
  (`Distinct`), so whatever a page shows under an identifier is what is there now under it, if
  anything is (`PagesTrue`).
* `MailInForceHolds`. `MailInv`: until something fails, no marker outlives its call and the
  record's status is what the host does (`Smooth`, `Real`), and, until a backup is
  restored, a running site with mail has the plugin with the version last saved (`Current`).
* `ScheduleHonouredHolds`. `DueInv`: the record's next time is never before the one that the
  administrator or the last backup set, and the tick that the scheduler works with
  stays what it was when it listed its candidates.
* `FilesConservedHolds`. `TreeInv`: the files are a tree, and so is every copy of them in a
  backup, which a restore puts in their place; between the checks and the act of a script,
  the target of a move has nothing but what was written since the checks (`ScriptOK`). That a move
  takes every file below its source to a place of its own, and none of them onto a file
  that stays, is then a matter of prefixes (`IsUnder`).

**`CapacityProofs`**, for any finite set of sites, any sizes, host, load by other
containers and faults, from `SitesAssumption`, `SizesAssumption` and `HostAssumption`:

* `ConfiguredFitsHolds`, `RunningFitsHolds`, `ReservationHeldHolds`, each a consequence of
  `CapacityInvariant`.

Neither of the first two is inductive: the admission of one site counts the saved and the
actual limits of all the others, so a configuration that fits is not enough when
containers are larger, and running containers that fit are not enough when a stopped one
is started later. The invariant counts every container, running or not, with the larger of
the two (`AllFit`). Only the step that saves a configuration can enlarge that sum, and
by then it was admitted against every other site (`Admitted`), which nothing has changed since,
as the worker executes one request at a time. It remains to show that the other steps do not
enlarge it: `up` and `recreate` make containers of saved limits; a deletion removes the
directory after the containers (`RemoveReady`); a change starts from containers that are
as configured (`SaveReady`), and a retried creation has the limits that any container left
by an earlier attempt has (`FailedSound`), which is where it matters that the panel
refuses to change a site it shows as failed. The sum is a fold over a finite set; that it
exists, does not depend on the order, grows with its terms and splits off one site is
proved first, by induction on the size of the set, again from `WFMin`.

Model-checked only: the liveness properties (`MarkerResolved`, `RoutesConverge`, `ToolCloses`,
`UnentitledStopped`, `TransitionEnds`, `ScheduleServed`). Liveness under fairness and
`ENABLED` are out of the prover's reach. Every invariant and every other action property
that a passing run checks is a theorem.

## 6. Not modelled

* In `Worker` and `Panel`, sites with a quota record: where a handler calls the
  gate, `Worker` follows the path of a site without one.
* In `QuotaGate`, the timers of the database tool (`DatabaseTool` has them), and
  requests other than a deletion once a deletion that was cut short has removed
  both marks of the site: it is then a site without a record, as in `Worker`.
* In `QuotaLedger`, more than one file system; a changed daemon, installation or
  owner; limits on the number of sites and inodes; damage to files other than the
  loss of `.quota`; the moment between two helpers' creating and locking the
  authority's lock file; inode numbers (that an inode of a deleted site is used again is
  one of the `Oddities`); a disagreement of the accounting of XFS with the census
  (`storage-tagging.h:130`); changes of a stopped site's data by anything but its own
  containers.
* In `Capacity`, receipts that cannot be saved (`Worker` has them), fractions of the
  units, the parsing of compose.yaml and of Docker's statistics.
* The system calls of the storage probe: `enforced` in `QuotaGate` and `Enforced` in
  `StorageAuthority` are its answer.
* In `Worker`, `Panel` and `QuotaGate` the answer of `checkCapacity` (`Capacity` has
  its arithmetic) is a free choice, and so is in `Panel` its own `/capacity` request before a create or a change (a refusal there
  changes nothing).
* `SiteConfig` and `Console` have one site. In `SiteConfig`, a change of resources and
  the restart policy of a quota, which rewrite other lines of compose.yaml. In
  `Console`, the steps inside a tracked call and a deletion of a backup that fails in
  the worker (`Panel` has both).
* How `loginClientIP` finds an address, the cryptography of cookies, tokens and of
  the encrypted settings, and the panel's forwarding of HTTP to the database tool.
* Requests that only read: statistics, storage, logs, the listing and downloading of
  files.
* Power loss: a receipt that was renamed survives, as after a process crash.
  WordPress or the database failing by themselves.
* Requests overtaking each other on the network between panel and worker: a call
  reaches the worker before any later call or is lost.
* Texts, translations, layout and the browser's script: no operation depends on them.

## 7. Plan

Models: an abstract specification of what the quota gate promises.

