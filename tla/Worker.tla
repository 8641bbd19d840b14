------------------------------- MODULE Worker -------------------------------
(***************************************************************************)
(* The worker process of panel4wp (cmd/worker): it owns Docker, runs one   *)
(* request at a time, and keeps one durable receipt per site so that an    *)
(* operation cut short by a crash, a timeout or a lost connection is never *)
(* mistaken for a finished one.                                            *)
(*                                                                         *)
(* Any request may arrive at any moment, with any operation ID: nothing    *)
(* here relies on the panel being well behaved.  A request is executed as  *)
(* the sequence of Docker commands and file operations of its handler, and *)
(* every one of them can fail, with or without its effect.  A job (a       *)
(* helper container, a CLI container or a database exec) is run by the     *)
(* Docker daemon and outlives the command that started it.                 *)
(***************************************************************************)
EXTENDS Naturals, Sequences

CONSTANTS
    Sites,      \* site IDs
    Ids,        \* operation IDs; a /backup request's BackupID is identified
                \* with the ID of the operation that carries it
    ClientKinds,\* the kinds of operation the clients ask for
    MaxFaults   \* bound on failing commands, lost connections and crashes

ASSUME SitesAssumption == Sites # {}
ASSUME IdsAssumption == Ids # {}
ASSUME MaxFaultsAssumption == MaxFaults \in Nat

VARIABLES
    receipt,    \* receipt[s]: <root>/.operations/<s>.json
    worker,     \* "down", "starting" (main, before ListenAndServe), "serving"
    task,       \* the request holding executionMu, or the recovery of a site
    unsettled,  \* sites whose receipt the startup recovery has yet to read
    host,       \* host[s]: what Docker and the file system hold for a site
    faults      \* faults so far

vars == <<receipt, worker, task, unsettled, host, faults>>

-----------------------------------------------------------------------------
(* Types *)

Kinds == {"create", "start", "stop", "delete", "prepare-restore", "backup",
          "restore", "update", "resources"}

ASSUME ClientKindsAssumption == ClientKinds \subseteq Kinds

\* Kinds whose jobs can be running inside the database container, or leave
\* the site's content half written: quiesceSite also stops both services.
FencedKinds == {"restore", "update", "backup", "prepare-restore", "resources"}

Services == {"wp", "db"}

\* Jobs are named after the step that starts them.
Helpers == {"archive", "files"}   \* docker run --name wph-job-<id>
CliJobs == {"install", "update"}  \* compose run --name wph-cli-<id> cli
Execs == {"dump", "import"}       \* docker exec wph-db-<id>
Jobs == Helpers \cup CliJobs \cup Execs

\* Jobs that rewrite the site's content in place.
Rewriting == {"files", "import", "update"}

FileSteps == {"conf", "mkdir", "config", "route", "unroute", "rmdir",
              "rmbackups", "publish", "verify"}
DockerSteps == {"admit", "inspect", "closetool", "gone", "up", "updb", "upwp",
                "stopwp", "stopdb", "stop", "down", "recreate", "rmjobs"}
Steps == FileSteps \cup DockerSteps \cup Jobs

NoReceipt == [id |-> "none", kind |-> "none", state |-> "none"]
Receipts == [id : Ids, kind : Kinds,
             state : {"pending", "succeeded", "failed", "interrupted"}]

Hosts == [svc : [Services -> {"absent", "stopped", "running"}],
          stale : SUBSET Services, \* containers created from older limits
          jobs : SUBSET Jobs,      \* jobs the Docker daemon is running
          data : {"none", "whole", "torn"}, \* volumes; torn: a rewrite of the
                                   \* content was begun and never completed
          ack : BOOLEAN,           \* started by the administrator since torn
          dir : {"none", "bare", "config"}, \* site directory; compose.yaml
          route : BOOLEAN,         \* <routes>/<id>.caddy
          backups : SUBSET Ids]    \* published backup directories

NoHost == [svc |-> [x \in Services |-> "absent"], stale |-> {}, jobs |-> {},
           data |-> "none", ack |-> FALSE, dir |-> "none", route |-> FALSE,
           backups |-> {}]

\* A decoded request with an X-Operation-ID.  from and safety are the
\* BackupID and SafetyBackupID of a restore.
Requests == [site : Sites, id : Ids, kind : ClientKinds, from : Ids, safety : Ids]

NoTask == [mode |-> "none"]
Tasks == [site : Sites, id : Ids, kind : Kinds, from : Ids, safety : Ids,
          mode : {"run",      \* the handler's own steps
                  "fence",    \* finish: quiesceSite after an error
                  "recover",  \* /runtime: quiesceSite for a pending receipt
                  "startup"}, \* recoverInterruptedJobs for one site
          todo : Seq(Steps),  \* steps still to do
          waiting : BOOLEAN,  \* the command of a job has been issued
          live : BOOLEAN,     \* the request's context is not done
          was : BOOLEAN]      \* resources: the site was running at admission

TypeOK ==
    /\ receipt \in [Sites -> Receipts \cup {NoReceipt}]
    /\ worker \in {"down", "starting", "serving"}
    /\ task \in Tasks \cup {NoTask}
    /\ unsettled \in SUBSET Sites
    /\ host \in [Sites -> Hosts]
    /\ faults \in 0..MaxFaults

-----------------------------------------------------------------------------
(* Steps of the handlers *)

\* What each handler does, in order.
CreatePlan == <<"admit", "mkdir", "config", "up", "route", "install">>
StartPlan == <<"conf", "admit", "up">>
StopPlan == <<"conf", "closetool", "stop">>
PrepareRestorePlan == <<"conf", "stopwp", "updb">>
BackupPlan == <<"conf", "dump", "archive", "publish">>
UpdatePlan == <<"conf", "update">>
RestorePlan == <<"verify", "stopwp", "updb", "files", "import", "upwp">>
ResourcesPlan == <<"inspect", "admit", "closetool", "config", "stop", "recreate">>

\* A delete that finds no compose.yaml only checks that Docker holds nothing of
\* the site before it removes the files.
DeletePlanRetryShort(h) ==
    IF h.dir = "config"
    THEN <<"closetool", "unroute", "down", "rmdir", "rmbackups">>
    ELSE <<"gone", "unroute", "rmdir">>
DeletePlan(h) ==
    IF h.dir = "config"
    THEN <<"closetool", "unroute", "down", "rmdir", "rmbackups">>
    ELSE <<"gone", "unroute", "rmdir", "rmbackups">>

Plan(kind, h) ==
    CASE kind = "create" -> CreatePlan
      [] kind = "start" -> StartPlan
      [] kind = "stop" -> StopPlan
      [] kind = "delete" -> DeletePlan(h)
      [] kind = "prepare-restore" -> PrepareRestorePlan
      [] kind = "backup" -> BackupPlan
      [] kind = "restore" -> RestorePlan
      [] kind = "update" -> UpdatePlan
      [] kind = "resources" -> ResourcesPlan

\* quiesceSite: remove the site's helper and CLI containers, then, for the
\* kinds that may have left an exec or half-written content, stop WordPress
\* and the database.
FencePlanJobsOnly(kind) == <<"rmjobs">>
FencePlan(kind) ==
    IF kind \in FencedKinds THEN <<"rmjobs", "stopwp", "stopdb">> ELSE <<"rmjobs">>

\* Jobs are killed.  An import or an update cut short leaves torn content.
Kill(h, js) ==
    LET torn == h.jobs \cap js \cap Rewriting # {}
    IN  [h EXCEPT !.jobs = @ \ js,
                  !.data = IF torn THEN "torn" ELSE @,
                  !.ack = IF torn THEN FALSE ELSE @]

\* docker stop / compose stop; stopping the database kills its execs.
Stop(h, xs) ==
    LET k == IF "db" \in xs THEN Kill(h, Execs) ELSE h
    IN  [k EXCEPT !.svc = [x \in Services |->
            IF x \in xs /\ h.svc[x] = "running" THEN "stopped" ELSE h.svc[x]]]

\* compose up -d --wait: (re)create what is missing or stale, start, and create
\* the volumes that do not exist.  Recreating the database kills its execs.
Up(h, xs) ==
    LET k == IF "db" \in xs /\ (h.svc["db"] # "running" \/ "db" \in h.stale)
             THEN Kill(h, Execs) ELSE h
    IN  [k EXCEPT !.svc = [x \in Services |->
                              IF x \in xs THEN "running" ELSE h.svc[x]],
                  !.stale = @ \ xs,
                  !.data = IF @ = "none" THEN "whole" ELSE @]

\* compose create --force-recreate: new containers, not started.
Recreate(h) ==
    [Kill(h, Execs) EXCEPT !.svc = [x \in Services |-> "stopped"], !.stale = {}]

\* compose down --volumes.
Down(h) ==
    [Kill(h, Execs) EXCEPT !.svc = [x \in Services |-> "absent"], !.stale = {},
                           !.data = "none", !.ack = FALSE]

\* The limits in compose.yaml are replaced: existing containers lag behind.
Configure(h) ==
    [h EXCEPT !.dir = "config",
              !.stale = {x \in Services : h.svc[x] # "absent"}]

\* runtimeSnapshot's classification of a site.
RuntimeStatus(h) ==
    CASE /\ \A x \in Services : h.svc[x] = "running"
         /\ h.stale = {} /\ h.route            -> "running"
      [] /\ \A x \in Services : h.svc[x] = "stopped"
         /\ h.stale = {}                       -> "stopped"
      [] OTHER                                 -> "unhealthy"

-----------------------------------------------------------------------------
(* Requests *)

Init ==
    /\ receipt = [s \in Sites |-> NoReceipt]
    /\ worker = "serving"
    /\ task = NoTask
    /\ unsettled = {}
    /\ host = [s \in Sites |-> NoHost]
    /\ faults = 0

\* executionMu can be taken.
Free == worker = "serving" /\ task = NoTask

\* trackOperation's test of the previous receipt.
AdmissibleUnlessRepeated(req) == receipt[req.site].id # req.id
Admissible(req) ==
    receipt[req.site].id # req.id /\ receipt[req.site].state # "pending"

Fault == faults < MaxFaults /\ faults' = faults + 1

\* saveOperation: the rename took effect and was synced; it took effect but the
\* directory could not be synced; or the old file is still there.
Outcomes == {"synced", "unsynced", "lost"}

SaveReceipt(s, r, outcome) ==
    /\ receipt' = [receipt EXCEPT ![s] = IF outcome = "lost" THEN @ ELSE r]
    /\ IF outcome = "synced" THEN UNCHANGED faults ELSE Fault

\* The handler of a tracked request, about to start.
StartedTask(req) ==
    [site |-> req.site, id |-> req.id, kind |-> req.kind,
     from |-> req.from, safety |-> req.safety, mode |-> "run",
     todo |-> Plan(req.kind, host[req.site]), waiting |-> FALSE,
     live |-> TRUE, was |-> FALSE]

\* A tracked request: the pending receipt is saved before any effect, and the
\* handler runs only if that was confirmed.
BeginUnchecked(req, outcome) ==
    /\ Free
    /\ Admissible(req)
    /\ SaveReceipt(req.site,
                   [id |-> req.id, kind |-> req.kind, state |-> "pending"], outcome)
    /\ task' = StartedTask(req)
    /\ UNCHANGED <<worker, unsettled, host>>
Begin(req, outcome) ==
    /\ Free
    /\ Admissible(req)
    /\ SaveReceipt(req.site,
                   [id |-> req.id, kind |-> req.kind, state |-> "pending"], outcome)
    /\ task' = IF outcome = "synced" THEN StartedTask(req) ELSE NoTask
    /\ UNCHANGED <<worker, unsettled, host>>

\* The recovery of a pending receipt, by /runtime or at startup.
Recovery(s, mode) ==
    [site |-> s, id |-> receipt[s].id, kind |-> receipt[s].kind,
     from |-> receipt[s].id, safety |-> receipt[s].id, mode |-> mode,
     todo |-> FencePlan(receipt[s].kind), waiting |-> FALSE,
     live |-> TRUE, was |-> FALSE]

\* /runtime for a site whose receipt is pending fences it first.
Runtime(s) ==
    /\ Free
    /\ receipt[s].state = "pending"
    /\ task' = Recovery(s, "recover")
    /\ UNCHANGED <<receipt, worker, unsettled, host, faults>>

\* /backup/delete, which carries no receipt.
DeleteBackup(s, b) ==
    /\ Free
    /\ b \in host[s].backups
    /\ host' = [host EXCEPT ![s].backups = @ \ {b}]
    /\ UNCHANGED <<receipt, worker, task, unsettled, faults>>

-----------------------------------------------------------------------------
(* Executing a step *)

Here == host[task.site]

At(step) ==
    /\ task # NoTask
    /\ task.todo # <<>>
    /\ Head(task.todo) = step
    /\ ~task.waiting

\* changeResources reports an error before it has changed anything as an
\* admission error, which needs no fence.
Rejected(t) ==
    /\ t.kind = "resources"
    /\ Head(t.todo) \in {"inspect", "admit", "closetool"}

\* An error of the handler leads to finish, which fences the site.  An error
\* while fencing leaves the receipt pending; at startup it ends the process.
AbortUnfenced(h) ==
    /\ host' = [host EXCEPT ![task.site] = h]
    /\ task' = IF task.mode = "run"
               THEN [task EXCEPT !.mode = "fence", !.waiting = FALSE, !.todo = <<>>]
               ELSE NoTask
    /\ worker' = IF task.mode = "startup" THEN "down" ELSE worker
    /\ unsettled' = IF task.mode = "startup" THEN {} ELSE unsettled
    /\ UNCHANGED receipt
Abort(h) ==
    /\ host' = [host EXCEPT ![task.site] = h]
    /\ task' = IF task.mode = "run"
               THEN [task EXCEPT !.mode = "fence", !.waiting = FALSE,
                        !.todo = IF Rejected(task) THEN <<>> ELSE FencePlan(task.kind)]
               ELSE NoTask
    /\ worker' = IF task.mode = "startup" THEN "down" ELSE worker
    /\ unsettled' = IF task.mode = "startup" THEN {} ELSE unsettled
    /\ UNCHANGED receipt

Proceed(h) ==
    /\ host' = [host EXCEPT ![task.site] = h]
    /\ task' = [task EXCEPT !.todo = Tail(@), !.waiting = FALSE]
    /\ UNCHANGED <<receipt, worker, unsettled>>

\* The context the step runs under is not done: finish fences under a context
\* of its own, and file operations take none.
Alive(step) == task.live \/ task.mode = "fence" \/ step \in FileSteps

\* A step that succeeds when possible holds and then leaves the site in after;
\* a failing one may leave it unchanged, in after, or in a state of partly.
Command(step, possible, after, partly) ==
    /\ At(step)
    /\ \/ Alive(step) /\ possible /\ Proceed(after) /\ UNCHANGED faults
       \/ ~(Alive(step) /\ possible) /\ Abort(Here) /\ UNCHANGED faults
       \/ /\ Alive(step) /\ possible /\ Fault
          /\ \E h \in partly \cup {Here, after} : Abort(h)

HasConfig == Here.dir = "config"

\* checkCapacity: the answer depends on the other sites and on the machine.
Admit ==
    /\ At("admit")
    /\ \/ Alive("admit") /\ Proceed(Here)
       \/ Abort(Here)
    /\ UNCHANGED faults

\* changeResources' runtimeSnapshot.
Inspect ==
    /\ At("inspect")
    /\ LET status == RuntimeStatus(Here)
       IN  IF task.live /\ status \in {"running", "stopped"}
           THEN /\ task' = [task EXCEPT !.todo = Tail(@), !.was = status = "running"]
                /\ UNCHANGED <<receipt, worker, unsettled, host>>
           ELSE Abort(Here)
    /\ UNCHANGED faults

Conf == Command("conf", HasConfig, Here, {})
CloseTool == Command("closetool", HasConfig, Here, {})
MkDir == Command("mkdir", TRUE, [Here EXCEPT !.dir = IF @ = "none" THEN "bare" ELSE @], {})
Config == Command("config", TRUE, Configure(Here), {})
Route == Command("route", TRUE, [Here EXCEPT !.route = TRUE], {})
Unroute == Command("unroute", TRUE, [Here EXCEPT !.route = FALSE], {})

\* Start and create are the administrator's decision to serve what is there.
ComposeUp ==
    LET up(xs) == [Up(Here, xs) EXCEPT !.ack = TRUE]
    IN  Command("up", HasConfig, up(Services), {up({"db"})})

UpDb == Command("updb", HasConfig, Up(Here, {"db"}), {})
UpWordPress == Command("upwp", HasConfig, Up(Here, Services), {Up(Here, {"db"})})

RecreateAlwaysUp == Command("recreate", HasConfig, Up(Here, Services), {})
RecreateServices ==
    LET after == IF task.was THEN Up(Here, Services) ELSE Recreate(Here)
        partly == IF task.was THEN {Up(Here, {"db"})} ELSE {}
    IN  Command("recreate", HasConfig, after, partly)

ComposeStop == Command("stop", HasConfig, Stop(Here, Services), {Stop(Here, {"wp"})})

\* compose stop wordpress in a handler, docker stop in quiesceSite.
StopWordPress ==
    Command("stopwp", task.mode = "run" => HasConfig, Stop(Here, {"wp"}), {})
StopDb == Command("stopdb", TRUE, Stop(Here, {"db"}), {})

RemoveOwnedJobs == Command("rmjobs", TRUE, Kill(Here, Helpers \cup CliJobs), {})

ComposeDown ==
    Command("down", HasConfig, Down(Here),
            {Stop(Here, Services), [Down(Here) EXCEPT !.data = Here.data]})

\* delete without a configuration: refuse while Docker holds anything.
CheckGone ==
    Command("gone",
            (\A x \in Services : Here.svc[x] = "absent") /\ Here.data = "none",
            Here, {})

RemoveDir ==
    Command("rmdir", TRUE, [Here EXCEPT !.dir = "none"],
            {[Here EXCEPT !.dir = IF @ = "none" THEN @ ELSE "bare"]})

RemoveBackups ==
    Command("rmbackups", TRUE, [Here EXCEPT !.backups = {}],
            {[Here EXCEPT !.backups = bs] : bs \in SUBSET Here.backups})

\* Rename of the finished backup directory; an existing one is an error.
Publish ==
    Command("publish", task.id \notin Here.backups,
            [Here EXCEPT !.backups = @ \cup {task.id}], {})

\* restore: both backups must be published and differ.
VerifyBackup ==
    Command("verify",
            task.from # task.safety /\ {task.from, task.safety} \subseteq Here.backups,
            Here, {})

-----------------------------------------------------------------------------
(* Jobs *)

\* Docker accepts the job: a container's name must be free, a CLI job needs the
\* compose file, an exec needs the database container running.
Startable(j) ==
    CASE j \in Helpers -> Here.jobs \cap Helpers = {}
      [] j \in CliJobs -> Here.jobs \cap CliJobs = {} /\ HasConfig
      [] j \in Execs   -> Here.svc["db"] = "running"

\* The restore's rewrite of the files makes them differ from the database until
\* the import has completed.
Launch(h, j) ==
    [h EXCEPT !.jobs = @ \cup {j},
              !.data = IF j = "files" THEN "torn" ELSE @,
              !.ack = IF j = "files" THEN FALSE ELSE @]

StartJob(j) ==
    /\ At(j)
    /\ \/ /\ task.live /\ Startable(j)
          /\ host' = [host EXCEPT ![task.site] = Launch(Here, j)]
          /\ task' = [task EXCEPT !.waiting = TRUE]
          /\ UNCHANGED <<receipt, worker, unsettled, faults>>
       \/ ~(task.live /\ Startable(j)) /\ Abort(Here) /\ UNCHANGED faults
       \/ task.live /\ Startable(j) /\ Fault /\ Abort(Here)

\* The request that started job j of site s is still waiting for it.
Awaits(s, j) == task # NoTask /\ task.waiting /\ task.site = s /\ Head(task.todo) = j

\* A job ends by itself.  ok: its script succeeded.
JobEnds(s, j, ok) ==
    /\ j \in host[s].jobs
    /\ LET h == IF ok THEN [host[s] EXCEPT !.jobs = @ \ {j},
                                           !.data = IF j = "import" THEN "whole" ELSE @]
                      ELSE Kill(host[s], {j})
       IN  CASE Awaits(s, j) /\ ok  -> Proceed(h)
             [] Awaits(s, j) /\ ~ok -> Abort(h)
             [] OTHER -> /\ host' = [host EXCEPT ![s] = h]
                         /\ UNCHANGED <<receipt, worker, task, unsettled>>
    /\ IF ok THEN UNCHANGED faults ELSE Fault

\* The context is done: the docker client is killed, the daemon's job is not.
Abandon ==
    /\ task # NoTask
    /\ task.waiting
    /\ ~task.live
    /\ Abort(Here)
    /\ UNCHANGED faults

-----------------------------------------------------------------------------
(* The end of a request, and the life of the process *)

\* Every step is done: the receipt takes its final state.  Whether or not that
\* can be saved, executionMu is released; at startup an error ends the process.
VerdictUnknown(mode) ==
    CASE mode = "run" -> "succeeded"
      [] mode = "fence" -> "failed"
      [] mode \in {"recover", "startup"} -> "aborted"
Verdict(mode) ==
    CASE mode = "run" -> "succeeded"
      [] mode = "fence" -> "failed"
      [] mode \in {"recover", "startup"} -> "interrupted"

Conclude(outcome) ==
    /\ task # NoTask
    /\ task.todo = <<>>
    /\ SaveReceipt(task.site,
                   [id |-> task.id, kind |-> task.kind, state |-> Verdict(task.mode)],
                   outcome)
    /\ task' = NoTask
    /\ LET fatal == task.mode = "startup" /\ outcome # "synced"
       IN  /\ worker' = IF fatal THEN "down" ELSE worker
           /\ unsettled' = IF fatal THEN {} ELSE unsettled \ {task.site}
    /\ UNCHANGED host

\* The peer closes the connection, or the 20 minutes of a request are over.
Disconnect ==
    /\ task # NoTask
    /\ task.live /\ task.mode # "startup"
    /\ Fault
    /\ task' = [task EXCEPT !.live = FALSE]
    /\ UNCHANGED <<receipt, worker, unsettled, host>>

Crash ==
    /\ worker # "down"
    /\ Fault
    /\ worker' = "down"
    /\ task' = NoTask
    /\ unsettled' = {}
    /\ UNCHANGED <<receipt, host>>

\* main: recoverInterruptedJobs removes the containers of every site's jobs
\* before it looks at the receipts.
Boot ==
    /\ worker = "down"
    /\ worker' = "starting"
    /\ task' = NoTask
    /\ unsettled' = Sites
    /\ host' = [s \in Sites |-> Kill(host[s], Helpers \cup CliJobs)]
    /\ UNCHANGED <<receipt, faults>>

\* ... then fences every site whose receipt is pending ...
Settle(s) ==
    /\ worker = "starting"
    /\ task = NoTask
    /\ s \in unsettled
    /\ IF receipt[s].state = "pending"
       THEN task' = Recovery(s, "startup") /\ UNCHANGED unsettled
       ELSE unsettled' = unsettled \ {s} /\ UNCHANGED task
    /\ UNCHANGED <<receipt, worker, host, faults>>

\* ... and only then listens.
Serve ==
    /\ worker = "starting"
    /\ task = NoTask
    /\ unsettled = {}
    /\ worker' = "serving"
    /\ UNCHANGED <<receipt, task, unsettled, host, faults>>

DoStep ==
    \/ Admit \/ Inspect \/ Conf \/ CloseTool \/ MkDir \/ Config
    \/ Route \/ Unroute \/ ComposeUp \/ UpDb \/ UpWordPress
    \/ RecreateServices \/ ComposeStop \/ StopWordPress \/ StopDb
    \/ RemoveOwnedJobs \/ ComposeDown \/ CheckGone \/ RemoveDir
    \/ RemoveBackups \/ Publish \/ VerifyBackup
    \/ \E j \in Jobs : StartJob(j)

Next ==
    \/ \E req \in Requests, outcome \in Outcomes : Begin(req, outcome)
    \/ \E s \in Sites : Runtime(s)
    \/ \E s \in Sites, b \in Ids : DeleteBackup(s, b)
    \/ DoStep
    \/ \E s \in Sites, j \in Jobs, ok \in BOOLEAN : JobEnds(s, j, ok)
    \/ Abandon
    \/ \E outcome \in Outcomes : Conclude(outcome)
    \/ Disconnect
    \/ Crash
    \/ Boot
    \/ \E s \in Sites : Settle(s)
    \/ Serve

Spec == Init /\ [][Next]_vars

-----------------------------------------------------------------------------
(* Properties *)

Pending(s) == receipt[s].state = "pending"

\* A job is running only while its site's receipt is pending: once a receipt
\* is final, and the panel is told so, no process of the operation, however it
\* was cut short, is left to write the site or its backups.
NoOrphanJobs == \A s \in Sites : host[s].jobs # {} => Pending(s)

\* Whatever is being executed or fenced is on disk as the site's pending
\* receipt, so that a crash at any step is found by the next start.
ReceiptBeforeEffects ==
    task # NoTask =>
        receipt[task.site] = [id |-> task.id, kind |-> task.kind, state |-> "pending"]

\* No two jobs of a site ever run at once.
OneJobPerSite == \A s \in Sites : \A j, k \in host[s].jobs : j = k

\* Content being rewritten is not served, and half-rewritten content only during
\* the operation that is rewriting it, or after the administrator explicitly
\* started the site.
TornNotServed ==
    \A s \in Sites : host[s].svc["wp"] = "running" =>
        /\ host[s].jobs \cap {"files", "import"} = {}
        /\ host[s].data = "torn" => Pending(s) \/ host[s].ack

\* What a receipt confirms is so until the next operation: a deletion left no
\* container, volume, job, directory, route or backup, whatever earlier attempts
\* had removed, and a resource change is in force in both services.
ConfirmedIsDone ==
    \A s \in Sites : receipt[s].state = "succeeded" =>
        /\ receipt[s].kind = "delete" => host[s] = NoHost
        /\ receipt[s].kind = "resources" => host[s].stale = {}

-----------------------------------------------------------------------------
(* Refinement *)

\* The pending receipts are the open operations, the daemon's jobs the writers.
Fenced == INSTANCE FencedOperations
            WITH open <- {s \in Sites : Pending(s)},
                 writing <- {s \in Sites : host[s].jobs # {}}

\* The worker keeps the promise of its receipts: this is what lets the panel
\* offer the next operation on a site as soon as a receipt is final.
ImplementsFencedOperations == Fenced!Spec
=============================================================================
