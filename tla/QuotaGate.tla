----------------------------- MODULE QuotaGate -----------------------------
(***************************************************************************)
(* The restart gate of one quota-managed site (cmd/worker,                 *)
(* quota_restart.go): the worker, not Docker, decides whether the site's   *)
(* writers may run.  Before it launches one it verifies that the storage   *)
(* limit is enforced; a saved intent tells its startup and its supervisor  *)
(* whether they may resume the site by themselves.                         *)
(*                                                                         *)
(* A request, the supervisor or the startup is a sequence of steps, each   *)
(* of which can fail; an error leads to the fences its callers apply on    *)
(* the way out.  A step run under a context that is done is one that fails.*)
(***************************************************************************)
EXTENDS Naturals, Sequences, FiniteSets

CONSTANTS
    MaxRequests,  \* bound on the requests ever made
    MaxFaults,    \* bound on failing steps, refusals, crashes and reboots
    MaxChanges    \* bound on changes of the storage

ASSUME MaxRequestsAssumption == MaxRequests \in Nat
ASSUME GateFaultsAssumption == MaxFaults \in Nat
ASSUME MaxChangesAssumption == MaxChanges \in Nat

VARIABLES
    worker,     \* "down", "starting" or "serving"
    task,       \* what holds executionMu
    intent,     \* quota-intent.json
    receipt,    \* the site's operation receipt
    up,         \* containers that are running
    job,        \* a helper or CLI container is running
    auto,       \* services whose container Docker restarts by itself
    old,        \* services whose container has an older security profile
    made,       \* services that have a container
    compose,    \* the site has a compose.yaml
    manual,     \* compose.yaml says restart: "no"
    guard,      \* quota.json: "ready", "incomplete", "missing" (quota-plan.json
                \* alone marks the site then) or "none" (nor is that there)
    enforced,   \* the kernel enforces the recorded limit
    consent,    \* the administrator's last word was to run the site, no
                \* operation has failed since, and no fence was applied to it
                \* (a history variable)
    requests, faults, changes

gateVars == <<worker, task, intent, receipt, up, job, auto, old, made, manual,
              compose, guard, enforced, consent, requests, faults, changes>>

-----------------------------------------------------------------------------
(* Types *)

Services == {"wp", "db"}
Writers == Services \cup {"pma"}

Tracked == {"start", "stop", "prepare-restore", "restore", "update", "backup",
            "resources", "create", "delete"}
Untracked == {"tool",    \* /database start
              "write"}   \* /files and /mail requests, which exec in WordPress
\* Handlers that defer finishQuotaWrite.
Finishing == {"prepare-restore", "restore", "update", "resources", "tool"}

Intents == {"running", "stopped", "blocked", "maintenance"}
FenceSteps == {"blocked", "stopped", "rmjobs", "halt"}
PreflightSteps == {"compose", "verify", "inspect"}
Steps == Intents \cup FenceSteps \cup PreflightSteps \cup
    {"check", "admit", "up", "settled", "closetool", "stopall", "stopwp", "updb",
     "upwp", "job", "wait", "snapshot", "restart", "uptool", "post", "quiesce",
     "receipt", "assess", "survey", "stat", "refuse", "absent", "down", "rmdir"}

NoTask == [kind |-> "none"]
Tasks == [kind : Tracked \cup Untracked \cup {"sweep", "startup", "runtime"},
          stage : {"main", "post", "unwind", "resume"},
          verdict : {"succeeded", "failed", "rejected"},
          todo : Seq(Steps),
          failed : BOOLEAN,    \* an error of the fence in progress
          verified : BOOLEAN,  \* verifyQuotaStorage has succeeded
          unseen : BOOLEAN,    \* and something was launched since
          was : BOOLEAN]       \* resources: the services were running

GateTypeOK ==
    /\ worker \in {"down", "starting", "serving"}
    /\ task \in Tasks \cup {NoTask}
    /\ intent \in Intents \cup {"none"}
    /\ receipt \in [kind : Tracked,
                    state : {"pending", "succeeded", "failed", "rejected"}]
                   \cup {[kind |-> "none", state |-> "none"]}
    /\ up \subseteq Writers
    /\ auto \subseteq made /\ old \subseteq made /\ made \subseteq Services
    /\ {job, manual, compose, enforced, consent} \subseteq BOOLEAN
    /\ guard \in {"ready", "incomplete", "missing", "none"}
    /\ requests \in 0..MaxRequests
    /\ faults \in 0..MaxFaults /\ changes \in 0..MaxChanges

-----------------------------------------------------------------------------
(* Plans *)

\* fenceQuotaSite: save the intent, then remove jobs and stop the containers.
\* An error does not keep it from the rest.
FenceStopFirst(state) == <<"rmjobs", "halt", state>>
Fence(state) == <<state, "rmjobs", "halt">>

\* quotaPreflight of a marked site.
PreflightUnensured == <<"verify", "inspect">>
Preflight == <<"compose", "verify", "inspect">>

StartQuotaSiteUnchecked ==
    Fence("blocked") \o <<"check">> \o Preflight \o <<"admit", "up", "settled", "running">>
StartQuotaSite ==
    Fence("blocked") \o <<"check">> \o Preflight \o <<"admit", "up">> \o Preflight
        \o <<"settled", "running">>
StopQuotaSite == Fence("stopped") \o <<"check", "closetool", "stopall">>

\* quotaMarked: either file marks the site.
Marked == guard # "none"

\* A failing removal of the route is one of the tool's, a failing removal of the
\* backups one of the directory's.  Without a compose.yaml the deletion ends what an
\* earlier one began, if Docker has nothing left of the site.
DeleteQuotaSite ==
    IF compose THEN (IF Marked THEN Fence("stopped") \o <<"check">> ELSE <<>>)
                        \o <<"closetool", "down", "rmdir">>
               ELSE <<"absent", "rmdir">>

PrepareRestore == Preflight \o <<"maintenance", "stopwp", "updb">>
Restore == Preflight \o <<"stopwp", "updb", "job", "wait", "upwp", "running">>
ChangeResources ==
    Preflight \o <<"snapshot", "admit", "closetool", "stopall", "restart">>

Handler(kind) ==
    CASE kind = "start" -> <<"stat", "admit">> \o StartQuotaSite
      [] kind = "stop" -> <<"stat">> \o StopQuotaSite
      [] kind = "delete" -> DeleteQuotaSite
      [] kind = "create" -> <<"refuse">>
      [] kind = "prepare-restore" -> <<"stat">> \o PrepareRestore
      [] kind = "restore" -> Restore
      [] kind \in {"update", "backup"} -> Preflight \o <<"job", "wait">>
      [] kind = "resources" -> ChangeResources
      [] kind = "tool" -> Preflight \o <<"uptool">>
      [] kind = "write" -> Preflight

\* The handler, finishQuotaWrite's check of its result, finish.
WholeRequest(kind) ==
    Handler(kind)
        \o (IF kind \in Finishing THEN <<"post">> \o Preflight ELSE <<>>)
        \o (IF kind \in Tracked THEN <<"receipt">> ELSE <<>>)

NewTask(kind, todo) ==
    [kind |-> kind, stage |-> "main", verdict |-> "succeeded", todo |-> todo,
     failed |-> FALSE, verified |-> FALSE, unseen |-> FALSE, was |-> FALSE]

\* Steps whose error the function they are in answers with a fence itself.
Recoils(t, step) ==
    \/ step \in PreflightSteps \cup {"survey"}
    \/ step \in {"up", "settled", "running"} /\ t.kind \in {"start", "sweep", "startup"}

\* What is left to do after an error: the function's own fence, that of
\* finishQuotaWrite, and finish with quiesceSite.  reconcileQuotaSites joins
\* the errors of its fences, which end a startup.
UnwindNoQuiesce(t, step) ==
    (IF Recoils(t, step) THEN Fence("blocked") ELSE <<>>)
        \o (IF t.kind \in Tracked THEN <<"receipt">> ELSE <<>>)
Unwind(t, step) ==
    (IF Recoils(t, step) THEN Fence("blocked") ELSE <<>>)
        \o (IF t.kind \in Finishing /\ t.stage = "main" /\ step # "stat"
            THEN Fence("blocked") ELSE <<>>)
        \o (IF t.kind \in Tracked THEN <<"quiesce", "receipt">> ELSE <<>>)
        \o (IF t.kind = "startup" /\ t.stage = "main" /\ step # "check"
            THEN <<"check">> ELSE <<>>)

-----------------------------------------------------------------------------
(* Steps *)

Fault == faults < MaxFaults /\ faults' = faults + 1

Host == <<intent, receipt, up, job, auto, old, made, manual, consent>>
Environment == <<compose, guard, enforced, requests, changes>>

At(step) == task # NoTask /\ task.todo # <<>> /\ Head(task.todo) = step

Proceed == task' = [task EXCEPT !.todo = Tail(@)] /\ UNCHANGED worker

\* log.Fatal in main, or the request's way out.
Fail(step) ==
    IF step = "check" /\ task.kind = "startup" /\ task.stage # "resume"
    THEN task' = NoTask /\ worker' = "down"
    ELSE /\ task' = [task EXCEPT !.todo = Unwind(task, step), !.verdict = "failed",
                                 !.stage = IF @ = "resume" THEN @ ELSE "unwind"]
         /\ UNCHANGED worker

\* A launch that succeeded.
Launched ==
    task' = [task EXCEPT !.todo = Tail(@), !.unseen = TRUE] /\ UNCHANGED worker

\* A fence goes on after an error and reports it in the end.
Blunder == task' = [task EXCEPT !.todo = Tail(@), !.failed = TRUE] /\ UNCHANGED worker

\* saveQuotaIntent.
SaveIntent(state) ==
    /\ At(state)
    /\ \/ intent' = state /\ Proceed /\ UNCHANGED faults
       \/ /\ Fault /\ intent' \in {intent, state}
          /\ IF state \in FenceSteps THEN Blunder ELSE Fail(state)
    /\ UNCHANGED <<Environment, receipt, up, job, auto, old, made, manual, consent>>

RemoveJobs ==
    /\ At("rmjobs")
    /\ \/ job' = FALSE /\ Proceed /\ UNCHANGED faults
       \/ Fault /\ Blunder /\ UNCHANGED job
    /\ UNCHANGED <<Environment, intent, receipt, up, auto, old, made, manual, consent>>

\* docker update --restart no and docker stop for each container.  (A resumption
\* that stops the containers before it starts them withdraws nothing.)
HaltContainers ==
    /\ At("halt")
    /\ \/ up' = {} /\ auto' = {} /\ Proceed /\ UNCHANGED faults
       \/ Fault /\ Blunder /\ up' \in SUBSET up /\ auto' \in SUBSET auto
    /\ consent' = (consent /\ (task.failed \/ task.stage = "resume"))
    /\ UNCHANGED <<Environment, intent, receipt, job, old, made, manual>>

\* The caller looks at the fence's error.
CheckFence ==
    /\ At("check")
    /\ IF task.failed THEN Fail("check") ELSE Proceed
    /\ UNCHANGED <<Environment, Host, faults>>

\* loadQuotaGuard: a marked site without a complete record is no ordinary site,
\* it is one that must not run.
Ready == guard = "ready"

\* The record and ensureQuotaRestartCompose.
EnsureCompose ==
    /\ At("compose")
    /\ \/ Ready /\ compose /\ manual' = TRUE /\ Proceed /\ UNCHANGED faults
       \/ ~(Ready /\ compose) /\ Fail("compose") /\ UNCHANGED <<manual, faults>>
       \/ Ready /\ compose /\ Fault /\ Fail("compose") /\ manual' \in {manual, TRUE}
    /\ UNCHANGED <<Environment, intent, receipt, up, job, auto, old, made, consent>>

VerifyStorage ==
    /\ At("verify")
    /\ \/ /\ enforced
          /\ task' = [task EXCEPT !.todo = Tail(@), !.verified = TRUE, !.unseen = FALSE]
          /\ UNCHANGED <<worker, faults>>
       \/ ~enforced /\ Fail("verify") /\ UNCHANGED faults
       \/ enforced /\ Fault /\ Fail("verify")
    /\ UNCHANGED <<Environment, Host>>

\* Containers with a restart policy or an older profile refuse the launch.
InspectContainers ==
    /\ At("inspect")
    /\ \/ auto = {} /\ old = {} /\ Proceed /\ UNCHANGED faults
       \/ auto \cup old # {} /\ Fail("inspect") /\ UNCHANGED faults
       \/ auto = {} /\ old = {} /\ Fault /\ Fail("inspect")
    /\ UNCHANGED <<Environment, Host>>

\* A certified refusal of a resource change, for invalid values or for the
\* budget: only the check of finishQuotaWrite follows.
Reject ==
    /\ task.kind = "resources" /\ Fault
    /\ task' = [task EXCEPT !.verdict = "rejected",
                            !.todo = <<"post">> \o Preflight \o <<"receipt">>]
    /\ UNCHANGED worker

\* checkCapacity.
Admit ==
    /\ At("admit")
    /\ \/ Proceed /\ UNCHANGED faults
       \/ Fault /\ Fail("admit")
       \/ Reject
    /\ UNCHANGED <<Environment, Host>>

\* compose up recreates a container that differs from compose.yaml.
Launch(xs) ==
    /\ up' = up \cup xs
    /\ auto' = IF manual THEN auto \ xs ELSE auto \cup (xs \cap Services)
    /\ old' = old \ xs
    /\ made' = made \cup (xs \cap Services)

ComposeUp(step, xs) ==
    /\ At(step)
    /\ \/ Launch(xs) /\ Launched /\ UNCHANGED faults
       \/ /\ Fault /\ Fail(step)
          /\ \E some \in SUBSET xs : Launch(some)
    /\ UNCHANGED <<Environment, intent, receipt, job, manual, consent>>

\* startQuotaSite looks for both services running.
Settled ==
    /\ At("settled")
    /\ \/ Services \subseteq up /\ Proceed /\ UNCHANGED faults
       \/ ~(Services \subseteq up) /\ Fail("settled") /\ UNCHANGED faults
       \/ Services \subseteq up /\ Fault /\ Fail("settled")
    /\ UNCHANGED <<Environment, Host>>

ComposeStop(step, xs) ==
    /\ At(step)
    /\ \/ up' = up \ xs /\ Proceed /\ UNCHANGED faults
       \/ Fault /\ Fail(step) /\ \E some \in SUBSET xs : up' = up \ some
    /\ UNCHANGED <<Environment, intent, receipt, job, auto, old, made, manual, consent>>

StartJob ==
    /\ At("job")
    /\ \/ job' = TRUE /\ Launched /\ UNCHANGED faults
       \/ Fault /\ Fail("job") /\ UNCHANGED job
    /\ UNCHANGED <<Environment, intent, receipt, up, auto, old, made, manual, consent>>

\* The job ends well, or the command fails and may leave it running.
AwaitJob ==
    /\ At("wait")
    /\ \/ job' = FALSE /\ Proceed /\ UNCHANGED faults
       \/ Fault /\ Fail("wait") /\ job' \in {job, FALSE}
    /\ UNCHANGED <<Environment, intent, receipt, up, auto, old, made, manual, consent>>

\* A job nobody waits for ends by itself.
JobEnds ==
    /\ job /\ ~At("wait")
    /\ job' = FALSE
    /\ UNCHANGED <<worker, task, Environment, intent, receipt, up, auto, old, made, manual,
                   consent, faults>>

\* changeResources' validation and runtimeSnapshot, after the preflight.
Snapshot ==
    /\ At("snapshot")
    /\ LET clear == intent # "blocked" /\ made = Services
                     /\ up \cap Services \in {{}, Services}
       IN  \/ /\ clear
              /\ task' = [task EXCEPT !.todo = Tail(@), !.was = "wp" \in up]
              /\ UNCHANGED <<worker, faults>>
           \/ ~clear /\ Fail("snapshot") /\ UNCHANGED faults
           \/ clear /\ Fault /\ Fail("snapshot")
           \/ Reject
    /\ UNCHANGED <<Environment, Host>>

\* compose up, or create --force-recreate of a stopped site.
RestartServices ==
    ComposeUp("restart", IF task # NoTask /\ task.was THEN Services ELSE {})

\* finishQuotaWrite begins, with the result still good.
Post ==
    /\ At("post")
    /\ task' = [task EXCEPT !.todo = Tail(@), !.stage = "post"]
    /\ UNCHANGED <<worker, Environment, Host, faults>>

\* quiesceSite: finish looks at the errors of this last fence only.  A deletion
\* may have removed the marks; of such a site there is nothing but jobs to stop.
Quiesce ==
    /\ At("quiesce")
    /\ LET fence == IF Marked THEN Fence("blocked") ELSE <<"rmjobs">>
       IN  task' = [task EXCEPT !.todo = fence \o Tail(@), !.failed = FALSE]
    /\ UNCHANGED <<worker, Environment, Host, faults>>

\* finish, or the recovery of a pending receipt by startup or /runtime.  A
\* receipt whose fence failed stays pending.
Receipt ==
    /\ At("receipt")
    /\ LET closed == [receipt EXCEPT !.state = task.verdict]
           unfenced == task.verdict = "failed" /\ task.failed
       IN  /\ \/ unfenced /\ UNCHANGED <<receipt, faults>>
                 /\ IF task.kind = "startup" THEN task' = NoTask /\ worker' = "down"
                                             ELSE Proceed
              \/ ~unfenced /\ receipt' = closed /\ Proceed /\ UNCHANGED faults
              \/ /\ ~unfenced /\ Fault /\ receipt' \in {receipt, closed}
                 /\ IF task.kind = "startup" THEN task' = NoTask /\ worker' = "down"
                                             ELSE Proceed
           /\ consent' = CASE receipt'.state = "failed" -> FALSE
                           [] /\ receipt'.state = "succeeded"
                              /\ receipt.kind \in {"start", "restore"} -> TRUE
                           [] OTHER -> consent
    /\ UNCHANGED <<Environment, intent, up, job, auto, old, made, manual>>

-----------------------------------------------------------------------------
(* Creation and deletion *)

\* action and configuredResources look for compose.yaml first.
StatCompose ==
    /\ At("stat")
    /\ \/ compose /\ Proceed /\ UNCHANGED faults
       \/ ~compose /\ Fail("stat") /\ UNCHANGED faults
    /\ UNCHANGED <<Environment, Host>>

\* A marked site is not created anew.
RefuseCreate ==
    /\ At("refuse")
    /\ Fail("refuse")
    /\ UNCHANGED <<Environment, Host, faults>>

ConfirmAbsent ==
    /\ At("absent")
    /\ \/ made = {} /\ Proceed /\ UNCHANGED faults
       \/ made # {} /\ Fail("absent") /\ UNCHANGED faults
       \/ made = {} /\ Fault /\ Fail("absent")
    /\ UNCHANGED <<Environment, Host>>

\* compose down --volumes.
ComposeDown ==
    /\ At("down")
    /\ \/ /\ Proceed /\ UNCHANGED faults
          /\ up' = {} /\ made' = {} /\ auto' = {} /\ old' = {}
       \/ /\ Fault /\ Fail("down")
          /\ made' \in SUBSET made
          /\ up' \in SUBSET (up \ (made \ made'))
          /\ auto' = auto \cap made' /\ old' = old \cap made'
    /\ UNCHANGED <<Environment, intent, receipt, job, manual, consent>>

\* os.RemoveAll of the site's directory has removed some of the files.
PartlyRemoved ==
    /\ compose' \in {compose, FALSE}
    /\ manual' = (manual /\ compose')
    /\ guard' \in {guard, "missing", "none"} /\ (~Marked => guard' = "none")
    /\ intent' \in {intent, "none"}

RemoveDir ==
    /\ At("rmdir")
    /\ \/ /\ Proceed /\ UNCHANGED faults
          /\ compose' = FALSE /\ manual' = FALSE /\ guard' = "none" /\ intent' = "none"
       \/ Fault /\ Fail("rmdir") /\ PartlyRemoved
    /\ UNCHANGED <<enforced, requests, changes, receipt, up, job, auto, old, made, consent>>

-----------------------------------------------------------------------------
(* reconcileQuotaSites *)

\* No operation is unresolved or has failed, certified rejections excepted.
Resolved == receipt.state \in {"none", "succeeded", "rejected"}

\* A missing intent means stopped.
SavedIntent == IF intent = "none" THEN "stopped" ELSE intent

AssessedIdle ==
    CASE ~Ready \/ ~Resolved -> Fence("blocked")
      [] Ready /\ Resolved /\ SavedIntent = "running" ->
            <<"compose", "verify", "survey">>
      [] OTHER -> <<>>
Assessed ==
    CASE ~Marked -> <<>>
      [] Marked /\ (~Ready \/ ~Resolved) -> Fence("blocked")
      [] Ready /\ Resolved /\ SavedIntent \in {"stopped", "blocked"} ->
            Fence(SavedIntent)
      [] Ready /\ Resolved /\ SavedIntent = "maintenance" /\ task.kind = "startup" ->
            Fence("blocked")
      [] OTHER -> <<"compose", "verify", "survey">>

\* A fence that fails ends a startup.
Assess ==
    /\ At("assess")
    /\ LET fencing == task.kind = "startup" /\ "halt" \in {Assessed[n] : n \in DOMAIN Assessed}
       IN  task' = [task EXCEPT !.todo = Assessed \o (IF fencing THEN <<"check">> ELSE <<>>),
                                !.failed = FALSE, !.verdict = "succeeded"]
    /\ UNCHANGED <<worker, Environment, Host, faults>>

\* The site may run: leave it, resume it, or fence what is not as it should be.
Survey ==
    /\ At("survey")
    /\ LET safe == auto = {} /\ old = {} /\ Cardinality(made \cup (up \ Services)) >= 2
           offline == SavedIntent = "maintenance" => "wp" \notin up
           asleep == SavedIntent = "running" /\ ~(Services \subseteq up)
       IN  \/ /\ safe /\ offline
              /\ task' = [task EXCEPT !.todo = IF asleep THEN StartQuotaSite ELSE <<>>,
                                      !.stage = IF asleep THEN "resume" ELSE @]
              /\ UNCHANGED <<worker, faults>>
           \/ ~(safe /\ offline) /\ Fail("survey") /\ UNCHANGED faults
           \/ safe /\ offline /\ Fault /\ Fail("survey")
    /\ UNCHANGED <<Environment, Host>>

-----------------------------------------------------------------------------
(* Requests, the supervisor and the life of the processes *)

Free == worker = "serving" /\ task = NoTask

\* A site that has lost its marks takes the paths of Worker; its deletion is here.
\* The pending receipt of a tracked request is saved first; if the save reports
\* an error the handler is not run, but the receipt may be there.
Request(kind) ==
    /\ Free
    /\ Marked \/ kind = "delete"
    /\ requests < MaxRequests /\ requests' = requests + 1
    /\ \/ /\ kind \in Tracked
          /\ receipt.state # "pending"
          /\ receipt' = [kind |-> kind, state |-> "pending"]
          /\ consent' = (consent /\ kind \notin {"stop", "prepare-restore", "delete"})
          /\ \/ task' = NewTask(kind, WholeRequest(kind)) /\ UNCHANGED faults
             \/ Fault /\ UNCHANGED task
       \/ /\ kind \in Untracked
          /\ task' = NewTask(kind, WholeRequest(kind))
          /\ UNCHANGED <<receipt, consent, faults>>
    /\ UNCHANGED <<worker, intent, up, job, auto, old, made, manual, compose, guard,
                   enforced, changes>>

\* quiesceSite of a pending receipt, by /runtime or at startup.
Recovery ==
    IF receipt.state = "pending" THEN <<"quiesce", "receipt">> ELSE <<>>

Runtime ==
    /\ Free
    /\ receipt.state = "pending"
    /\ task' = [NewTask("runtime", Recovery) EXCEPT !.verdict = "failed"]
    /\ UNCHANGED <<worker, Environment, Host, faults>>

\* runQuotaSupervisor's tick.
Tick ==
    /\ Free
    /\ task' = NewTask("sweep", <<"assess">>)
    /\ UNCHANGED <<worker, Environment, Host, faults>>

\* main: removeOwnedJobs, the recovery of a pending receipt, then the sweep.
Boot ==
    /\ worker = "down"
    /\ worker' = "starting"
    /\ job' = FALSE
    /\ task' = [NewTask("startup", Recovery \o <<"assess">>) EXCEPT !.verdict = "failed"]
    /\ UNCHANGED <<Environment, intent, receipt, up, auto, old, made, manual, consent, faults>>

End ==
    /\ task # NoTask
    /\ task.todo = <<>>
    /\ task' = NoTask
    /\ worker' = "serving"
    /\ UNCHANGED <<Environment, Host, faults>>

CrashWorker ==
    /\ worker # "down"
    /\ Fault
    /\ worker' = "down"
    /\ task' = NoTask
    /\ \/ UNCHANGED <<compose, guard, intent, manual>>
       \/ At("rmdir") /\ PartlyRemoved
    /\ UNCHANGED <<enforced, requests, changes, receipt, up, job, auto, old, made, consent>>

\* Docker brings back what was running and has a restart policy.
Reboot ==
    /\ Fault
    /\ worker' = "down"
    /\ task' = NoTask
    /\ up' = up \cap auto
    /\ job' = FALSE
    /\ UNCHANGED <<Environment, intent, receipt, auto, old, made, manual, consent>>

\* The file system is mounted with or without quota enforcement.
StorageChanges ==
    /\ changes < MaxChanges /\ changes' = changes + 1
    /\ enforced' = ~enforced
    /\ UNCHANGED <<worker, task, Host, compose, guard, requests, faults>>

-----------------------------------------------------------------------------

\* A worker is about to start on a site that has just been given a quota record.
GateInit ==
    /\ worker = "down" /\ task = NoTask
    /\ intent = "none" /\ receipt = [kind |-> "none", state |-> "none"]
    /\ up \in {{}, Services} /\ job = FALSE
    /\ auto \in {{}, Services} /\ old \in {{}, Services} /\ made = Services
    /\ manual = FALSE /\ compose = TRUE
    /\ guard \in {"ready", "incomplete", "missing"} /\ enforced \in BOOLEAN
    /\ consent = FALSE
    /\ requests = 0 /\ faults = 0 /\ changes = 0

GateStep ==
    \/ \E state \in Intents : SaveIntent(state)
    \/ RemoveJobs \/ HaltContainers \/ CheckFence
    \/ EnsureCompose \/ VerifyStorage \/ InspectContainers \/ Admit
    \/ ComposeUp("up", Services) \/ Settled
    \/ ComposeUp("updb", {"db"}) \/ ComposeUp("upwp", Services)
    \/ ComposeUp("uptool", {"db", "pma"}) \/ RestartServices
    \/ ComposeStop("closetool", {"pma"}) \/ ComposeStop("stopwp", {"wp"})
    \/ ComposeStop("stopall", Services)
    \/ StartJob \/ AwaitJob \/ Snapshot
    \/ StatCompose \/ RefuseCreate \/ ConfirmAbsent \/ ComposeDown \/ RemoveDir
    \/ Post \/ Quiesce \/ Receipt
    \/ Assess \/ Survey
    \/ End

GateNext ==
    \/ \E kind \in Tracked \cup Untracked : Request(kind)
    \/ Runtime \/ Tick \/ Boot \/ GateStep \/ JobEnds
    \/ CrashWorker \/ Reboot \/ StorageChanges

\* The worker is restarted, its steps are executed, the supervisor ticks, and
\* jobs end.  Requests are finitely many, so they do not hold executionMu at
\* every tick.
GateSpec ==
    /\ GateInit /\ [][GateNext]_gateVars
    /\ WF_gateVars(Boot) /\ WF_gateVars(GateStep) /\ WF_gateVars(Tick)
    /\ WF_gateVars(JobEnds)

-----------------------------------------------------------------------------
(* Properties *)

\* Every step of the worker that launches a container or a job of the site comes
\* after a verification of the storage in the same request or sweep: the comment
\* on quotaPreflight, "Used before every path that can launch a writer".  And what
\* was launched is verified again: no start or resumption lets the site run, and no
\* request that ends with finishQuotaWrite is closed other than as failed, on a
\* verification older than its last launch.
LaunchVerified ==
    [][ /\ worker' # "down" /\ (~(up' \subseteq up) \/ (job' /\ ~job))
              => task # NoTask /\ task.verified
        /\ intent # "running" /\ intent' = "running" /\ task.kind # "restore"
              => ~task.unseen
        /\ receipt.state = "pending" /\ receipt.kind \in Finishing
              /\ receipt'.state \notin {"pending", "failed"} => ~task.unseen ]_gateVars

\* The startup and the supervisor bring the site back only if the administrator
\* asked for it to run and since then no operation was begun to end that, was
\* interrupted or has failed, and no fence was applied for lost enforcement,
\* whichever file could not be saved and wherever the worker stopped.
ResumeIsIntended ==
    [][ task # NoTask /\ task.kind \in {"sweep", "startup"} /\ ~(up' \subseteq up)
          => consent ]_gateVars

\* A site that may run by intent is not one that Docker starts by itself: after
\* a reboot it is the worker that decides.
RestartIsOurs == intent \in {"running", "maintenance"} => auto = {} /\ manual

\* A fence that reported success to its operation left nothing running: a failed
\* receipt comes with a blocked intent and the containers stopped.
FailureBlocks ==
    [][ receipt.state = "pending" /\ receipt'.state = "failed"
          => (Marked => intent = "blocked") /\ up = {} /\ ~job ]_gateVars

\* A site that is not entitled to run, by its record, its storage or its intent,
\* is stopped by the supervisor in the end.
Entitled == Ready /\ enforced /\ intent \in {"running", "maintenance"}
UnentitledStopped == <>[]~Entitled => <>[](up = {} /\ ~job)

=============================================================================
