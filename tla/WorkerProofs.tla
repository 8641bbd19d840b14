---------------------------- MODULE WorkerProofs ----------------------------
(***************************************************************************)
(* Proofs about the worker, for every set of sites, of operation IDs and   *)
(* of client requests, and any number of faults: that operations are       *)
(* fenced, and what they do to a site's content.                           *)
(***************************************************************************)
EXTENDS Worker, TLAPS

Containers == Helpers \cup CliJobs

\* An exec only ever belongs to an operation that quiesceSite answers by
\* stopping the database.
ExecsFenced ==
    \A s \in Sites : host[s].jobs \cap Execs # {} => receipt[s].kind \in FencedKinds

PlannedExecsFenced ==
    task # NoTask /\ task.mode = "run" =>
        \A n \in 1..Len(task.todo) :
            task.todo[n] \in Execs => task.kind \in FencedKinds

\* Which jobs can be left at each point of an operation.  A handler has at most
\* the job it waits for; while fencing, the containers go before the execs.
JobsAccounted ==
    task # NoTask =>
        /\ task.waiting => task.mode = "run" /\ task.todo # <<>>
        /\ task.mode = "run" /\ task.waiting => Here.jobs \subseteq {Head(task.todo)}
        /\ task.mode = "run" /\ ~task.waiting => Here.jobs = {}
        /\ task.mode # "run" =>
              \/ task.todo = FencePlan(task.kind)
              \/ /\ task.todo \in {<<"stopwp", "stopdb">>, <<"stopdb">>}
                 /\ task.kind \in FencedKinds
                 /\ Here.jobs \subseteq Execs
              \/ task.todo = <<>> /\ Here.jobs = {}

Inv ==
    /\ TypeOK
    /\ ReceiptBeforeEffects
    /\ NoOrphanJobs
    /\ ExecsFenced
    /\ PlannedExecsFenced
    /\ JobsAccounted

-----------------------------------------------------------------------------
(* Plans and effects are well typed *)

\* The command list that execute, create, restoreBackup and the other
\* handlers run for a request is a sequence of known steps.
LEMMA PlanType ==
    ASSUME NEW kind \in Kinds, NEW h \in Hosts
    PROVE  Plan(kind, h) \in Seq(Steps)
<1> USE DEF Steps, FileSteps, DockerSteps, Jobs, Helpers, CliJobs, Execs
<1>1. CreatePlan \in Seq(Steps)
  BY DEF CreatePlan
<1>2. StartPlan \in Seq(Steps) /\ StopPlan \in Seq(Steps)
  BY DEF StartPlan, StopPlan
<1>3. DeletePlan(h) \in Seq(Steps)
  <2>1. <<"closetool", "unroute", "down", "rmdir", "rmbackups">> \in Seq(Steps)
    OBVIOUS
  <2>2. <<"gone", "unroute", "rmdir", "rmbackups">> \in Seq(Steps)
    OBVIOUS
  <2> QED
    BY <2>1, <2>2 DEF DeletePlan
<1>4. PrepareRestorePlan \in Seq(Steps) /\ BackupPlan \in Seq(Steps)
  BY DEF PrepareRestorePlan, BackupPlan
<1>5. RestorePlan \in Seq(Steps)
  BY DEF RestorePlan
<1>6. UpdatePlan \in Seq(Steps) /\ ResourcesPlan \in Seq(Steps)
  BY DEF UpdatePlan, ResourcesPlan
<1> HIDE DEF Steps
<1> QED
  BY <1>1, <1>2, <1>3, <1>4, <1>5, <1>6 DEF Plan, Kinds

\* quiesceSite's own command list is a sequence of known steps.
LEMMA FencePlanType ==
    ASSUME NEW kind
    PROVE  FencePlan(kind) \in Seq(Steps)
<1>1. <<"rmjobs", "stopwp", "stopdb">> \in Seq(Steps) /\ <<"rmjobs">> \in Seq(Steps)
  BY DEF Steps, DockerSteps
<1> QED
  BY <1>1 DEF FencePlan

\* Only operations that quiesceSite fences run execs.
LEMMA PlanExecs ==
    ASSUME NEW kind \in Kinds, NEW h \in Hosts,
           NEW n \in 1..Len(Plan(kind, h)), Plan(kind, h)[n] \in Execs
    PROVE  kind \in FencedKinds
BY SMT DEF Plan, Kinds, Execs, FencedKinds,
           CreatePlan, StartPlan, StopPlan, DeletePlan, PrepareRestorePlan,
           BackupPlan, RestorePlan, UpdatePlan, ResourcesPlan

\* Removing a site's helper and CLI containers keeps the site well typed.
LEMMA KillType ==
    ASSUME NEW h \in Hosts, NEW js
    PROVE  Kill(h, js) \in Hosts /\ Kill(h, js).jobs = h.jobs \ js
BY DEF Kill, Hosts

\* compose stop keeps the site well typed.
LEMMA StopType ==
    ASSUME NEW h \in Hosts, NEW xs
    PROVE  /\ Stop(h, xs) \in Hosts
           /\ Stop(h, xs).jobs = IF "db" \in xs THEN h.jobs \ Execs ELSE h.jobs
<1> DEFINE k == IF "db" \in xs THEN Kill(h, Execs) ELSE h
<1>1. k \in Hosts /\ k.jobs = IF "db" \in xs THEN h.jobs \ Execs ELSE h.jobs
  BY KillType
<1>2. Stop(h, xs) = [k EXCEPT !.svc = [x \in Services |->
            IF x \in xs /\ h.svc[x] = "running" THEN "stopped" ELSE h.svc[x]]]
  BY DEF Stop
<1> HIDE DEF k
<1> QED
  BY <1>1, <1>2 DEF Hosts

\* compose up keeps the site well typed.
LEMMA UpType ==
    ASSUME NEW h \in Hosts, NEW xs
    PROVE  Up(h, xs) \in Hosts /\ Up(h, xs).jobs \subseteq h.jobs
<1> DEFINE k == IF "db" \in xs /\ (h.svc["db"] # "running" \/ "db" \in h.stale)
                THEN Kill(h, Execs) ELSE h
<1>1. k \in Hosts /\ k.jobs \subseteq h.jobs
  BY KillType
<1>2. Up(h, xs) =
        [k EXCEPT !.svc = [x \in Services |-> IF x \in xs THEN "running" ELSE h.svc[x]],
                  !.stale = @ \ xs,
                  !.data = IF @ = "none" THEN "whole" ELSE @]
  BY DEF Up
<1> HIDE DEF k
<1>3. Up(h, xs) = [svc |-> [x \in Services |-> IF x \in xs THEN "running" ELSE h.svc[x]],
               stale |-> k.stale \ xs, jobs |-> k.jobs, data |-> IF k.data = "none" THEN "whole" ELSE k.data, ack |-> k.ack,
               dir |-> k.dir, route |-> k.route, backups |-> k.backups]
  BY <1>1, <1>2 DEF Hosts
<1> QED
  BY <1>1, <1>3 DEF Hosts

\* compose up --force-recreate keeps the site well typed.
LEMMA RecreateType ==
    ASSUME NEW h \in Hosts
    PROVE  Recreate(h) \in Hosts /\ Recreate(h).jobs \subseteq h.jobs
<1> DEFINE k == Kill(h, Execs)
<1>1. k \in Hosts /\ k.jobs \subseteq h.jobs
  BY KillType
<1>2. Recreate(h) = [k EXCEPT !.svc = [x \in Services |-> "stopped"], !.stale = {}]
  BY DEF Recreate
<1> HIDE DEF k
<1>3. Recreate(h) = [svc |-> [x \in Services |-> "stopped"],
               stale |-> {}, jobs |-> k.jobs, data |-> k.data, ack |-> k.ack,
               dir |-> k.dir, route |-> k.route, backups |-> k.backups]
  BY <1>1, <1>2 DEF Hosts
<1> QED
  BY <1>1, <1>3 DEF Hosts

\* compose down of a deletion keeps the site well typed.
LEMMA DownType ==
    ASSUME NEW h \in Hosts
    PROVE  Down(h) \in Hosts /\ Down(h).jobs \subseteq h.jobs
<1> DEFINE k == Kill(h, Execs)
<1>1. k \in Hosts /\ k.jobs \subseteq h.jobs
  BY KillType
<1>2. Down(h) = [k EXCEPT !.svc = [x \in Services |-> "absent"], !.stale = {},
                           !.data = "none", !.ack = FALSE]
  BY DEF Down
<1> HIDE DEF k
<1>3. Down(h) = [svc |-> [x \in Services |-> "absent"],
               stale |-> {}, jobs |-> k.jobs, data |-> "none", ack |-> FALSE,
               dir |-> k.dir, route |-> k.route, backups |-> k.backups]
  BY <1>1, <1>2 DEF Hosts
<1> QED
  BY <1>1, <1>3 DEF Hosts

\* Writing a new compose configuration keeps the site well typed.
LEMMA ConfigureType ==
    ASSUME NEW h \in Hosts
    PROVE  Configure(h) \in Hosts /\ Configure(h).jobs = h.jobs
BY DEF Configure, Hosts

-----------------------------------------------------------------------------
(* What a step of the running operation preserves *)

\* The four kinds of step, as seen from outside: no receipt changes and no job
\* starts; one job starts; a receipt becomes pending; a receipt becomes final.
Quiet ==
    /\ receipt' = receipt
    /\ \A s \in Sites : host'[s].jobs \subseteq host[s].jobs

Starts ==
    /\ receipt' = receipt
    /\ \E s \in Sites :
          /\ Pending(s) /\ host[s].jobs = {} /\ \E j \in Jobs : host'[s].jobs = {j}
          /\ \A t \in Sites \ {s} : host'[t] = host[t]

Opens ==
    /\ host' = host
    /\ \E s \in Sites :
          /\ ~Pending(s) /\ host[s].jobs = {} /\ receipt'[s].state = "pending"
          /\ \A t \in Sites \ {s} : receipt'[t] = receipt[t]

Closes ==
    /\ host' = host
    /\ \E s \in Sites :
          /\ Pending(s) /\ host[s].jobs = {} /\ receipt'[s].state # "pending"
          /\ \A t \in Sites \ {s} : receipt'[t] = receipt[t]

\* A step that completes: it leaves none of the job it waited for, and the two
\* steps of quiesceSite that kill jobs leave none of theirs.
Cleans(h) ==
    /\ h.jobs \subseteq Here.jobs
    /\ task.waiting => Head(task.todo) \notin h.jobs
    /\ Head(task.todo) = "rmjobs" => h.jobs \cap Containers = {}
    /\ Head(task.todo) = "stopdb" => h.jobs \cap Execs = {}

\* The request moves on to its next step.
Advances(h) ==
    /\ host' = [host EXCEPT ![task.site] = h]
    /\ UNCHANGED <<receipt, worker, unsettled>>
    /\ task' \in Tasks
    /\ task'.site = task.site /\ task'.id = task.id /\ task'.kind = task.kind
    /\ task'.mode = task.mode /\ ~task'.waiting
    /\ task'.todo = Tail(task.todo)

\* After a command that succeeded the request goes to its next command,
\* or to saving its final receipt.
LEMMA ProceedAdvances ==
    ASSUME Inv, task # NoTask, task.todo # <<>>, NEW h \in Hosts, Proceed(h)
    PROVE  Advances(h)
<1>1. task \in Tasks /\ task.todo \in Seq(Steps)
  BY DEF Inv, TypeOK, Tasks
<1>2. Tail(task.todo) \in Seq(Steps)
  BY <1>1
<1>3. task' = [task EXCEPT !.todo = Tail(task.todo), !.waiting = FALSE]
  BY DEF Proceed
<1> QED
  BY <1>1, <1>2, <1>3 DEF Proceed, Advances, Tasks

\* Going on to the next command, with any change to the site that starts
\* no job, keeps the invariant and is invisible in the abstract specification.
LEMMA AdvanceSafe ==
    ASSUME Inv, task # NoTask, task.todo # <<>>, faults' \in 0..MaxFaults,
           NEW h \in Hosts, Cleans(h), Advances(h)
    PROVE  Inv' /\ Quiet
<1> DEFINE s == task.site
<1>1. /\ task \in Tasks /\ s \in Sites /\ host[s] \in Hosts
      /\ task.todo \in Seq(Steps) /\ task.kind \in Kinds
  BY DEF Inv, TypeOK, Tasks
<1>2. /\ host' = [host EXCEPT ![s] = h] /\ receipt' = receipt
      /\ worker' = worker /\ unsettled' = unsettled
  BY DEF Advances
<1>4. /\ task' \in Tasks /\ task' # NoTask /\ task'.site = s /\ task'.kind = task.kind
      /\ task'.id = task.id /\ task'.mode = task.mode /\ ~task'.waiting
      /\ task'.todo = Tail(task.todo)
  BY DEF Advances, Tasks, NoTask
<1>5. /\ host' \in [Sites -> Hosts] /\ host'[s] = h
      /\ \A t \in Sites : host'[t].jobs \subseteq host[t].jobs
  BY <1>1, <1>2 DEF Cleans, Here, Inv, TypeOK
<1>6. TypeOK'
  BY <1>2, <1>4, <1>5 DEF Inv, TypeOK
<1>7. ReceiptBeforeEffects' /\ NoOrphanJobs' /\ ExecsFenced'
  BY <1>2, <1>4, <1>5 DEF Inv, ReceiptBeforeEffects, NoOrphanJobs, ExecsFenced, Pending
<1>8. PlannedExecsFenced'
  BY <1>1, <1>4 DEF Inv, PlannedExecsFenced
<1>9. JobsAccounted'
  <2>1. CASE task.mode = "run"
    <3>1. h.jobs = {}
      BY <2>1 DEF Inv, JobsAccounted, Cleans
    <3> QED
      BY <2>1, <3>1, <1>4, <1>5 DEF JobsAccounted, Here
  <2>2. CASE task.mode # "run"
    <3>1. h.jobs \subseteq Jobs
      BY DEF Hosts
    <3>2. CASE task.todo = <<"rmjobs", "stopwp", "stopdb">> /\ task.kind \in FencedKinds
      <4>1. Tail(task.todo) = <<"stopwp", "stopdb">> /\ h.jobs \subseteq Execs
        BY <3>1, <3>2 DEF Cleans, Containers, Jobs
      <4> QED
        BY <2>2, <3>2, <4>1, <1>4, <1>5 DEF JobsAccounted, Here
    <3>3. CASE task.todo = <<"rmjobs">> /\ task.kind \notin FencedKinds
      <4>1. Tail(task.todo) = <<>> /\ h.jobs \subseteq Execs
        BY <3>1, <3>3 DEF Cleans, Containers, Jobs
      <4>2. h.jobs = {}
        BY <4>1, <3>3, <1>1 DEF Inv, ExecsFenced, ReceiptBeforeEffects, Cleans, Here
      <4> QED
        BY <2>2, <4>1, <4>2, <1>4, <1>5 DEF JobsAccounted, Here
    <3>4. CASE task.todo = <<"stopwp", "stopdb">> /\ Here.jobs \subseteq Execs
                 /\ task.kind \in FencedKinds
      BY <2>2, <3>4, <1>4, <1>5 DEF JobsAccounted, Here, Cleans
    <3>5. CASE task.todo = <<"stopdb">> /\ Here.jobs \subseteq Execs
      <4>1. Tail(task.todo) = <<>> /\ h.jobs = {}
        BY <3>5 DEF Cleans
      <4> QED
        BY <2>2, <4>1, <1>4, <1>5 DEF JobsAccounted, Here
    <3> QED
      BY <2>2, <3>2, <3>3, <3>4, <3>5 DEF Inv, JobsAccounted, FencePlan
  <2> QED
    BY <2>1, <2>2
<1> QED
  BY <1>2, <1>5, <1>6, <1>7, <1>8, <1>9 DEF Inv, Quiet

\* The same for a command that succeeds as a whole.
LEMMA ProceedSafe ==
    ASSUME Inv, task # NoTask, task.todo # <<>>, faults' \in 0..MaxFaults,
           NEW h \in Hosts, Cleans(h), Proceed(h)
    PROVE  Inv' /\ Quiet
BY ProceedAdvances, AdvanceSafe

\* A failing command sends the request to quiesceSite or to its answer, and
\* what it leaves behind is still covered by the pending receipt.
LEMMA AbortSafe ==
    ASSUME Inv, task # NoTask, task.todo # <<>>, faults' \in 0..MaxFaults,
           NEW h \in Hosts, h.jobs \subseteq Here.jobs, Abort(h)
    PROVE  Inv' /\ Quiet
<1> DEFINE s == task.site
<1>1. /\ task \in Tasks /\ s \in Sites /\ host[s] \in Hosts /\ task.kind \in Kinds
  BY DEF Inv, TypeOK, Tasks
<1>2. host' = [host EXCEPT ![s] = h] /\ receipt' = receipt
  BY DEF Abort
<1>3. /\ host' \in [Sites -> Hosts] /\ host'[s] = h
      /\ \A t \in Sites : host'[t].jobs \subseteq host[t].jobs
  BY <1>1, <1>2 DEF Here, Inv, TypeOK
<1>4. worker' \in {"down", "starting", "serving"} /\ unsettled' \in SUBSET Sites
  BY DEF Abort, Inv, TypeOK
<1>5. NoOrphanJobs' /\ ExecsFenced'
  BY <1>2, <1>3 DEF Inv, NoOrphanJobs, ExecsFenced, Pending
<1>6. CASE task.mode # "run"
  <2>1. task' = NoTask
    BY <1>6 DEF Abort
  <2> QED
    BY <2>1, <1>2, <1>3, <1>4, <1>5
    DEF Inv, TypeOK, ReceiptBeforeEffects, PlannedExecsFenced, JobsAccounted, Quiet
<1>7. CASE task.mode = "run"
  <2> DEFINE plan == IF Rejected(task) THEN <<>> ELSE FencePlan(task.kind)
  <2>1. task' = [task EXCEPT !.mode = "fence", !.waiting = FALSE, !.todo = plan]
    BY <1>7 DEF Abort
  <2>2. plan \in Seq(Steps)
    BY FencePlanType
  <2>3. /\ task' \in Tasks /\ task' # NoTask /\ task'.site = s /\ task'.kind = task.kind
        /\ task'.id = task.id /\ task'.mode = "fence" /\ ~task'.waiting /\ task'.todo = plan
    BY <2>1, <2>2, <1>1 DEF Tasks, NoTask
  <2>4. plan = FencePlan(task.kind) \/ (plan = <<>> /\ h.jobs = {})
    <3>1. CASE Rejected(task)
      <4>1. Head(task.todo) \notin Jobs
        BY <3>1 DEF Rejected, Jobs, Helpers, CliJobs, Execs
      <4>2. h.jobs \subseteq Jobs
        BY DEF Hosts
      <4> QED
        BY <3>1, <4>1, <4>2, <1>7 DEF Inv, JobsAccounted
    <3> QED
      BY <3>1
  <2> HIDE DEF plan
  <2>5. TypeOK'
    BY <2>3, <1>2, <1>3, <1>4 DEF Inv, TypeOK
  <2>6. ReceiptBeforeEffects' /\ PlannedExecsFenced'
    BY <2>3, <1>2 DEF Inv, ReceiptBeforeEffects, PlannedExecsFenced
  <2>7. JobsAccounted'
    BY <2>3, <2>4, <1>3 DEF JobsAccounted, Here
  <2> QED
    BY <2>5, <2>6, <2>7, <1>2, <1>3, <1>5 DEF Inv, Quiet
<1> QED
  BY <1>6, <1>7

\* Every step built by Command: its effect is cited once for success, and for
\* each state a failure may leave.
LEMMA CommandSafe ==
    ASSUME Inv, NEW step, NEW possible, NEW after \in Hosts, NEW partly \in SUBSET Hosts,
           step \notin Jobs,
           after.jobs \subseteq Here.jobs,
           \A h \in partly : h.jobs \subseteq Here.jobs,
           step = "rmjobs" => after.jobs \cap Containers = {},
           step = "stopdb" => after.jobs \cap Execs = {},
           Command(step, possible, after, partly)
    PROVE  Inv' /\ Quiet
<1>1. task # NoTask /\ task.todo # <<>> /\ Head(task.todo) = step /\ ~task.waiting
  BY DEF Command, At
<1>2. Here \in Hosts
  BY <1>1 DEF Here, Inv, TypeOK, Tasks
<1>3. faults' \in 0..MaxFaults
  BY MaxFaultsAssumption DEF Command, Fault, Inv, TypeOK
<1>4. Cleans(after)
  BY <1>1 DEF Cleans
<1>5. CASE Proceed(after)
  BY <1>1, <1>3, <1>4, <1>5, ProceedSafe
<1>6. ASSUME NEW h \in partly \cup {Here, after}, Abort(h)
      PROVE  Inv' /\ Quiet
  BY <1>1, <1>2, <1>3, <1>6, AbortSafe
<1> QED
  BY <1>5, <1>6 DEF Command

\* Starting a helper, a CLI container or an exec adds one job of the site
\* whose receipt is pending, and nothing else.
LEMMA StartJobSafe ==
    ASSUME Inv, NEW j \in Jobs, StartJob(j)
    PROVE  Inv' /\ (Quiet \/ Starts)
<1> DEFINE s == task.site
           started == Launch(Here, j)
<1>1. /\ task # NoTask /\ task.todo # <<>> /\ Head(task.todo) = j /\ ~task.waiting
  BY DEF StartJob, At
<1>2. /\ task \in Tasks /\ s \in Sites /\ host[s] \in Hosts /\ task.todo \in Seq(Steps)
  BY <1>1 DEF Inv, TypeOK, Tasks
<1>3. faults' \in 0..MaxFaults
  BY MaxFaultsAssumption DEF StartJob, Fault, Inv, TypeOK
<1>4. CASE Abort(Here)
  BY <1>1, <1>2, <1>3, <1>4, AbortSafe DEF Here
<1>5. CASE /\ host' = [host EXCEPT ![s] = started]
           /\ task' = [task EXCEPT !.waiting = TRUE]
           /\ UNCHANGED <<receipt, worker, unsettled, faults>>
  <2>1. /\ task' \in Tasks /\ task' # NoTask /\ task'.site = s /\ task'.kind = task.kind
        /\ task'.id = task.id /\ task'.mode = task.mode /\ task'.waiting
        /\ task'.todo = task.todo
    BY <1>2, <1>5 DEF Tasks, NoTask
  <2>2. task.mode = "run" /\ host[s].jobs = {}
    BY <1>1 DEF Inv, JobsAccounted, FencePlan, Here, Jobs, Helpers, CliJobs, Execs
  <2>3. started \in Hosts /\ started.jobs = {j}
    BY <1>2, <2>2 DEF Launch, Here, Hosts
  <2> HIDE DEF started
  <2>4. /\ host' \in [Sites -> Hosts] /\ host'[s].jobs = {j}
        /\ \A t \in Sites \ {s} : host'[t] = host[t]
    BY <1>2, <1>5, <2>3 DEF Inv, TypeOK
  <2>5. receipt[s] = [id |-> task.id, kind |-> task.kind, state |-> "pending"]
    BY <1>1 DEF Inv, ReceiptBeforeEffects
  <2>6. j \in Execs => task.kind \in FencedKinds
    BY <1>1, <1>2, <2>2 DEF Inv, PlannedExecsFenced
  <2>7. TypeOK'
    BY <1>5, <2>1, <2>4 DEF Inv, TypeOK
  <2>8. ReceiptBeforeEffects' /\ PlannedExecsFenced'
    BY <1>1, <1>5, <2>1 DEF Inv, ReceiptBeforeEffects, PlannedExecsFenced
  <2>9. NoOrphanJobs' /\ ExecsFenced'
    BY <1>5, <2>4, <2>5, <2>6 DEF Inv, NoOrphanJobs, ExecsFenced, Pending
  <2>10. JobsAccounted'
    BY <1>1, <2>1, <2>2, <2>4 DEF JobsAccounted, Here
  <2>11. Starts
    BY <1>2, <1>5, <2>2, <2>4, <2>5 DEF Starts, Pending
  <2> QED
    BY <2>7, <2>8, <2>9, <2>10, <2>11 DEF Inv
<1> QED
  BY <1>4, <1>5 DEF StartJob

\* Every single command of a handler keeps the invariant, and at most
\* starts a job.
LEMMA DoStepSafe == Inv /\ DoStep => Inv' /\ (Quiet \/ Starts)
<1> SUFFICES ASSUME Inv, DoStep PROVE Inv' /\ (Quiet \/ Starts)
  OBVIOUS
<1>0. task # NoTask /\ task.todo # <<>> /\ Here \in Hosts
  BY DEF DoStep, Command, At, Admit, Inspect, StartJob, Conf, CloseTool, MkDir, Config,
         Route, Unroute, ComposeUp, UpDb, UpWordPress, RecreateServices, ComposeStop,
         StopWordPress, StopDb, RemoveOwnedJobs, ComposeDown, CheckGone, RemoveDir,
         RemoveBackups, Publish, VerifyBackup, Here, Inv, TypeOK, Tasks
<1> USE DEF Jobs, Helpers, CliJobs, Execs
<1>1. CASE Conf
  BY <1>0, <1>1, CommandSafe DEF Conf
<1>2. CASE CloseTool
  BY <1>0, <1>2, CommandSafe DEF CloseTool
<1>3. CASE MkDir
  <2> DEFINE ok == TRUE
             after == [Here EXCEPT !.dir = IF @ = "none" THEN "bare" ELSE @]
  <2>1. /\ after \in Hosts /\ after.jobs \subseteq Here.jobs
    BY <1>0 DEF Hosts
  <2>2. Command("mkdir", ok, after, {})
    BY <1>3 DEF MkDir
  <2> HIDE DEF ok, after
  <2> QED
    BY <2>1, <2>2, CommandSafe
<1>4. CASE Route
  <2> DEFINE ok == TRUE
             after == [Here EXCEPT !.route = TRUE]
  <2>1. /\ after \in Hosts /\ after.jobs \subseteq Here.jobs
    BY <1>0 DEF Hosts
  <2>2. Command("route", ok, after, {})
    BY <1>4 DEF Route
  <2> HIDE DEF ok, after
  <2> QED
    BY <2>1, <2>2, CommandSafe
<1>5. CASE Unroute
  <2> DEFINE ok == TRUE
             after == [Here EXCEPT !.route = FALSE]
  <2>1. /\ after \in Hosts /\ after.jobs \subseteq Here.jobs
    BY <1>0 DEF Hosts
  <2>2. Command("unroute", ok, after, {})
    BY <1>5 DEF Unroute
  <2> HIDE DEF ok, after
  <2> QED
    BY <2>1, <2>2, CommandSafe
<1>6. CASE Publish
  <2> DEFINE after == [Here EXCEPT !.backups = @ \cup {task.id}]
  <2>1. /\ after \in Hosts /\ after.jobs \subseteq Here.jobs
    BY <1>0, ZenonT(40) DEF Hosts, Inv, TypeOK, Tasks
  <2>2. Command("publish", task.id \notin Here.backups, after, {})
    BY <1>6 DEF Publish
  <2> HIDE DEF after
  <2> QED
    BY <2>1, <2>2, CommandSafe
<1>7. CASE Config
  <2> DEFINE ok == TRUE
             after == Configure(Here)
  <2>1. /\ after \in Hosts /\ after.jobs \subseteq Here.jobs
    BY <1>0, ConfigureType
  <2>2. Command("config", ok, after, {})
    BY <1>7 DEF Config
  <2> HIDE DEF ok, after
  <2> QED
    BY <2>1, <2>2, CommandSafe
<1>8. CASE UpDb
  <2> DEFINE after == Up(Here, {"db"})
  <2>1. /\ after \in Hosts /\ after.jobs \subseteq Here.jobs
    BY <1>0, UpType
  <2>2. Command("updb", HasConfig, after, {})
    BY <1>8 DEF UpDb
  <2> HIDE DEF after
  <2> QED
    BY <2>1, <2>2, CommandSafe
<1>9. CASE UpWordPress
  <2> DEFINE after == Up(Here, Services)
             left == Up(Here, {"db"})
  <2>1. /\ after \in Hosts /\ after.jobs \subseteq Here.jobs
        /\ left \in Hosts /\ left.jobs \subseteq Here.jobs
    BY <1>0, UpType
  <2>2. Command("upwp", HasConfig, after, {left})
    BY <1>9 DEF UpWordPress
  <2> HIDE DEF after, left
  <2> QED
    BY <2>1, <2>2, CommandSafe
<1>10. CASE ComposeUp
  <2> DEFINE after == [Up(Here, Services) EXCEPT !.ack = TRUE]
             left == [Up(Here, {"db"}) EXCEPT !.ack = TRUE]
  <2>1. /\ after \in Hosts /\ after.jobs \subseteq Here.jobs
        /\ left \in Hosts /\ left.jobs \subseteq Here.jobs
    BY <1>0, UpType, ZenonT(40) DEF Hosts
  <2>2. Command("up", HasConfig, after, {left})
    BY <1>10 DEF ComposeUp
  <2> HIDE DEF after, left
  <2> QED
    BY <2>1, <2>2, CommandSafe
<1>11. CASE RecreateServices
  <2> DEFINE after == IF task.was THEN Up(Here, Services) ELSE Recreate(Here)
             partly == IF task.was THEN {Up(Here, {"db"})} ELSE {}
  <2>1. after \in Hosts /\ after.jobs \subseteq Here.jobs
    BY <1>0, UpType, RecreateType
  <2>2. partly \in SUBSET Hosts /\ \A h \in partly : h.jobs \subseteq Here.jobs
    BY <1>0, UpType
  <2>3. Command("recreate", HasConfig, after, partly)
    BY <1>11 DEF RecreateServices
  <2> HIDE DEF after, partly
  <2> QED
    BY <2>1, <2>2, <2>3, CommandSafe
<1>12. CASE ComposeStop
  <2> DEFINE after == Stop(Here, Services)
             left == Stop(Here, {"wp"})
  <2>1. /\ after \in Hosts /\ after.jobs \subseteq Here.jobs
        /\ left \in Hosts /\ left.jobs \subseteq Here.jobs
    BY <1>0, StopType
  <2>2. Command("stop", HasConfig, after, {left})
    BY <1>12 DEF ComposeStop
  <2> HIDE DEF after, left
  <2> QED
    BY <2>1, <2>2, CommandSafe
<1>13. CASE StopWordPress
  <2> DEFINE after == Stop(Here, {"wp"})
  <2>1. /\ after \in Hosts /\ after.jobs \subseteq Here.jobs
    BY <1>0, StopType
  <2>2. Command("stopwp", task.mode = "run" => HasConfig, after, {})
    BY <1>13 DEF StopWordPress
  <2> HIDE DEF after
  <2> QED
    BY <2>1, <2>2, CommandSafe
<1>14. CASE StopDb
  <2> DEFINE ok == TRUE
             after == Stop(Here, {"db"})
  <2>1. after \in Hosts /\ after.jobs = Here.jobs \ Execs
    BY <1>0, StopType
  <2>2. Command("stopdb", ok, after, {})
    BY <1>14 DEF StopDb
  <2> HIDE DEF ok, after
  <2> QED
    BY <2>1, <2>2, CommandSafe
<1>15. CASE RemoveOwnedJobs
  <2> DEFINE ok == TRUE
             after == Kill(Here, Helpers \cup CliJobs)
  <2>1. after \in Hosts /\ after.jobs = Here.jobs \ Containers
    BY <1>0, KillType DEF Containers
  <2>2. Command("rmjobs", ok, after, {})
    BY <1>15 DEF RemoveOwnedJobs
  <2> HIDE DEF ok, after
  <2> QED
    BY <2>1, <2>2, CommandSafe
<1>16. CASE ComposeDown
  <2> DEFINE after == Down(Here)
             stopped == Stop(Here, Services)
             left == [Down(Here) EXCEPT !.data = Here.data]
  <2>1. /\ after \in Hosts /\ after.jobs \subseteq Here.jobs
        /\ stopped \in Hosts /\ stopped.jobs \subseteq Here.jobs
        /\ left \in Hosts /\ left.jobs \subseteq Here.jobs
    <3>1. Down(Here) \in Hosts /\ Down(Here).jobs \subseteq Here.jobs
      BY <1>0, DownType
    <3>2. left \in Hosts /\ left.jobs = Down(Here).jobs
      BY <1>0, <3>1 DEF Hosts
    <3> QED
      BY <1>0, <3>1, <3>2, StopType
  <2>2. Command("down", HasConfig, after, {stopped, left})
    BY <1>16 DEF ComposeDown
  <2> HIDE DEF after, stopped, left
  <2> QED
    BY <2>1, <2>2, CommandSafe
<1>17. CASE CheckGone
  BY <1>0, <1>17, CommandSafe DEF CheckGone
<1>18. CASE RemoveDir
  <2> DEFINE ok == TRUE
             after == [Here EXCEPT !.dir = "none"]
             left == [Here EXCEPT !.dir = IF @ = "none" THEN @ ELSE "bare"]
  <2>1. /\ after \in Hosts /\ after.jobs \subseteq Here.jobs
        /\ left \in Hosts /\ left.jobs \subseteq Here.jobs
    BY <1>0 DEF Hosts
  <2>2. Command("rmdir", ok, after, {left})
    BY <1>18 DEF RemoveDir
  <2> HIDE DEF ok, after, left
  <2> QED
    BY <2>1, <2>2, CommandSafe
<1>19. CASE RemoveBackups
  <2> DEFINE ok == TRUE
             after == [Here EXCEPT !.backups = {}]
             left == {[Here EXCEPT !.backups = bs] : bs \in SUBSET Here.backups}
  <2>1. after \in Hosts /\ after.jobs = Here.jobs
    BY <1>0 DEF Hosts
  <2>2. left \in SUBSET Hosts /\ \A h \in left : h.jobs = Here.jobs
    BY <1>0 DEF Hosts
  <2>3. Command("rmbackups", ok, after, left)
    BY <1>19 DEF RemoveBackups
  <2> HIDE DEF ok, after, left
  <2> QED
    BY <2>1, <2>2, <2>3, CommandSafe
<1>20. CASE VerifyBackup
  BY <1>0, <1>20, CommandSafe DEF VerifyBackup
<1>21. CASE Admit
  <2>1. faults' \in 0..MaxFaults /\ Cleans(Here)
    BY <1>21 DEF Admit, At, Cleans, Inv, TypeOK
  <2> QED
    BY <1>0, <2>1, <1>21, ProceedSafe, AbortSafe DEF Admit
<1>22. CASE Inspect
  <2>1. faults' \in 0..MaxFaults /\ Cleans(Here)
    BY <1>22 DEF Inspect, At, Cleans, Inv, TypeOK
  <2>2. CASE Abort(Here)
    BY <1>0, <2>1, <2>2, AbortSafe
  <2>3. ASSUME NEW b \in BOOLEAN,
               task' = [task EXCEPT !.todo = Tail(task.todo), !.was = b],
               UNCHANGED <<receipt, worker, unsettled, host>>
        PROVE  Inv' /\ Quiet
    <3>1. task \in Tasks /\ task.todo \in Seq(Steps) /\ ~task.waiting
      BY <1>0, <1>22 DEF Inspect, At, Inv, TypeOK, Tasks
    <3>2. Tail(task.todo) \in Seq(Steps)
      BY <1>0, <3>1
    <3>3. Advances(Here)
      BY <2>3, <3>1, <3>2 DEF Advances, Tasks, Here, Inv, TypeOK
    <3> QED
      BY <1>0, <2>1, <3>3, AdvanceSafe
  <2> QED
    BY <1>22, <2>2, <2>3 DEF Inspect
<1>23. CASE \E j \in Jobs : StartJob(j)
  BY <1>23, StartJobSafe
<1> QED
  BY <1>1, <1>2, <1>3, <1>4, <1>5, <1>6, <1>7, <1>8, <1>9, <1>10, <1>11, <1>12, <1>13, <1>14, <1>15, <1>16, <1>17, <1>18, <1>19, <1>20, <1>21, <1>22, <1>23 DEF DoStep

-----------------------------------------------------------------------------
(* The other actions *)

\* The end of a job, successful or not, keeps the invariant.
LEMMA JobEndsSafe ==
    ASSUME Inv, NEW s \in Sites, NEW j \in Jobs, NEW ok \in BOOLEAN, JobEnds(s, j, ok)
    PROVE  Inv' /\ Quiet
<1> DEFINE h == IF ok THEN [host[s] EXCEPT !.jobs = @ \ {j},
                                           !.data = IF j = "import" THEN "whole" ELSE @]
                      ELSE Kill(host[s], {j})
<1>1. host[s] \in Hosts
  BY DEF Inv, TypeOK
<1>2. h \in Hosts /\ h.jobs = host[s].jobs \ {j}
  BY <1>1, KillType DEF Hosts
<1>3. faults' \in 0..MaxFaults
  BY MaxFaultsAssumption DEF JobEnds, Fault, Inv, TypeOK
<1>4. CASE Awaits(s, j)
  <2>1. task # NoTask /\ task.waiting /\ task.site = s /\ Head(task.todo) = j
    BY <1>4 DEF Awaits
  <2>2. task.todo # <<>> /\ Here = host[s] /\ task.mode = "run"
    BY <2>1 DEF Inv, JobsAccounted, Here
  <2>3. Head(task.todo) \notin {"rmjobs", "stopdb"}
    BY <2>1 DEF Jobs, Helpers, CliJobs, Execs
  <2>4. Proceed(h) \/ Abort(h)
    BY <1>4 DEF JobEnds
  <2> HIDE DEF h
  <2>5. Cleans(h)
    BY <1>2, <2>1, <2>2, <2>3 DEF Cleans
  <2> QED
    BY <1>2, <1>3, <2>1, <2>2, <2>4, <2>5, ProceedSafe, AbortSafe DEF Cleans
<1>5. CASE ~Awaits(s, j)
  <2>1. host' = [host EXCEPT ![s] = h] /\ UNCHANGED <<receipt, worker, task, unsettled>>
    BY <1>5 DEF JobEnds
  <2> HIDE DEF h
  <2>2. /\ host' \in [Sites -> Hosts]
        /\ \A t \in Sites : host'[t].jobs \subseteq host[t].jobs
    BY <1>1, <1>2, <2>1 DEF Inv, TypeOK
  <2>3. task # NoTask => task.site \in Sites
    BY DEF Inv, TypeOK, Tasks
  <2>4. JobsAccounted'
    BY <2>1, <2>2, <2>3 DEF Inv, JobsAccounted, Here
  <2> QED
    BY <1>3, <2>1, <2>2, <2>4 DEF Inv, TypeOK, ReceiptBeforeEffects, NoOrphanJobs,
       ExecsFenced, PlannedExecsFenced, Pending, Quiet
<1> QED
  BY <1>4, <1>5

\* A request whose context is cancelled while a job runs leaves the job to
\* the fencing that follows.
LEMMA AbandonSafe == Inv /\ Abandon => Inv' /\ Quiet
<1> SUFFICES ASSUME Inv, Abandon PROVE Inv' /\ Quiet
  OBVIOUS
<1>1. task # NoTask /\ task.todo # <<>> /\ Here \in Hosts /\ faults' \in 0..MaxFaults
  BY DEF Abandon, Inv, TypeOK, Tasks, JobsAccounted, Here
<1> QED
  BY <1>1, AbortSafe DEF Abandon

\* saveReceipt leaves the old or the new receipt, whichever step of it
\* fails.
LEMMA SaveReceiptType ==
    ASSUME TypeOK, NEW s \in Sites, NEW r \in Receipts, NEW outcome \in Outcomes,
           SaveReceipt(s, r, outcome)
    PROVE  /\ receipt' \in [Sites -> Receipts \cup {NoReceipt}]
           /\ faults' \in 0..MaxFaults
           /\ receipt'[s] = IF outcome = "lost" THEN receipt[s] ELSE r
           /\ \A t \in Sites \ {s} : receipt'[t] = receipt[t]
BY MaxFaultsAssumption DEF SaveReceipt, Fault, TypeOK

\* executeTracked accepts a request only after its pending receipt is saved
\* and no job of the site is running.
LEMMA BeginSafe ==
    ASSUME Inv, NEW req \in Requests, NEW outcome \in Outcomes, Begin(req, outcome)
    PROVE  Inv' /\ (Quiet \/ Opens)
<1> DEFINE s == req.site
           r == [id |-> req.id, kind |-> req.kind, state |-> "pending"]
<1>1. /\ s \in Sites /\ req.id \in Ids /\ req.kind \in Kinds
      /\ req.from \in Ids /\ req.safety \in Ids
  BY ClientKindsAssumption DEF Requests
<1>2. r \in Receipts
  BY <1>1 DEF Receipts
<1>3. /\ receipt' \in [Sites -> Receipts \cup {NoReceipt}]
      /\ faults' \in 0..MaxFaults
      /\ receipt'[s] = IF outcome = "lost" THEN receipt[s] ELSE r
      /\ \A t \in Sites \ {s} : receipt'[t] = receipt[t]
  BY <1>1, <1>2, SaveReceiptType DEF Begin, Inv
<1>4. worker' = worker /\ unsettled' = unsettled /\ host' = host /\ host[s] \in Hosts
  BY <1>1 DEF Begin, Inv, TypeOK
<1>5. host[s].jobs = {}
  BY <1>1 DEF Begin, Admissible, Inv, NoOrphanJobs, Pending
<1>6. NoOrphanJobs' /\ ExecsFenced'
  BY <1>3, <1>4, <1>5 DEF Inv, NoOrphanJobs, ExecsFenced, Pending
<1>9. Quiet \/ Opens
  <2>1. ~Pending(s)
    BY DEF Begin, Admissible, Pending
  <2>2. CASE outcome = "lost"
    BY <1>1, <1>3, <1>4, <2>2 DEF Quiet, Inv, TypeOK
  <2>3. CASE outcome # "lost"
    BY <1>1, <1>3, <1>4, <1>5, <2>1, <2>3 DEF Opens
  <2> QED
    BY <2>2, <2>3
<1>7. CASE outcome # "synced"
  <2>1. task' = NoTask
    BY <1>7 DEF Begin
  <2> QED
    BY <1>3, <1>4, <1>6, <1>9, <2>1
    DEF Inv, TypeOK, ReceiptBeforeEffects, PlannedExecsFenced, JobsAccounted
<1>8. CASE outcome = "synced"
  <2> DEFINE plan == Plan(req.kind, host[s])
  <2>1. task' = [site |-> s, id |-> req.id, kind |-> req.kind, from |-> req.from,
                 safety |-> req.safety, mode |-> "run", todo |-> plan,
                 waiting |-> FALSE, live |-> TRUE, was |-> FALSE]
    BY <1>8 DEF Begin, StartedTask
  <2>2. plan \in Seq(Steps) /\ \A n \in 1..Len(plan) : plan[n] \in Execs => req.kind \in FencedKinds
    BY <1>1, <1>4, PlanType, PlanExecs
  <2> HIDE DEF plan
  <2>3. task' \in Tasks /\ task' # NoTask
    BY <1>1, <2>1, <2>2 DEF Tasks, NoTask
  <2>4. TypeOK'
    BY <1>3, <1>4, <2>3 DEF Inv, TypeOK
  <2>5. ReceiptBeforeEffects'
    BY <1>3, <1>8, <2>1 DEF ReceiptBeforeEffects
  <2>6. PlannedExecsFenced'
    BY <2>1, <2>2 DEF PlannedExecsFenced
  <2>7. JobsAccounted'
    BY <1>4, <1>5, <2>1 DEF JobsAccounted, Here
  <2> QED
    BY <1>6, <1>9, <2>4, <2>5, <2>6, <2>7 DEF Inv
<1> QED
  BY <1>7, <1>8

\* The operation with which recoverPending takes up a pending receipt is
\* well typed.
LEMMA RecoveryType ==
    ASSUME TypeOK, NEW s \in Sites, Pending(s), NEW mode \in {"recover", "startup"}
    PROVE  /\ Recovery(s, mode) \in Tasks
           /\ Recovery(s, mode).site = s
           /\ Recovery(s, mode).todo = FencePlan(Recovery(s, mode).kind)
           /\ Recovery(s, mode).mode = mode /\ ~Recovery(s, mode).waiting
           /\ receipt[s] = [id |-> Recovery(s, mode).id, kind |-> Recovery(s, mode).kind,
                            state |-> "pending"]
<1>1. receipt[s] \in Receipts
  BY DEF TypeOK, Pending, NoReceipt
<1> QED
  BY <1>1, FencePlanType DEF Recovery, Tasks, Receipts, Pending

\* Runtime and Settle start a recovery in the same way.
LEMMA RecoverSafe ==
    ASSUME Inv, NEW s \in Sites, Pending(s), NEW mode \in {"recover", "startup"},
           task' = Recovery(s, mode),
           UNCHANGED <<receipt, worker, unsettled, host, faults>>
    PROVE  Inv' /\ Quiet
<1> DEFINE t == Recovery(s, mode)
<1>1. /\ t \in Tasks /\ t.site = s /\ t.todo = FencePlan(t.kind)
      /\ t.mode = mode /\ ~t.waiting
      /\ receipt[s] = [id |-> t.id, kind |-> t.kind, state |-> "pending"]
  BY RecoveryType DEF Inv
<1> HIDE DEF t
<1>2. task' = t
  BY DEF t
<1> QED
  BY <1>1, <1>2 DEF Inv, TypeOK, ReceiptBeforeEffects, NoOrphanJobs, ExecsFenced,
     PlannedExecsFenced, JobsAccounted, Pending, Quiet

\* Saving the final receipt closes the operation only when its site has no
\* job left.
LEMMA ConcludeSafe ==
    ASSUME Inv, NEW outcome \in Outcomes, Conclude(outcome)
    PROVE  Inv' /\ (Quiet \/ Closes)
<1> DEFINE s == task.site
           r == [id |-> task.id, kind |-> task.kind, state |-> Verdict(task.mode)]
<1>1. task # NoTask /\ task.todo = <<>> /\ task \in Tasks /\ s \in Sites
  BY DEF Conclude, Inv, TypeOK, Tasks
<1>2. Verdict(task.mode) \in {"succeeded", "failed", "interrupted"}
  BY <1>1 DEF Verdict, Tasks
<1>3. r \in Receipts
  BY <1>1, <1>2 DEF Receipts, Tasks
<1>4. SaveReceipt(s, r, outcome)
  BY DEF Conclude
<1> HIDE DEF r
<1>5. /\ receipt' \in [Sites -> Receipts \cup {NoReceipt}]
      /\ faults' \in 0..MaxFaults
      /\ receipt'[s] = IF outcome = "lost" THEN receipt[s] ELSE r
      /\ \A t \in Sites \ {s} : receipt'[t] = receipt[t]
  BY <1>1, <1>3, <1>4, SaveReceiptType DEF Inv
<1>6. host[s].jobs = {}
  BY <1>1 DEF Inv, JobsAccounted, FencePlan, Here
<1>7. /\ task' = NoTask /\ host' = host /\ worker' \in {"down", "starting", "serving"}
      /\ unsettled' \in SUBSET Sites
  BY DEF Conclude, Inv, TypeOK
<1>8. NoOrphanJobs' /\ ExecsFenced'
  BY <1>5, <1>6, <1>7 DEF Inv, NoOrphanJobs, ExecsFenced, Pending
<1>9. Quiet \/ Closes
  <2>1. CASE outcome = "lost"
    BY <1>1, <1>5, <1>7, <2>1 DEF Quiet, Inv, TypeOK
  <2>2. CASE outcome # "lost"
    <3>1. Pending(s)
      BY <1>1 DEF Inv, ReceiptBeforeEffects, Pending
    <3>2. receipt'[s].state # "pending"
      BY <1>2, <1>5, <2>2 DEF r
    <3> QED
      BY <1>1, <1>5, <1>6, <1>7, <3>1, <3>2 DEF Closes
  <2> QED
    BY <2>1, <2>2
<1> QED
  BY <1>5, <1>7, <1>8, <1>9
  DEF Inv, TypeOK, ReceiptBeforeEffects, PlannedExecsFenced, JobsAccounted

\* /backup/delete, which has no receipt, starts no job.
LEMMA DeleteBackupSafe ==
    ASSUME Inv, NEW s \in Sites, NEW b \in Ids, DeleteBackup(s, b)
    PROVE  Inv' /\ Quiet
<1> DEFINE h == [host[s] EXCEPT !.backups = @ \ {b}]
<1>1. host[s] \in Hosts /\ host' = [host EXCEPT ![s] = h] /\ task = NoTask
  BY DEF DeleteBackup, Free, Inv, TypeOK
<1>2. h \in Hosts /\ h.jobs = host[s].jobs
  BY <1>1 DEF Hosts
<1> HIDE DEF h
<1>3. host' \in [Sites -> Hosts] /\ \A t \in Sites : host'[t].jobs = host[t].jobs
  BY <1>1, <1>2 DEF Inv, TypeOK
<1>4. UNCHANGED <<receipt, worker, task, unsettled, faults>>
  BY DEF DeleteBackup
<1> QED
  BY <1>1, <1>3, <1>4 DEF Inv, TypeOK, ReceiptBeforeEffects, NoOrphanJobs, ExecsFenced,
     PlannedExecsFenced, JobsAccounted, Pending, Quiet

\* A panel that goes away changes nothing but the request's context.
LEMMA DisconnectSafe == Inv /\ Disconnect => Inv' /\ Quiet
<1> SUFFICES ASSUME Inv, Disconnect PROVE Inv' /\ Quiet
  OBVIOUS
<1>1. task \in Tasks /\ task # NoTask
  BY DEF Disconnect, Inv, TypeOK
<1>2. /\ task' \in Tasks /\ task' # NoTask /\ task'.site = task.site
      /\ task'.kind = task.kind /\ task'.id = task.id /\ task'.mode = task.mode
      /\ task'.waiting = task.waiting /\ task'.todo = task.todo
  BY <1>1 DEF Disconnect, Tasks, NoTask
<1>3. faults' \in 0..MaxFaults /\ UNCHANGED <<receipt, worker, unsettled, host>>
  BY MaxFaultsAssumption DEF Disconnect, Fault, Inv, TypeOK
<1>4. TypeOK'
  BY <1>2, <1>3 DEF Inv, TypeOK
<1> QED
  BY <1>1, <1>2, <1>3, <1>4 DEF Inv, ReceiptBeforeEffects, NoOrphanJobs, ExecsFenced,
     PlannedExecsFenced, JobsAccounted, Here, Pending, Quiet

\* A crash of the worker loses the request and leaves jobs, receipts and
\* services as they are.
LEMMA CrashSafe == Inv /\ Crash => Inv' /\ Quiet
BY MaxFaultsAssumption DEF Crash, Fault, Inv, TypeOK, ReceiptBeforeEffects, NoOrphanJobs,
   ExecsFenced, PlannedExecsFenced, JobsAccounted, Pending, Quiet

\* The worker serves requests only after its startup recovery.
LEMMA ServeSafe == Inv /\ Serve => Inv' /\ Quiet
BY DEF Serve, Inv, TypeOK, ReceiptBeforeEffects, NoOrphanJobs, ExecsFenced,
   PlannedExecsFenced, JobsAccounted, Pending, Quiet

\* A starting worker reads the pending receipts its predecessor left.
LEMMA BootSafe == Inv /\ Boot => Inv' /\ Quiet
<1> SUFFICES ASSUME Inv, Boot PROVE Inv' /\ Quiet
  OBVIOUS
<1>1. \A s \in Sites : /\ Kill(host[s], Helpers \cup CliJobs) \in Hosts
                       /\ Kill(host[s], Helpers \cup CliJobs).jobs \subseteq host[s].jobs
  BY KillType DEF Inv, TypeOK
<1>2. /\ host' \in [Sites -> Hosts]
      /\ \A s \in Sites : host'[s].jobs \subseteq host[s].jobs
  BY <1>1 DEF Boot
<1> QED
  BY <1>2 DEF Boot, Inv, TypeOK, ReceiptBeforeEffects, NoOrphanJobs, ExecsFenced,
     PlannedExecsFenced, JobsAccounted, Pending, Quiet

\* The startup recovery fences one pending operation after another.
LEMMA SettleSafe ==
    ASSUME Inv, NEW s \in Sites, Settle(s)
    PROVE  Inv' /\ Quiet
<1>1. CASE Pending(s)
  BY <1>1, RecoverSafe DEF Settle, Pending
<1>2. CASE ~Pending(s)
  BY <1>2 DEF Settle, Inv, TypeOK, ReceiptBeforeEffects, NoOrphanJobs, ExecsFenced,
     PlannedExecsFenced, JobsAccounted, Pending, Quiet
<1> QED
  BY <1>1, <1>2

-----------------------------------------------------------------------------
(* Theorems *)

\* A worker with sites at rest satisfies the invariant.
LEMMA InitSafe == Init => Inv
<1> SUFFICES ASSUME Init PROVE Inv
  OBVIOUS
<1>1. NoHost \in Hosts /\ NoHost.jobs = {}
  BY DEF NoHost, Hosts
<1>2. TypeOK
  BY <1>1, MaxFaultsAssumption DEF Init, TypeOK
<1> QED
  BY <1>1, <1>2 DEF Init, Inv, ReceiptBeforeEffects, NoOrphanJobs, ExecsFenced,
     PlannedExecsFenced, JobsAccounted

\* Nothing else happens to the receipts and the jobs.
Visible == Quiet \/ Starts \/ Opens \/ Closes

\* Every step of the worker keeps the invariant and is one of the abstract
\* specification's steps, or invisible there.
LEMMA NextSafe == Inv /\ [Next]_vars => Inv' /\ Visible
<1> SUFFICES ASSUME Inv, [Next]_vars PROVE Inv' /\ Visible
  OBVIOUS
<1> USE DEF Visible
<1>1. ASSUME NEW req \in Requests, NEW outcome \in Outcomes, Begin(req, outcome)
      PROVE  Inv' /\ Visible
  BY <1>1, BeginSafe
<1>2. ASSUME NEW s \in Sites, Runtime(s)
      PROVE  Inv' /\ Visible
  BY <1>2, RecoverSafe DEF Runtime, Pending
<1>3. ASSUME NEW s \in Sites, NEW b \in Ids, DeleteBackup(s, b)
      PROVE  Inv' /\ Visible
  BY <1>3, DeleteBackupSafe
<1>4. CASE DoStep
  BY <1>4, DoStepSafe
<1>5. ASSUME NEW s \in Sites, NEW j \in Jobs, NEW ok \in BOOLEAN, JobEnds(s, j, ok)
      PROVE  Inv' /\ Visible
  BY <1>5, JobEndsSafe
<1>6. CASE Abandon
  BY <1>6, AbandonSafe
<1>7. ASSUME NEW outcome \in Outcomes, Conclude(outcome)
      PROVE  Inv' /\ Visible
  BY <1>7, ConcludeSafe
<1>8. CASE Disconnect \/ Crash \/ Boot \/ Serve
  BY <1>8, DisconnectSafe, CrashSafe, BootSafe, ServeSafe
<1>9. ASSUME NEW s \in Sites, Settle(s)
      PROVE  Inv' /\ Visible
  BY <1>9, SettleSafe
<1>10. CASE UNCHANGED vars
  BY <1>10 DEF vars, Inv, TypeOK, ReceiptBeforeEffects, NoOrphanJobs, ExecsFenced,
     PlannedExecsFenced, JobsAccounted, Here, Pending, Quiet
<1> QED
  BY <1>1, <1>2, <1>3, <1>4, <1>5, <1>6, <1>7, <1>8, <1>9, <1>10 DEF Next

\* The inductive invariant holds of the worker throughout: jobs, receipts
\* and the operation under way agree with each other, whatever fails or stops.
THEOREM Safety == Spec => []Inv
BY InitSafe, NextSafe, PTL DEF Spec

\* Every reachable state is well typed, whatever fails.
THEOREM TypeCorrect == Spec => []TypeOK
<1>1. Inv => TypeOK
  BY DEF Inv
<1> QED
  BY Safety, <1>1, PTL

\* A job of the Docker daemon runs only under a pending receipt, for any number
\* of sites, crashes, lost connections and failing commands: quiesceSite and the
\* startup recovery never miss one.
THEOREM NoOrphanJobsHolds == Spec => []NoOrphanJobs
<1>1. Inv => NoOrphanJobs
  BY DEF Inv
<1> QED
  BY Safety, <1>1, PTL

\* trackOperation's receipt is on disk, pending, during everything ServeHTTP or
\* a recovery does to a site.
THEOREM ReceiptBeforeEffectsHolds == Spec => []ReceiptBeforeEffects
<1>1. Inv => ReceiptBeforeEffects
  BY DEF Inv
<1> QED
  BY Safety, <1>1, PTL

\* No two jobs of a site are ever at work together, although each outlives the
\* request that started it.
THEOREM OneJobPerSiteHolds == Spec => []OneJobPerSite
<1>1. Init => OneJobPerSite
  BY DEF Init, OneJobPerSite, NoHost
<1>2. Inv /\ OneJobPerSite /\ [Next]_vars => OneJobPerSite'
  <2> SUFFICES ASSUME Inv, OneJobPerSite, [Next]_vars PROVE OneJobPerSite'
    OBVIOUS
  <2>1. CASE Quiet \/ Opens \/ Closes
    BY <2>1 DEF Quiet, Opens, Closes, OneJobPerSite
  <2>2. CASE Starts
    BY <2>2 DEF Starts, OneJobPerSite
  <2> QED
    BY <2>1, <2>2, NextSafe DEF Visible
<1> QED
  BY Safety, <1>1, <1>2, PTL DEF Spec

\* The worker implements FencedOperations: its receipts, read at any moment, are
\* a truthful account of whether anything is still at work on a site.
THEOREM Refinement == Spec => ImplementsFencedOperations
<1> DEFINE open == {s \in Sites : Pending(s)}
           writing == {s \in Sites : host[s].jobs # {}}
<1>1. Init => Fenced!Init
  BY DEF Init, Fenced!Init, Pending, NoReceipt, NoHost
<1>2. Inv /\ [Next]_vars => [Fenced!Next]_(Fenced!vars)
  <2> SUFFICES ASSUME Inv, [Next]_vars PROVE Fenced!Next \/ UNCHANGED Fenced!vars
    BY DEF Fenced!vars
  <2>1. CASE Quiet
    <3>1. open' = open /\ writing' = writing \ (writing \ writing')
      BY <2>1 DEF Quiet, Pending
    <3>2. PICK quiet \in SUBSET Sites : writing' = writing \ quiet
      BY <3>1
    <3> QED
      BY <3>1, <3>2 DEF Fenced!Next, Fenced!Cease
  <2>2. CASE Starts
    <3>1. PICK s \in Sites :
             /\ Pending(s) /\ host[s].jobs = {} /\ \E j \in Jobs : host'[s].jobs = {j}
             /\ \A t \in Sites \ {s} : host'[t] = host[t]
      BY <2>2 DEF Starts
    <3>2. open' = open /\ writing' = writing \cup {s} /\ s \in open \ writing
      BY <2>2, <3>1 DEF Starts, Pending
    <3> QED
      BY <3>2 DEF Fenced!Next, Fenced!Write
  <2>3. CASE Opens
    <3>1. PICK s \in Sites :
             /\ ~Pending(s) /\ host[s].jobs = {} /\ receipt'[s].state = "pending"
             /\ \A t \in Sites \ {s} : receipt'[t] = receipt[t]
      BY <2>3 DEF Opens
    <3>2. open' = open \cup {s} /\ writing' = writing /\ s \notin open \cup writing
      BY <2>3, <3>1 DEF Opens, Pending
    <3> QED
      BY <3>2 DEF Fenced!Next, Fenced!Open
  <2>4. CASE Closes
    <3>1. PICK s \in Sites :
             /\ Pending(s) /\ host[s].jobs = {} /\ receipt'[s].state # "pending"
             /\ \A t \in Sites \ {s} : receipt'[t] = receipt[t]
      BY <2>4 DEF Closes
    <3>2. open' = open \ {s} /\ writing' = writing /\ s \in open \ writing
      BY <2>4, <3>1 DEF Closes, Pending
    <3> QED
      BY <3>2 DEF Fenced!Next, Fenced!Close
  <2> QED
    BY <2>1, <2>2, <2>3, <2>4, NextSafe DEF Visible
<1> QED
  BY Safety, <1>1, <1>2, PTL DEF Spec, ImplementsFencedOperations, Fenced!Spec

-----------------------------------------------------------------------------
(* What operations do to a site's content: half-rewritten content is not     *)
(* served, and a confirmed operation is done.                                *)

\* Half-rewritten content is served only on the administrator's word.
Served(h) == h.svc["wp"] = "running" /\ h.data = "torn" => h.ack

\* What every step leaves of a site: only existing containers lag behind their
\* limits, and WordPress is down while the files or the database are replaced.
Coherent(h) ==
    /\ \A x \in h.stale : h.svc[x] # "absent"
    /\ h.ack => h.data # "none"
    /\ h.jobs \cap {"files", "import"} # {} => h.svc["wp"] # "running"

\* A site with its receipt.  The kinds that can tear content are those quiesceSite
\* answers by stopping WordPress, so the others never serve torn content.
SiteSound(r, h) ==
    /\ Coherent(h)
    /\ h.jobs \cap Rewriting # {} => r.kind \in FencedKinds
    /\ r.state # "pending" \/ r.kind \notin FencedKinds => Served(h)
    /\ r.state = "succeeded" /\ r.kind = "delete" => h = NoHost
    /\ r.state = "succeeded" /\ r.kind = "resources" => h.stale = {}

SitesSound == \A s \in Sites : SiteSound(receipt[s], host[s])

\* Docker holds nothing of the site any more.
Undeployed(h) == (\A x \in Services : h.svc[x] = "absent") /\ h.data = "none"

\* What is left of a handler's plan is one of its ends.
IsEnd(todo, plan) ==
    /\ Len(todo) <= Len(plan)
    /\ \A n \in 1..Len(todo) : todo[n] = plan[Len(plan) - Len(todo) + n]

\* What the steps a handler has behind it have achieved: n steps are ahead of it,
\* and the next one is x.
Achieved(kind, n, x, was, h) ==
    /\ kind # "restore" => Served(h)
    /\ kind = "restore" =>
          /\ n \in 1..4 => h.svc["wp"] # "running"
          /\ n < 2 => h.data # "torn"
    /\ kind = "resources" =>
          /\ was /\ h.data = "torn" => h.ack
          /\ n = 0 => h.stale = {}
    /\ kind = "delete" =>
          /\ n = 3 /\ x = "down" => ~h.route
          /\ n = 3 /\ x = "unroute" => Undeployed(h)
          /\ n < 3 => ~h.route /\ Undeployed(h)
          /\ n < 2 => h.dir = "none"
          /\ n = 0 => h.backups = {}

Ahead(todo) == IF todo = <<>> THEN "end" ELSE Head(todo)

\* A fence that has stopped WordPress, or had no need to.
Quenched(kind, todo, h) ==
    kind \in FencedKinds /\ todo \in {<<"stopdb">>, <<>>} => Served(h)

TaskSound(t, h) ==
    /\ t.mode = "run" => /\ \E g \in Hosts : IsEnd(t.todo, Plan(t.kind, g))
                         /\ Achieved(t.kind, Len(t.todo), Ahead(t.todo), t.was, h)
    /\ t.mode # "run" => Quenched(t.kind, t.todo, h)

ContentInv == SitesSound /\ (task # NoTask => TaskSound(task, Here))

-----------------------------------------------------------------------------
(* Effects on a site at rest *)

\* Removing or stopping containers of a site without jobs cuts nothing short.
LEMMA KillIdle ==
    ASSUME NEW h \in Hosts, NEW js, h.jobs \cap js \cap Rewriting = {}
    PROVE  Kill(h, js) = [h EXCEPT !.jobs = @ \ js]
BY DEF Kill, Hosts

\* A site without jobs stays as it is when containers of jobs are removed.
LEMMA KillNothing ==
    ASSUME NEW h \in Hosts, h.jobs = {}, NEW js
    PROVE  Kill(h, js) = h
BY DEF Kill, Hosts

\* Jobs that are cut short leave torn content only if they were rewriting it.
LEMMA KillCoherent ==
    ASSUME NEW h \in Hosts, Coherent(h), NEW js
    PROVE  /\ Coherent(Kill(h, js))
           /\ Kill(h, js).svc = h.svc
           /\ h.jobs \cap js \cap Rewriting = {} /\ Served(h) => Served(Kill(h, js))
BY DEF Kill, Hosts, Coherent, Served

\* compose up of a site without jobs.
LEMMA UpIdle ==
    ASSUME NEW h \in Hosts, h.jobs = {}, NEW xs, Coherent(h)
    PROVE  /\ Up(h, xs) \in Hosts /\ Coherent(Up(h, xs)) /\ Up(h, xs).jobs = {}
           /\ \A x \in Services : Up(h, xs).svc[x] = IF x \in xs THEN "running" ELSE h.svc[x]
           /\ Up(h, xs).stale = h.stale \ xs
           /\ Up(h, xs).data = IF h.data = "none" THEN "whole" ELSE h.data
           /\ Up(h, xs).ack = h.ack
<1>1. Kill(h, Execs) = h
  BY KillNothing
<1>2. Up(h, xs) =
        [h EXCEPT !.svc = [x \in Services |-> IF x \in xs THEN "running" ELSE h.svc[x]],
                  !.stale = @ \ xs,
                  !.data = IF @ = "none" THEN "whole" ELSE @]
  BY <1>1 DEF Up
<1>3. Up(h, xs) = [svc |-> [x \in Services |-> IF x \in xs THEN "running" ELSE h.svc[x]],
               stale |-> h.stale \ xs, jobs |-> h.jobs,
               data |-> IF h.data = "none" THEN "whole" ELSE h.data, ack |-> h.ack,
               dir |-> h.dir, route |-> h.route, backups |-> h.backups]
  BY <1>2 DEF Hosts
<1>4. h.stale \subseteq Services
  BY DEF Hosts
<1> QED
  BY <1>3, <1>4, UpType, SMTT(20) DEF Coherent

\* compose stop: nothing is started, and only an interrupted import tears content.
LEMMA StopCoherent ==
    ASSUME NEW h \in Hosts, Coherent(h), NEW xs
    PROVE  /\ Stop(h, xs) \in Hosts /\ Coherent(Stop(h, xs))
           /\ \A x \in Services : Stop(h, xs).svc[x] = "running" =>
                                       h.svc[x] = "running" /\ x \notin xs
           /\ Served(h) => Served(Stop(h, xs))
           /\ h.jobs = {} => /\ Stop(h, xs).data = h.data /\ Stop(h, xs).ack = h.ack
                             /\ Stop(h, xs).jobs = {}
<1> DEFINE k == IF "db" \in xs THEN Kill(h, Execs) ELSE h
           svc == [x \in Services |->
                     IF x \in xs /\ h.svc[x] = "running" THEN "stopped" ELSE h.svc[x]]
<1>1. k \in Hosts /\ Coherent(k) /\ k.svc = h.svc
  BY KillType, KillCoherent
<1>2. Stop(h, xs) = [k EXCEPT !.svc = svc]
  BY DEF Stop
<1>3. h.jobs = {} => k = h
  BY KillNothing
<1>4. Served(h) => Served(k)
  <2>1. CASE h.jobs \cap Execs \cap Rewriting = {}
    BY <2>1, KillCoherent
  <2>2. CASE h.jobs \cap Execs \cap Rewriting # {}
    <3>1. "import" \in h.jobs
      BY <2>2 DEF Execs, Rewriting
    <3> QED
      BY <3>1, <1>1 DEF Coherent, Served
  <2> QED
    BY <2>1, <2>2
<1> HIDE DEF k
<1>5. Stop(h, xs) = [svc |-> svc, stale |-> k.stale, jobs |-> k.jobs, data |-> k.data,
                     ack |-> k.ack, dir |-> k.dir, route |-> k.route, backups |-> k.backups]
  BY <1>1, <1>2 DEF Hosts
<1>6. k.stale \subseteq Services
  BY <1>1 DEF Hosts
<1>7. \A x \in Services : /\ h.svc[x] # "absent" => svc[x] # "absent"
                          /\ svc[x] = "running" => h.svc[x] = "running" /\ x \notin xs
  BY DEF Services
<1>8. "wp" \in Services
  BY DEF Services
<1>9. svc \in [Services -> {"absent", "stopped", "running"}]
  BY DEF Hosts
<1> HIDE DEF svc
<1>10. /\ Stop(h, xs).svc = svc /\ Stop(h, xs).stale = k.stale /\ Stop(h, xs).jobs = k.jobs
       /\ Stop(h, xs).data = k.data /\ Stop(h, xs).ack = k.ack
  BY <1>5
<1>11. Coherent(Stop(h, xs))
  BY <1>1, <1>6, <1>7, <1>8, <1>10 DEF Coherent
<1>12. Served(h) => Served(Stop(h, xs))
  BY <1>1, <1>4, <1>7, <1>8, <1>10 DEF Served
<1> QED
  BY <1>3, <1>7, <1>10, <1>11, <1>12, StopType

\* compose down: nothing of the site is left in Docker.
LEMMA DownIdle ==
    ASSUME NEW h \in Hosts, h.jobs = {}
    PROVE  /\ Down(h) \in Hosts /\ Coherent(Down(h)) /\ Served(Down(h))
           /\ Undeployed(Down(h)) /\ Down(h).jobs = {} /\ Down(h).stale = {}
           /\ ~Down(h).ack /\ Down(h).route = h.route
<1>1. Kill(h, Execs) = h
  BY KillNothing
<1>2. Down(h) = [h EXCEPT !.svc = [x \in Services |-> "absent"], !.stale = {},
                          !.data = "none", !.ack = FALSE]
  BY <1>1 DEF Down
<1>3. Down(h) =
         [svc |-> [x \in Services |-> "absent"], stale |-> {}, jobs |-> h.jobs, data |-> "none",
          ack |-> FALSE, dir |-> h.dir, route |-> h.route, backups |-> h.backups]
  BY <1>2 DEF Hosts
<1>4. "wp" \in Services
  BY DEF Services
<1>5. /\ \A x \in Services : Down(h).svc[x] = "absent"
      /\ Down(h).stale = {} /\ Down(h).jobs = {} /\ Down(h).data = "none"
      /\ ~Down(h).ack /\ Down(h).route = h.route
  BY <1>3
<1> QED
  BY <1>4, <1>5, DownType DEF Coherent, Served, Undeployed

\* compose down that fails before it has removed the volumes.
LEMMA DownLeavesVolumes ==
    ASSUME NEW h \in Hosts, h.jobs = {}
    PROVE  LET k == [Down(h) EXCEPT !.data = h.data]
           IN  k \in Hosts /\ Coherent(k) /\ Served(k) /\ k.jobs = {}
<1> DEFINE d == Down(h)
           k == [d EXCEPT !.data = h.data]
<1>1. /\ d \in Hosts /\ d.jobs = {} /\ d.stale = {} /\ ~d.ack
      /\ \A x \in Services : d.svc[x] = "absent"
  BY DownIdle DEF Undeployed
<1>2. "wp" \in Services
  BY DEF Services
<1> HIDE DEF d
<1>3. /\ k \in Hosts /\ k.jobs = d.jobs /\ k.stale = d.stale /\ k.ack = d.ack /\ k.svc = d.svc
  BY <1>1 DEF Hosts
<1> HIDE DEF k
<1>4. Coherent(k) /\ Served(k)
  BY <1>1, <1>2, <1>3 DEF Coherent, Served
<1>5. k \in Hosts /\ Coherent(k) /\ Served(k) /\ k.jobs = {}
  BY <1>1, <1>3, <1>4
<1> QED
  BY <1>5 DEF k, d

\* compose create --force-recreate leaves two stopped, up-to-date services.
LEMMA RecreateIdle ==
    ASSUME NEW h \in Hosts, h.jobs = {}, Coherent(h)
    PROVE  /\ Recreate(h) \in Hosts /\ Coherent(Recreate(h)) /\ Recreate(h).jobs = {}
           /\ Recreate(h).stale = {} /\ Recreate(h).svc["wp"] = "stopped"
           /\ Recreate(h).data = h.data /\ Recreate(h).ack = h.ack
<1>1. Kill(h, Execs) = h
  BY KillNothing
<1>2. Recreate(h) = [h EXCEPT !.svc = [x \in Services |-> "stopped"], !.stale = {}]
  BY <1>1 DEF Recreate
<1>3. Recreate(h) = [svc |-> [x \in Services |-> "stopped"],
               stale |-> {}, jobs |-> h.jobs, data |-> h.data, ack |-> h.ack,
               dir |-> h.dir, route |-> h.route, backups |-> h.backups]
  BY <1>2 DEF Hosts
<1> QED
  BY <1>3, RecreateType DEF Coherent, Services

\* Writing the configuration changes no service and no content.
LEMMA ConfigureCoherent ==
    ASSUME NEW h \in Hosts, Coherent(h)
    PROVE  /\ Configure(h) \in Hosts /\ Coherent(Configure(h)) /\ Configure(h).jobs = h.jobs
           /\ Configure(h).svc = h.svc /\ Configure(h).data = h.data
           /\ Configure(h).ack = h.ack
BY DEF Configure, Hosts, Coherent

-----------------------------------------------------------------------------
(* Where a handler is *)

\* What is left after one more step is still an end of the plan.
LEMMA EndTail ==
    ASSUME NEW todo \in Seq(Steps), todo # <<>>, NEW plan \in Seq(Steps), IsEnd(todo, plan)
    PROVE  IsEnd(Tail(todo), plan)
<1>1. /\ Len(todo) \in Nat /\ Len(plan) \in Nat /\ Len(todo) # 0 /\ Len(Tail(todo)) = Len(todo) - 1
      /\ \A n \in 1..(Len(todo) - 1) : Tail(todo)[n] = todo[n + 1]
  OBVIOUS
<1>2. ASSUME NEW n \in 1..(Len(todo) - 1)
      PROVE  Tail(todo)[n] = plan[Len(plan) - (Len(todo) - 1) + n]
  <2>1. n + 1 \in 1..Len(todo) /\ Len(plan) - Len(todo) + (n + 1) = Len(plan) - (Len(todo) - 1) + n
    BY <1>1
  <2> QED
    BY <1>1, <2>1 DEF IsEnd
<1> QED
  BY <1>1, <1>2 DEF IsEnd

\* A plan is an end of itself.
LEMMA WholePlan ==
    ASSUME NEW plan \in Seq(Steps)
    PROVE  IsEnd(plan, plan)
<1>1. Len(plan) \in Nat
  OBVIOUS
<1>2. \A n \in 1..Len(plan) : Len(plan) - Len(plan) + n = n
  BY <1>1
<1> QED
  BY <1>1, <1>2 DEF IsEnd

\* Where an end of a plan begins is known from its length.
LEMMA EndHead ==
    ASSUME NEW todo \in Seq(Steps), todo # <<>>, NEW plan, Len(plan) \in Nat,
           IsEnd(todo, plan)
    PROVE  \E n \in 1..Len(plan) :
              /\ Len(todo) = n /\ Head(todo) = plan[Len(plan) - n + 1]
              /\ n > 1 => todo[2] = plan[Len(plan) - n + 2]
<1>0. PICK m \in Nat : m = Len(plan)
  OBVIOUS
<1>1. PICK n \in Nat : n = Len(todo)
  OBVIOUS
<1>2. n # 0 /\ n <= m /\ Head(todo) = todo[1]
  BY <1>0, <1>1 DEF IsEnd
<1>3. n \in 1..m /\ 1 \in 1..n /\ (n > 1 => 2 \in 1..n)
  BY <1>2
<1>4. \A i \in 1..n : todo[i] = plan[m - n + i]
  BY <1>0, <1>1 DEF IsEnd
<1>5. todo[1] = plan[m - n + 1] /\ (n > 1 => todo[2] = plan[m - n + 2])
  BY <1>3, <1>4
<1> QED
  BY <1>0, <1>1, <1>2, <1>3, <1>5

\* The steps of a restore, by the number of steps left.
RestorePlace(n, x) ==
    \/ n = 6 /\ x = "verify"
    \/ n = 5 /\ x = "stopwp"
    \/ n = 4 /\ x = "updb"
    \/ n = 3 /\ x = "files"
    \/ n = 2 /\ x = "import"
    \/ n = 1 /\ x = "upwp"

\* The steps of a change of resources.
ResourcesPlace(n, x) ==
    \/ n = 6 /\ x = "inspect"
    \/ n = 5 /\ x = "admit"
    \/ n = 4 /\ x = "closetool"
    \/ n = 3 /\ x = "config"
    \/ n = 2 /\ x = "stop"
    \/ n = 1 /\ x = "recreate"

\* The steps of a deletion, which has two plans; y is the step after the next.
DeletePlace(n, x, y) ==
    \/ n = 5 /\ x = "closetool"
    \/ n = 4 /\ x = "unroute" /\ y = "down"
    \/ n = 3 /\ x = "down"
    \/ n = 4 /\ x = "gone" /\ y = "unroute"
    \/ n = 3 /\ x = "unroute"
    \/ n = 2 /\ x = "rmdir"
    \/ n = 1 /\ x = "rmbackups"

\* The place of a restore in its plan is known from the number of steps left.
LEMMA RestorePlaces ==
    ASSUME NEW todo \in Seq(Steps), todo # <<>>, IsEnd(todo, RestorePlan)
    PROVE  RestorePlace(Len(todo), Head(todo))
<1>1. /\ Len(RestorePlan) = 6
      /\ RestorePlan[1] = "verify" /\ RestorePlan[2] = "stopwp" /\ RestorePlan[3] = "updb"
      /\ RestorePlan[4] = "files" /\ RestorePlan[5] = "import" /\ RestorePlan[6] = "upwp"
  BY DEF RestorePlan
<1>2. Len(RestorePlan) \in Nat
  BY <1>1
<1>3. PICK n \in 1..Len(RestorePlan) :
        /\ Len(todo) = n /\ Head(todo) = RestorePlan[Len(RestorePlan) - n + 1]
        /\ n > 1 => todo[2] = RestorePlan[Len(RestorePlan) - n + 2]
  BY <1>2, EndHead, Zenon
<1>4. n \in 1..6 /\ Len(todo) = n /\ Head(todo) = RestorePlan[6 - n + 1]
  BY <1>1, <1>3
<1> QED
  BY <1>1, <1>4 DEF RestorePlace

\* The same for a change of resources.
LEMMA ResourcesPlaces ==
    ASSUME NEW todo \in Seq(Steps), todo # <<>>, IsEnd(todo, ResourcesPlan)
    PROVE  ResourcesPlace(Len(todo), Head(todo))
<1>1. /\ Len(ResourcesPlan) = 6
      /\ ResourcesPlan[1] = "inspect" /\ ResourcesPlan[2] = "admit" /\ ResourcesPlan[3] = "closetool"
      /\ ResourcesPlan[4] = "config" /\ ResourcesPlan[5] = "stop" /\ ResourcesPlan[6] = "recreate"
  BY DEF ResourcesPlan
<1>2. Len(ResourcesPlan) \in Nat
  BY <1>1
<1>3. PICK n \in 1..Len(ResourcesPlan) :
        /\ Len(todo) = n /\ Head(todo) = ResourcesPlan[Len(ResourcesPlan) - n + 1]
        /\ n > 1 => todo[2] = ResourcesPlan[Len(ResourcesPlan) - n + 2]
  BY <1>2, EndHead, Zenon
<1>4. n \in 1..6 /\ Len(todo) = n /\ Head(todo) = ResourcesPlan[6 - n + 1]
  BY <1>1, <1>3
<1> QED
  BY <1>1, <1>4 DEF ResourcesPlace

\* The same for a deletion, which has two plans.
LEMMA DeletePlaces ==
    ASSUME NEW todo \in Seq(Steps), todo # <<>>, NEW g \in Hosts, IsEnd(todo, DeletePlan(g))
    PROVE  DeletePlace(Len(todo), Head(todo), todo[2])
<1>1. CASE g.dir = "config"
  <2>1. DeletePlan(g) = <<"closetool", "unroute", "down", "rmdir", "rmbackups">>
    BY <1>1 DEF DeletePlan
  <2> DEFINE p == DeletePlan(g)
  <2>2. /\ Len(p) = 5 /\ p[1] = "closetool" /\ p[2] = "unroute" /\ p[3] = "down"
        /\ p[4] = "rmdir" /\ p[5] = "rmbackups"
    BY <2>1
  <2>3. IsEnd(todo, p)
    OBVIOUS
  <2> HIDE DEF p
  <2>4. Len(p) \in Nat
    BY <2>2
  <2>5. PICK n \in 1..Len(p) :
           /\ Len(todo) = n /\ Head(todo) = p[Len(p) - n + 1]
           /\ n > 1 => todo[2] = p[Len(p) - n + 2]
    BY <2>3, <2>4, EndHead, Zenon
  <2>6. /\ n \in 1..5 /\ Len(todo) = n /\ Head(todo) = p[5 - n + 1]
        /\ n > 1 => todo[2] = p[5 - n + 2]
    BY <2>2, <2>5
  <2> QED
    BY <2>2, <2>6 DEF DeletePlace
<1>2. CASE g.dir # "config"
  <2>1. DeletePlan(g) = <<"gone", "unroute", "rmdir", "rmbackups">>
    BY <1>2 DEF DeletePlan
  <2> DEFINE p == DeletePlan(g)
  <2>2. /\ Len(p) = 4 /\ p[1] = "gone" /\ p[2] = "unroute" /\ p[3] = "rmdir"
        /\ p[4] = "rmbackups"
    BY <2>1
  <2>3. IsEnd(todo, p)
    OBVIOUS
  <2> HIDE DEF p
  <2>4. Len(p) \in Nat
    BY <2>2
  <2>5. PICK n \in 1..Len(p) :
           /\ Len(todo) = n /\ Head(todo) = p[Len(p) - n + 1]
           /\ n > 1 => todo[2] = p[Len(p) - n + 2]
    BY <2>3, <2>4, EndHead, Zenon
  <2>6. /\ n \in 1..4 /\ Len(todo) = n /\ Head(todo) = p[4 - n + 1]
        /\ n > 1 => todo[2] = p[4 - n + 2]
    BY <2>2, <2>5
  <2> QED
    BY <2>2, <2>6 DEF DeletePlace
<1> QED
  BY <1>1, <1>2

\* The steps of the other handlers.
PlainSteps == {"admit", "mkdir", "config", "up", "route", "install", "conf", "closetool",
               "stop", "stopwp", "updb", "dump", "archive", "publish", "update"}

\* The other handlers: only an update rewrites content.
LEMMA PlainPlaces ==
    ASSUME NEW kind \in Kinds \ {"restore", "resources", "delete"}, NEW g \in Hosts,
           NEW todo \in Seq(Steps), todo # <<>>, IsEnd(todo, Plan(kind, g))
    PROVE  Head(todo) \in PlainSteps /\ (Head(todo) = "update" => kind = "update")
<1> DEFINE plan == Plan(kind, g)
<1>1. plan \in Seq(Steps)
  BY PlanType
<1>2. PICK n \in 1..Len(plan) : Head(todo) = plan[n]
  <2> HIDE DEF plan
  <2>1. Len(todo) \in 1..Len(plan) /\ Head(todo) = todo[1]
    BY <1>1 DEF IsEnd, plan
  <2>2. Len(plan) - Len(todo) + 1 \in 1..Len(plan)
    BY <1>1, <2>1
  <2>3. Head(todo) = plan[Len(plan) - Len(todo) + 1]
    BY <2>1 DEF IsEnd, plan
  <2> QED
    BY <2>2, <2>3
<1>3. plan[n] \in PlainSteps /\ (plan[n] = "update" => kind = "update")
  BY SMT DEF Plan, Kinds, PlainSteps, CreatePlan, StartPlan, StopPlan, PrepareRestorePlan,
             BackupPlan, UpdatePlan
<1> QED
  BY <1>2, <1>3

\* The four lemmas above for the request under way.
LEMMA Place ==
    ASSUME Inv, ContentInv, task # NoTask, task.mode = "run", task.todo # <<>>
    PROVE  /\ Len(task.todo) \in Nat \ {0}
           /\ Len(Tail(task.todo)) = Len(task.todo) - 1
           /\ Len(task.todo) > 1 => Ahead(Tail(task.todo)) = task.todo[2]
           /\ task.kind = "restore" => RestorePlace(Len(task.todo), Head(task.todo))
           /\ task.kind = "resources" => ResourcesPlace(Len(task.todo), Head(task.todo))
           /\ task.kind = "delete" => DeletePlace(Len(task.todo), Head(task.todo), task.todo[2])
           /\ task.kind \notin {"restore", "resources", "delete"} =>
                 /\ Head(task.todo) \in PlainSteps
                 /\ Head(task.todo) = "update" => task.kind = "update"
<1>1. task.todo \in Seq(Steps) /\ task.kind \in Kinds
  BY DEF Inv, TypeOK, Tasks
<1>2. PICK g \in Hosts : IsEnd(task.todo, Plan(task.kind, g))
  BY DEF ContentInv, TaskSound
<1>3. Len(Tail(task.todo)) = Len(task.todo) - 1 /\ Len(task.todo) \in Nat \ {0}
  BY <1>1
<1>4. Len(task.todo) > 1 => Ahead(Tail(task.todo)) = task.todo[2]
  <2> SUFFICES ASSUME Len(task.todo) > 1 PROVE Ahead(Tail(task.todo)) = task.todo[2]
    OBVIOUS
  <2>1. Tail(task.todo)[1] = task.todo[2]
    BY <1>1
  <2>2. Tail(task.todo) \in Seq(Steps) /\ Tail(task.todo) # <<>>
    BY <1>1, <1>3
  <2>3. Head(Tail(task.todo)) = Tail(task.todo)[1]
    BY <2>2
  <2> QED
    BY <2>1, <2>2, <2>3 DEF Ahead
<1>5. CASE task.kind = "restore"
  <2>1. IsEnd(task.todo, RestorePlan)
    BY <1>2, <1>5 DEF Plan
  <2> QED
    BY <1>1, <1>3, <1>4, <1>5, <2>1, RestorePlaces
<1>6. CASE task.kind = "resources"
  <2>1. IsEnd(task.todo, ResourcesPlan)
    BY <1>2, <1>6 DEF Plan
  <2> QED
    BY <1>1, <1>3, <1>4, <1>6, <2>1, ResourcesPlaces
<1>7. CASE task.kind = "delete"
  <2>1. IsEnd(task.todo, DeletePlan(g))
    BY <1>2, <1>7 DEF Plan
  <2> QED
    BY <1>1, <1>3, <1>4, <1>7, <2>1, DeletePlaces
<1>8. CASE task.kind \notin {"restore", "resources", "delete"}
  BY <1>1, <1>2, <1>3, <1>4, <1>8, PlainPlaces
<1> QED
  BY <1>5, <1>6, <1>7, <1>8

\* quiesceSite has three steps, and no handler is then under way.
LEMMA FenceSteps ==
    ASSUME Inv, task # NoTask, task.mode # "run", task.todo # <<>>
    PROVE  /\ Head(task.todo) \in {"rmjobs", "stopwp", "stopdb"}
           /\ Head(task.todo) = "rmjobs" /\ task.kind \in FencedKinds =>
                 Tail(task.todo) = <<"stopwp", "stopdb">>
           /\ Head(task.todo) = "stopwp" => Tail(task.todo) = <<"stopdb">>
           /\ Head(task.todo) = "stopdb" => task.todo = <<"stopdb">>
<1>1. \/ task.todo = <<"rmjobs", "stopwp", "stopdb">>
      \/ task.todo = <<"rmjobs">> /\ task.kind \notin FencedKinds
      \/ task.todo = <<"stopwp", "stopdb">>
      \/ task.todo = <<"stopdb">>
  BY DEF Inv, JobsAccounted, FencePlan
<1>2. CASE task.todo = <<"rmjobs", "stopwp", "stopdb">>
  BY <1>2
<1>3. CASE task.todo = <<"rmjobs">> /\ task.kind \notin FencedKinds
  BY <1>3
<1>4. CASE task.todo = <<"stopwp", "stopdb">>
  BY <1>4
<1>5. CASE task.todo = <<"stopdb">>
  BY <1>5
<1> QED
  BY <1>1, <1>2, <1>3, <1>4, <1>5

-----------------------------------------------------------------------------
(* Steps of the request under way *)

\* A change to the site of the request leaves the other sites alone.
LEMMA SitesStaySound ==
    ASSUME Inv, SitesSound, NEW s \in Sites, NEW h \in Hosts,
           host' = [host EXCEPT ![s] = h], receipt' = receipt, SiteSound(receipt[s], h)
    PROVE  SitesSound' /\ host'[s] = h
<1>1. host'[s] = h /\ \A t \in Sites \ {s} : host'[t] = host[t]
  BY DEF Inv, TypeOK
<1> QED
  BY <1>1 DEF SitesSound

\* A site with a pending receipt is sound if only its kind can have torn it.
LEMMA PendingSound ==
    ASSUME Inv, ContentInv, task # NoTask, NEW h \in Hosts, Coherent(h),
           h.jobs \subseteq Here.jobs, task.kind \notin FencedKinds => Served(h)
    PROVE  SiteSound(receipt[task.site], h)
<1>1. task.site \in Sites
  BY DEF Inv, TypeOK, Tasks
<1>2. receipt[task.site] = [id |-> task.id, kind |-> task.kind, state |-> "pending"]
  BY DEF Inv, ReceiptBeforeEffects
<1>3. h.jobs \cap Rewriting # {} => task.kind \in FencedKinds
  BY <1>1, <1>2 DEF ContentInv, SitesSound, SiteSound, Here
<1> QED
  BY <1>2, <1>3 DEF SiteSound

\* A request that goes on to its next step.
LEMMA AdvanceContent ==
    ASSUME Inv, ContentInv, task # NoTask, task.todo # <<>>,
           NEW h \in Hosts, Coherent(h), h.jobs \subseteq Here.jobs,
           task.kind \notin FencedKinds => Served(h),
           task.mode = "run" => Achieved(task.kind, Len(task.todo) - 1, Ahead(Tail(task.todo)),
                                       task'.was, h),
           task.mode # "run" => Quenched(task.kind, Tail(task.todo), h),
           Advances(h)
    PROVE  ContentInv'
<1> DEFINE s == task.site
<1>1. s \in Sites /\ task.todo \in Seq(Steps) /\ task.kind \in Kinds
  BY DEF Inv, TypeOK, Tasks
<1>2. /\ host' = [host EXCEPT ![s] = h] /\ receipt' = receipt /\ task'.site = s
      /\ task'.kind = task.kind /\ task'.mode = task.mode /\ task'.todo = Tail(task.todo)
  BY DEF Advances
<1>3. SitesSound' /\ host'[s] = h
  BY <1>1, <1>2, SitesStaySound, PendingSound DEF ContentInv
<1>4. ASSUME task.mode = "run"
      PROVE  \E g \in Hosts : IsEnd(task'.todo, Plan(task'.kind, g))
  <2>1. PICK g \in Hosts : IsEnd(task.todo, Plan(task.kind, g))
    BY <1>4 DEF ContentInv, TaskSound
  <2>2. IsEnd(Tail(task.todo), Plan(task.kind, g))
    BY <1>1, <2>1, EndTail, PlanType
  <2> QED
    BY <1>2, <2>2
<1>5. Len(Tail(task.todo)) = Len(task.todo) - 1
  BY <1>1
<1>6. TaskSound(task', h)
  BY <1>2, <1>4, <1>5 DEF TaskSound
<1> QED
  BY <1>2, <1>3, <1>6 DEF ContentInv, Here

\* A request that fails at a step: a rejected change of resources has changed
\* nothing, everything else is fenced.
LEMMA AbortContent ==
    ASSUME Inv, ContentInv, task # NoTask, task.todo # <<>>,
           NEW h \in Hosts, Coherent(h), h.jobs \subseteq Here.jobs,
           \/ h = Here
           \/ ~Rejected(task) /\ (task.kind \notin FencedKinds => Served(h)),
           Abort(h)
    PROVE  ContentInv'
<1> DEFINE s == task.site
<1>1. s \in Sites /\ task \in Tasks
  BY DEF Inv, TypeOK, Tasks
<1>2. task.kind \notin FencedKinds => Served(h)
  <2>1. receipt[s].kind = task.kind
    BY DEF Inv, ReceiptBeforeEffects
  <2> QED
    BY <1>1, <2>1 DEF ContentInv, SitesSound, SiteSound, Here
<1>3. SitesSound' /\ host'[s] = h
  BY <1>1, <1>2, SitesStaySound, PendingSound DEF ContentInv, Abort
<1>4. CASE task.mode # "run"
  BY <1>3, <1>4 DEF Abort, ContentInv
<1>5. CASE task.mode = "run"
  <2> DEFINE plan == IF Rejected(task) THEN <<>> ELSE FencePlan(task.kind)
  <2>1. task' = [task EXCEPT !.mode = "fence", !.waiting = FALSE, !.todo = plan]
    BY <1>5 DEF Abort
  <2>2. /\ task'.site = s /\ task'.kind = task.kind /\ task'.mode = "fence"
        /\ task'.todo = plan
    BY <1>1, <2>1 DEF Tasks
  <2>3. CASE Rejected(task)
    <3>1. h = Here /\ task.kind = "resources"
      BY <2>3 DEF Rejected
    <3>2. Served(h)
      BY <1>5, <3>1 DEF ContentInv, TaskSound, Achieved
    <3> QED
      BY <1>3, <2>2, <3>2 DEF ContentInv, TaskSound, Quenched, Here
  <2>4. CASE ~Rejected(task)
    <3>1. plan \notin {<<"stopdb">>, <<>>}
      BY <2>4 DEF FencePlan
    <3> HIDE DEF plan
    <3> QED
      BY <1>3, <2>2, <3>1 DEF ContentInv, TaskSound, Quenched, Here
  <2> QED
    BY <2>3, <2>4
<1> QED
  BY <1>4, <1>5

\* A step built by Command, from what it leaves when it succeeds and when it fails.
LEMMA CommandContent ==
    ASSUME Inv, ContentInv, NEW step, NEW possible, NEW after \in Hosts,
           NEW partly \in SUBSET Hosts,
           Coherent(after), after.jobs \subseteq Here.jobs,
           task.kind \notin FencedKinds => Served(after),
           possible /\ task.mode = "run" =>
               Achieved(task.kind, Len(task.todo) - 1, Ahead(Tail(task.todo)), task.was, after),
           possible /\ task.mode # "run" => Quenched(task.kind, Tail(task.todo), after),
           \/ after = Here
           \/ step \notin {"inspect", "admit", "closetool"},
           \A h \in partly : /\ Coherent(h) /\ h.jobs \subseteq Here.jobs
                             /\ step \notin {"inspect", "admit", "closetool"}
                             /\ task.kind \notin FencedKinds => Served(h),
           Command(step, possible, after, partly)
    PROVE  ContentInv'
<1>1. task # NoTask /\ task.todo # <<>> /\ Head(task.todo) = step
  BY DEF Command, At
<1>2. Here \in Hosts /\ Coherent(Here)
  BY <1>1 DEF Here, Inv, TypeOK, Tasks, ContentInv, SitesSound, SiteSound
<1>3. CASE possible /\ Proceed(after)
  <2>1. Advances(after)
    BY <1>1, <1>3, ProceedAdvances
  <2>2. task'.was = task.was
    BY <1>1, <1>3 DEF Proceed, Inv, TypeOK, Tasks
  <2> QED
    BY <1>1, <1>3, <2>1, <2>2, AdvanceContent
<1>4. ASSUME NEW h \in partly \cup {Here, after}, Abort(h)
      PROVE  ContentInv'
  <2>1. h \in Hosts /\ Coherent(h) /\ h.jobs \subseteq Here.jobs
    BY <1>2
  <2>2. \/ h = Here
        \/ ~Rejected(task) /\ (task.kind \notin FencedKinds => Served(h))
    BY <1>1 DEF Rejected
  <2> QED
    BY <1>1, <1>4, <2>1, <2>2, AbortContent
<1> QED
  BY <1>3, <1>4 DEF Command

\* A handler is about to take a step, on a site without jobs.  n steps are left,
\* and y comes next.
Running(step, n, y) ==
    /\ n \in Nat \ {0} /\ task.kind \in Kinds
    /\ task.kind = "restore" => RestorePlace(n, step)
    /\ task.kind = "resources" => ResourcesPlace(n, step)
    /\ task.kind = "delete" => DeletePlace(n, step, y)
    /\ task.kind \notin {"restore", "resources", "delete"} =>
          step \in PlainSteps /\ (step = "update" => task.kind = "update")
    /\ Here \in Hosts /\ Coherent(Here) /\ Here.jobs = {}
    /\ Achieved(task.kind, n, step, task.was, Here)

\* Every step but quiesceSite's own is taken by a handler.
LEMMA RunStep ==
    ASSUME Inv, ContentInv, NEW step, step \notin {"rmjobs", "stopdb"}, At(step),
           step # "stopwp" \/ task.mode = "run"
    PROVE  task.mode = "run" /\ Running(step, Len(task.todo), Ahead(Tail(task.todo)))
<1>1. task # NoTask /\ task.todo # <<>> /\ Head(task.todo) = step /\ ~task.waiting
  BY DEF At
<1>2. task.mode = "run"
  BY <1>1, FenceSteps
<1>3. Here \in Hosts /\ Coherent(Here) /\ task.kind \in Kinds
  BY <1>1 DEF Here, Inv, TypeOK, Tasks, ContentInv, SitesSound, SiteSound
<1>4. Here.jobs = {}
  BY <1>1, <1>2 DEF Inv, JobsAccounted
<1>5. Achieved(task.kind, Len(task.todo), step, task.was, Here)
  BY <1>1, <1>2 DEF ContentInv, TaskSound, Ahead
<1>6. task.kind = "delete" => DeletePlace(Len(task.todo), step, Ahead(Tail(task.todo)))
  BY <1>1, <1>2, Place DEF DeletePlace
<1> QED
  BY <1>1, <1>2, <1>3, <1>4, <1>5, <1>6, Place DEF Running

\* A command of a handler.  What it leaves may depend on its place in the plan.
LEMMA RunCommand ==
    ASSUME Inv, ContentInv, NEW step, NEW possible, NEW after, NEW partly,
           step \notin {"rmjobs", "stopdb"}, step # "stopwp" \/ task.mode = "run",
           ASSUME NEW n, NEW y, Running(step, n, y)
           PROVE  /\ after \in Hosts /\ Coherent(after) /\ after.jobs \subseteq Here.jobs
                  /\ task.kind \notin FencedKinds => Served(after)
                  /\ possible => Achieved(task.kind, n - 1, y, task.was, after)
                  /\ after = Here \/ step \notin {"inspect", "admit", "closetool"}
                  /\ \A h \in partly : /\ h \in Hosts /\ Coherent(h)
                                       /\ h.jobs \subseteq Here.jobs
                                       /\ step \notin {"inspect", "admit", "closetool"}
                                       /\ task.kind \notin FencedKinds => Served(h),
           Command(step, possible, after, partly)
    PROVE  ContentInv'
<1>1. task.mode = "run" /\ Running(step, Len(task.todo), Ahead(Tail(task.todo)))
  BY RunStep DEF Command
<1>2. /\ after \in Hosts /\ Coherent(after) /\ after.jobs \subseteq Here.jobs
      /\ task.kind \notin FencedKinds => Served(after)
      /\ possible => Achieved(task.kind, Len(task.todo) - 1, Ahead(Tail(task.todo)),
                              task.was, after)
      /\ after = Here \/ step \notin {"inspect", "admit", "closetool"}
      /\ \A h \in partly : /\ h \in Hosts /\ Coherent(h)
                           /\ h.jobs \subseteq Here.jobs
                           /\ step \notin {"inspect", "admit", "closetool"}
                           /\ task.kind \notin FencedKinds => Served(h)
  BY <1>1
<1>3. partly \in SUBSET Hosts
  BY <1>2
<1> QED
  BY <1>1, <1>2, <1>3, CommandContent

\* Steps on files leave services, jobs and content alone.
LEMMA SameContent ==
    ASSUME NEW h, NEW k, k.svc = h.svc, k.stale = h.stale, k.jobs = h.jobs,
           k.data = h.data, k.ack = h.ack
    PROVE  /\ Coherent(h) => Coherent(k)
           /\ Served(h) => Served(k)
           /\ Undeployed(h) => Undeployed(k)
BY DEF Coherent, Served, Undeployed

\* Steps that only test something: conf, closetool, verify and gone.
LEMMA TestSteps ==
    ASSUME Inv, ContentInv, Conf \/ CloseTool \/ VerifyBackup \/ CheckGone
    PROVE  ContentInv'
<1> USE DEF Running, RestorePlace, ResourcesPlace, DeletePlace, PlainSteps, Achieved,
            FencedKinds
<1>1. CASE Conf
  <2>1. ASSUME NEW n, NEW y, Running("conf", n, y)
        PROVE  /\ Here \in Hosts /\ Coherent(Here) /\ Achieved(task.kind, n - 1, y, task.was, Here)
               /\ task.kind \notin FencedKinds => Served(Here)
    BY <2>1
  <2> HIDE DEF Running, Achieved, FencedKinds
  <2> QED
    BY <1>1, <2>1, RunCommand DEF Conf
<1>2. CASE CloseTool
  <2>1. ASSUME NEW n, NEW y, Running("closetool", n, y)
        PROVE  /\ Here \in Hosts /\ Coherent(Here) /\ Achieved(task.kind, n - 1, y, task.was, Here)
               /\ task.kind \notin FencedKinds => Served(Here)
    BY <2>1
  <2> HIDE DEF Running, Achieved, FencedKinds
  <2> QED
    BY <1>2, <2>1, RunCommand DEF CloseTool
<1>3. CASE VerifyBackup
  <2>1. ASSUME NEW n, NEW y, Running("verify", n, y)
        PROVE  /\ Here \in Hosts /\ Coherent(Here) /\ Achieved(task.kind, n - 1, y, task.was, Here)
               /\ task.kind \notin FencedKinds => Served(Here)
    BY <2>1
  <2> HIDE DEF Running, Achieved, FencedKinds
  <2> QED
    BY <1>3, <2>1, RunCommand DEF VerifyBackup
<1>4. CASE CheckGone
  <2>1. ASSUME NEW n, NEW y, Running("gone", n, y)
        PROVE  /\ Here \in Hosts /\ Coherent(Here)
               /\ (\A x \in Services : Here.svc[x] = "absent") /\ Here.data = "none" =>
                     Achieved(task.kind, n - 1, y, task.was, Here)
               /\ task.kind \notin FencedKinds => Served(Here)
    BY <2>1 DEF Undeployed
  <2> HIDE DEF Running, Achieved, FencedKinds
  <2> QED
    BY <1>4, <2>1, RunCommand DEF CheckGone
<1> QED
  BY <1>1, <1>2, <1>3, <1>4

\* Steps that change files: mkdir, route, unroute, rmdir, rmbackups and publish.
LEMMA FileStepsContent ==
    ASSUME Inv, ContentInv, MkDir \/ Route \/ Unroute \/ RemoveDir \/ RemoveBackups \/ Publish
    PROVE  ContentInv'
<1> USE DEF RestorePlace, ResourcesPlace, DeletePlace, PlainSteps, FencedKinds
<1>1. CASE MkDir
  <2> DEFINE ok == TRUE
             after == [Here EXCEPT !.dir = IF @ = "none" THEN "bare" ELSE @]
  <2>1. ASSUME NEW n, NEW y, Running("mkdir", n, y)
        PROVE  /\ after \in Hosts /\ Coherent(after) /\ after.jobs \subseteq Here.jobs
               /\ task.kind \notin FencedKinds => Served(after)
               /\ Achieved(task.kind, n - 1, y, task.was, after)
    <3>1. /\ after \in Hosts /\ after.svc = Here.svc /\ after.stale = Here.stale
          /\ after.jobs = Here.jobs /\ after.data = Here.data /\ after.ack = Here.ack
      BY <2>1 DEF Running, Hosts
    <3> HIDE DEF after
    <3>2. Coherent(after) /\ (Served(Here) => Served(after))
      BY <2>1, <3>1, SameContent DEF Running
    <3> QED
      BY <2>1, <3>1, <3>2 DEF Running, Achieved
  <2>2. Command("mkdir", ok, after, {})
    BY <1>1 DEF MkDir
  <2> HIDE DEF ok, after, FencedKinds
  <2> QED
    BY <2>1, <2>2, RunCommand
<1>2. CASE Route
  <2> DEFINE ok == TRUE
             after == [Here EXCEPT !.route = TRUE]
  <2>1. ASSUME NEW n, NEW y, Running("route", n, y)
        PROVE  /\ after \in Hosts /\ Coherent(after) /\ after.jobs \subseteq Here.jobs
               /\ task.kind \notin FencedKinds => Served(after)
               /\ Achieved(task.kind, n - 1, y, task.was, after)
    <3>1. /\ after \in Hosts /\ after.svc = Here.svc /\ after.stale = Here.stale
          /\ after.jobs = Here.jobs /\ after.data = Here.data /\ after.ack = Here.ack
      BY <2>1 DEF Running, Hosts
    <3> HIDE DEF after
    <3>2. Coherent(after) /\ (Served(Here) => Served(after))
      BY <2>1, <3>1, SameContent DEF Running
    <3> QED
      BY <2>1, <3>1, <3>2 DEF Running, Achieved
  <2>2. Command("route", ok, after, {})
    BY <1>2 DEF Route
  <2> HIDE DEF ok, after, FencedKinds
  <2> QED
    BY <2>1, <2>2, RunCommand
<1>3. CASE Publish
  <2> DEFINE after == [Here EXCEPT !.backups = @ \cup {task.id}]
  <2>1. ASSUME NEW n, NEW y, Running("publish", n, y), task.id \in Ids
        PROVE  /\ after \in Hosts /\ Coherent(after) /\ after.jobs \subseteq Here.jobs
               /\ task.kind \notin FencedKinds => Served(after)
               /\ Achieved(task.kind, n - 1, y, task.was, after)
    <3>1. /\ after \in Hosts /\ after.svc = Here.svc /\ after.stale = Here.stale
          /\ after.jobs = Here.jobs /\ after.data = Here.data /\ after.ack = Here.ack
      BY <2>1 DEF Running, Hosts
    <3> HIDE DEF after
    <3>2. Coherent(after) /\ (Served(Here) => Served(after))
      BY <2>1, <3>1, SameContent DEF Running
    <3> QED
      BY <2>1, <3>1, <3>2 DEF Running, Achieved
  <2>2. Command("publish", task.id \notin Here.backups, after, {})
    BY <1>3 DEF Publish
  <2>3. task.id \in Ids
    BY <2>2 DEF Command, At, Inv, TypeOK, Tasks
  <2> HIDE DEF after, FencedKinds
  <2> QED
    BY <2>1, <2>2, <2>3, RunCommand
<1>4. CASE Unroute
  <2> DEFINE ok == TRUE
             after == [Here EXCEPT !.route = FALSE]
  <2>1. ASSUME NEW n, NEW y, Running("unroute", n, y)
        PROVE  /\ after \in Hosts /\ Coherent(after) /\ after.jobs \subseteq Here.jobs
               /\ task.kind \notin FencedKinds => Served(after)
               /\ Achieved(task.kind, n - 1, y, task.was, after)
    <3>1. /\ after \in Hosts /\ after.svc = Here.svc /\ after.stale = Here.stale
          /\ after.jobs = Here.jobs /\ after.data = Here.data /\ after.ack = Here.ack
          /\ ~after.route
      BY <2>1 DEF Running, Hosts
    <3> HIDE DEF after
    <3>2. /\ Coherent(after) /\ (Served(Here) => Served(after))
          /\ Undeployed(Here) => Undeployed(after)
      BY <2>1, <3>1, SameContent DEF Running
    <3> QED
      BY <2>1, <3>1, <3>2 DEF Running, Achieved
  <2>2. Command("unroute", ok, after, {})
    BY <1>4 DEF Unroute
  <2> HIDE DEF ok, after, FencedKinds
  <2> QED
    BY <2>1, <2>2, RunCommand
<1>5. CASE RemoveDir
  <2> DEFINE ok == TRUE
             after == [Here EXCEPT !.dir = "none"]
             left == [Here EXCEPT !.dir = IF @ = "none" THEN @ ELSE "bare"]
  <2>1. ASSUME NEW n, NEW y, Running("rmdir", n, y)
        PROVE  /\ after \in Hosts /\ Coherent(after) /\ after.jobs \subseteq Here.jobs
               /\ task.kind \notin FencedKinds => Served(after)
               /\ Achieved(task.kind, n - 1, y, task.was, after)
               /\ left \in Hosts /\ Coherent(left) /\ left.jobs \subseteq Here.jobs
               /\ task.kind \notin FencedKinds => Served(left)
    <3>1. /\ after \in Hosts /\ after.svc = Here.svc /\ after.stale = Here.stale
          /\ after.jobs = Here.jobs /\ after.data = Here.data /\ after.ack = Here.ack
          /\ after.route = Here.route /\ after.dir = "none"
      BY <2>1 DEF Running, Hosts
    <3>2. /\ left \in Hosts /\ left.svc = Here.svc /\ left.stale = Here.stale
          /\ left.jobs = Here.jobs /\ left.data = Here.data /\ left.ack = Here.ack
      BY <2>1 DEF Running, Hosts
    <3> HIDE DEF after, left
    <3>3. /\ Coherent(after) /\ (Served(Here) => Served(after))
          /\ Undeployed(Here) => Undeployed(after)
      BY <2>1, <3>1, SameContent DEF Running
    <3>4. Coherent(left) /\ (Served(Here) => Served(left))
      BY <2>1, <3>2, SameContent DEF Running
    <3> QED
      BY <2>1, <3>1, <3>2, <3>3, <3>4 DEF Running, Achieved
  <2>2. Command("rmdir", ok, after, {left})
    BY <1>5 DEF RemoveDir
  <2> HIDE DEF ok, after, left, FencedKinds
  <2> QED
    BY <2>1, <2>2, RunCommand
<1>6. CASE RemoveBackups
  <2> DEFINE ok == TRUE
             after == [Here EXCEPT !.backups = {}]
             left(bs) == [Here EXCEPT !.backups = bs]
             lefts == {left(bs) : bs \in SUBSET Here.backups}
  <2>1. ASSUME NEW n, NEW y, Running("rmbackups", n, y)
        PROVE  /\ after \in Hosts /\ Coherent(after) /\ after.jobs \subseteq Here.jobs
               /\ task.kind \notin FencedKinds => Served(after)
               /\ Achieved(task.kind, n - 1, y, task.was, after)
    <3>1. /\ after \in Hosts /\ after.svc = Here.svc /\ after.stale = Here.stale
          /\ after.jobs = Here.jobs /\ after.data = Here.data /\ after.ack = Here.ack
          /\ after.route = Here.route /\ after.dir = Here.dir /\ after.backups = {}
      BY <2>1 DEF Running, Hosts
    <3> HIDE DEF after
    <3>2. /\ Coherent(after) /\ (Served(Here) => Served(after))
          /\ Undeployed(Here) => Undeployed(after)
      BY <2>1, <3>1, SameContent DEF Running
    <3> QED
      BY <2>1, <3>1, <3>2 DEF Running, Achieved
  <2>2. ASSUME NEW n, NEW y, Running("rmbackups", n, y), NEW h \in lefts
        PROVE  /\ h \in Hosts /\ Coherent(h) /\ h.jobs \subseteq Here.jobs
               /\ task.kind \notin FencedKinds => Served(h)
    <3>1. /\ h \in Hosts /\ h.svc = Here.svc /\ h.stale = Here.stale
          /\ h.jobs = Here.jobs /\ h.data = Here.data /\ h.ack = Here.ack
      BY <2>2 DEF Running, Hosts
    <3>2. Coherent(h) /\ (Served(Here) => Served(h))
      BY <2>2, <3>1, SameContent DEF Running
    <3> QED
      BY <2>2, <3>1, <3>2 DEF Running, Achieved
  <2>3. Command("rmbackups", ok, after, lefts)
    BY <1>6 DEF RemoveBackups
  <2> HIDE DEF ok, after, lefts, FencedKinds
  <2> QED
    BY <2>1, <2>2, <2>3, RunCommand
<1> QED
  BY <1>1, <1>2, <1>3, <1>4, <1>5, <1>6

\* Steps that start services: the configuration is written, and compose up or create.
LEMMA UpStepsContent ==
    ASSUME Inv, ContentInv,
           Config \/ ComposeUp \/ UpDb \/ UpWordPress \/ RecreateServices
    PROVE  ContentInv'
<1> USE DEF RestorePlace, ResourcesPlace, DeletePlace, PlainSteps, FencedKinds
<1>0. "wp" \in Services /\ "wp" # "db"
  BY DEF Services
<1>1. CASE Config
  <2> DEFINE ok == TRUE
             after == Configure(Here)
  <2>1. ASSUME NEW n, NEW y, Running("config", n, y)
        PROVE  /\ after \in Hosts /\ Coherent(after) /\ after.jobs \subseteq Here.jobs
               /\ task.kind \notin FencedKinds => Served(after)
               /\ Achieved(task.kind, n - 1, y, task.was, after)
    <3>1. /\ after \in Hosts /\ Coherent(after) /\ after.jobs = Here.jobs
          /\ after.svc = Here.svc /\ after.data = Here.data /\ after.ack = Here.ack
      BY <2>1, ConfigureCoherent DEF Running
    <3> HIDE DEF after
    <3>2. Served(Here) => Served(after)
      BY <3>1 DEF Served
    <3> QED
      BY <2>1, <3>1, <3>2 DEF Running, Achieved
  <2>2. Command("config", ok, after, {})
    BY <1>1 DEF Config
  <2> HIDE DEF ok, after, FencedKinds
  <2> QED
    BY <2>1, <2>2, RunCommand
<1>2. CASE ComposeUp
  <2> DEFINE up(xs) == [Up(Here, xs) EXCEPT !.ack = TRUE]
             after == up(Services)
             left == up({"db"})
  <2>1. ASSUME NEW n, NEW y, Running("up", n, y), NEW xs
        PROVE  /\ up(xs) \in Hosts /\ Coherent(up(xs)) /\ up(xs).jobs \subseteq Here.jobs
               /\ Served(up(xs))
    <3> DEFINE k == Up(Here, xs)
    <3>1. k \in Hosts /\ Coherent(k) /\ k.jobs = {} /\ k.data # "none"
      BY <2>1, UpIdle DEF Running
    <3> HIDE DEF k
    <3>2. /\ up(xs) \in Hosts /\ up(xs).jobs = k.jobs /\ up(xs).ack /\ up(xs).data = k.data
          /\ up(xs).svc = k.svc /\ up(xs).stale = k.stale
      BY <3>1 DEF k, Hosts
    <3> HIDE DEF up
    <3> QED
      BY <3>1, <3>2 DEF Coherent, Served
  <2>2. ASSUME NEW n, NEW y, Running("up", n, y)
        PROVE  /\ after \in Hosts /\ Coherent(after) /\ after.jobs \subseteq Here.jobs
               /\ Served(after) /\ Achieved(task.kind, n - 1, y, task.was, after)
               /\ left \in Hosts /\ Coherent(left) /\ left.jobs \subseteq Here.jobs
               /\ Served(left)
    <3> HIDE DEF up
    <3>1. task.kind \notin {"restore", "resources", "delete"}
      BY <2>2 DEF Running
    <3> QED
      BY <2>1, <2>2, <3>1 DEF Achieved
  <2>3. Command("up", HasConfig, after, {left})
    BY <1>2 DEF ComposeUp
  <2> HIDE DEF up, after, left, FencedKinds
  <2> QED
    BY <2>2, <2>3, RunCommand
<1>3. CASE UpDb
  <2> DEFINE after == Up(Here, {"db"})
  <2>1. ASSUME NEW n, NEW y, Running("updb", n, y)
        PROVE  /\ after \in Hosts /\ Coherent(after) /\ after.jobs \subseteq Here.jobs
               /\ task.kind \notin FencedKinds => Served(after)
               /\ Achieved(task.kind, n - 1, y, task.was, after)
    <3>1. /\ after \in Hosts /\ Coherent(after) /\ after.jobs = {}
          /\ after.svc["wp"] = Here.svc["wp"] /\ after.ack = Here.ack
          /\ after.data = "torn" => Here.data = "torn"
      BY <1>0, <2>1, UpIdle DEF Running
    <3> HIDE DEF after
    <3>2. Served(Here) => Served(after)
      BY <3>1 DEF Served
    <3> QED
      BY <2>1, <3>1, <3>2 DEF Running, Achieved
  <2>2. Command("updb", HasConfig, after, {})
    BY <1>3 DEF UpDb
  <2> HIDE DEF after, FencedKinds
  <2> QED
    BY <2>1, <2>2, RunCommand
<1>4. CASE UpWordPress
  <2> DEFINE after == Up(Here, Services)
             left == Up(Here, {"db"})
  <2>1. ASSUME NEW n, NEW y, Running("upwp", n, y)
        PROVE  /\ after \in Hosts /\ Coherent(after) /\ after.jobs \subseteq Here.jobs
               /\ task.kind \in FencedKinds
               /\ Achieved(task.kind, n - 1, y, task.was, after)
               /\ left \in Hosts /\ Coherent(left) /\ left.jobs \subseteq Here.jobs
    <3>1. /\ after \in Hosts /\ Coherent(after) /\ after.jobs = {}
          /\ after.data = "torn" => Here.data = "torn"
          /\ left \in Hosts /\ Coherent(left) /\ left.jobs = {}
      BY <2>1, UpIdle DEF Running
    <3> HIDE DEF after, left
    <3>2. task.kind = "restore" /\ n = 1
      BY <2>1 DEF Running
    <3> QED
      BY <2>1, <3>1, <3>2 DEF Running, Achieved
  <2>2. Command("upwp", HasConfig, after, {left})
    BY <1>4 DEF UpWordPress
  <2> HIDE DEF after, left, FencedKinds
  <2> QED
    BY <2>1, <2>2, RunCommand
<1>5. CASE RecreateServices
  <2> DEFINE after == IF task.was THEN Up(Here, Services) ELSE Recreate(Here)
             left == Up(Here, {"db"})
             partly == IF task.was THEN {left} ELSE {}
  <2>1. ASSUME NEW n, NEW y, Running("recreate", n, y)
        PROVE  /\ after \in Hosts /\ Coherent(after) /\ after.jobs \subseteq Here.jobs
               /\ task.kind \in FencedKinds
               /\ Achieved(task.kind, n - 1, y, task.was, after)
               /\ left \in Hosts /\ Coherent(left) /\ left.jobs \subseteq Here.jobs
    <3>1. task.kind = "resources" /\ n = 1
      BY <2>1 DEF Running
    <3>2. left \in Hosts /\ Coherent(left) /\ left.jobs = {}
      BY <2>1, UpIdle DEF Running
    <3>3. Here.stale \subseteq Services
      BY <2>1 DEF Running, Hosts
    <3>4. CASE task.was
      <4>1. after = Up(Here, Services)
        BY <3>4
      <4>2. /\ after \in Hosts /\ Coherent(after) /\ after.jobs = {} /\ after.stale = {}
            /\ after.data = "torn" => Here.data = "torn" /\ after.ack = Here.ack
        BY <2>1, <3>3, <4>1, UpIdle DEF Running
      <4> HIDE DEF after, left
      <4>3. Here.data = "torn" => Here.ack
        BY <2>1, <3>1, <3>4 DEF Running, Achieved
      <4>4. Served(after) /\ (after.data = "torn" => after.ack)
        BY <4>2, <4>3 DEF Served
      <4> QED
        BY <3>1, <3>2, <4>2, <4>4 DEF Achieved
    <3>5. CASE ~task.was
      <4>1. after = Recreate(Here)
        BY <3>5
      <4>2. /\ after \in Hosts /\ Coherent(after) /\ after.jobs = {} /\ after.stale = {}
            /\ after.svc["wp"] = "stopped"
        BY <2>1, <4>1, RecreateIdle DEF Running
      <4> HIDE DEF after, left
      <4>3. Served(after)
        BY <4>2 DEF Served
      <4> QED
        BY <3>1, <3>2, <3>5, <4>2, <4>3 DEF Achieved
    <3> QED
      BY <3>4, <3>5
  <2>2. Command("recreate", HasConfig, after, partly)
    BY <1>5 DEF RecreateServices
  <2>3. partly \subseteq {left}
    OBVIOUS
  <2> HIDE DEF after, left, partly, FencedKinds
  <2> QED
    BY <2>1, <2>2, <2>3, RunCommand
<1> QED
  BY <1>1, <1>2, <1>3, <1>4, <1>5

\* Steps that stop services: compose stop and down, and those of quiesceSite.
LEMMA StopStepsContent ==
    ASSUME Inv, ContentInv,
           ComposeStop \/ StopWordPress \/ StopDb \/ RemoveOwnedJobs \/ ComposeDown
    PROVE  ContentInv'
<1> USE DEF RestorePlace, ResourcesPlace, DeletePlace, PlainSteps, FencedKinds
<1>0. "wp" \in Services /\ "wp" # "db"
  BY DEF Services
<1>1. CASE ComposeStop
  <2> DEFINE after == Stop(Here, Services)
             left == Stop(Here, {"wp"})
  <2>1. ASSUME NEW n, NEW y, Running("stop", n, y)
        PROVE  /\ after \in Hosts /\ Coherent(after) /\ after.jobs \subseteq Here.jobs
               /\ task.kind \notin FencedKinds => Served(after)
               /\ Achieved(task.kind, n - 1, y, task.was, after)
               /\ left \in Hosts /\ Coherent(left) /\ left.jobs \subseteq Here.jobs
               /\ task.kind \notin FencedKinds => Served(left)
    <3>1. /\ after \in Hosts /\ Coherent(after) /\ after.jobs = {}
          /\ (Served(Here) => Served(after))
          /\ after.data = Here.data /\ after.ack = Here.ack
      BY <2>1, StopCoherent DEF Running
    <3>2. /\ left \in Hosts /\ Coherent(left) /\ left.jobs = {}
          /\ (Served(Here) => Served(left))
      BY <2>1, StopCoherent DEF Running
    <3> HIDE DEF after, left
    <3> QED
      BY <2>1, <3>1, <3>2 DEF Running, Achieved
  <2>2. Command("stop", HasConfig, after, {left})
    BY <1>1 DEF ComposeStop
  <2> HIDE DEF after, left, FencedKinds
  <2> QED
    BY <2>1, <2>2, RunCommand
<1>2. CASE ComposeDown
  <2> DEFINE after == Down(Here)
             stopped == Stop(Here, Services)
             left == [Down(Here) EXCEPT !.data = Here.data]
  <2>1. ASSUME NEW n, NEW y, Running("down", n, y)
        PROVE  /\ after \in Hosts /\ Coherent(after) /\ after.jobs \subseteq Here.jobs
               /\ Served(after)
               /\ Achieved(task.kind, n - 1, y, task.was, after)
               /\ left \in Hosts /\ Coherent(left) /\ left.jobs \subseteq Here.jobs
               /\ Served(left)
               /\ stopped \in Hosts /\ Coherent(stopped) /\ stopped.jobs \subseteq Here.jobs
               /\ Served(stopped)
    <3>1. /\ after \in Hosts /\ Coherent(after) /\ after.jobs = {} /\ Served(after)
          /\ Undeployed(after) /\ after.route = Here.route
      BY <2>1, DownIdle DEF Running
    <3>2. left \in Hosts /\ Coherent(left) /\ left.jobs = {} /\ Served(left)
      BY <2>1, DownLeavesVolumes DEF Running
    <3>3. /\ stopped \in Hosts /\ Coherent(stopped) /\ stopped.jobs = {}
          /\ Served(Here) => Served(stopped)
      BY <2>1, StopCoherent DEF Running
    <3> HIDE DEF after, left, stopped
    <3>4. task.kind = "delete" /\ n = 3
      BY <2>1 DEF Running
    <3> QED
      BY <2>1, <3>1, <3>2, <3>3, <3>4 DEF Running, Achieved
  <2> DEFINE partly == {stopped, left}
  <2>2. Command("down", HasConfig, after, partly)
    BY <1>2 DEF ComposeDown
  <2> HIDE DEF after, left, stopped
  <2>3. ASSUME NEW n, NEW y, Running("down", n, y), NEW h \in partly
        PROVE  h \in Hosts /\ Coherent(h) /\ h.jobs \subseteq Here.jobs /\ Served(h)
    BY <2>1, <2>3
  <2> HIDE DEF partly, FencedKinds
  <2> QED
    BY <2>1, <2>2, <2>3, RunCommand
<1>3. ASSUME task # NoTask
      PROVE  /\ Here \in Hosts /\ Coherent(Here)
             /\ Here.jobs \cap Rewriting # {} => task.kind \in FencedKinds
             /\ task.kind \notin FencedKinds => Served(Here)
  <2>1. task.site \in Sites /\ receipt[task.site].kind = task.kind
    BY <1>3 DEF Inv, TypeOK, Tasks, ReceiptBeforeEffects
  <2> QED
    BY <2>1 DEF Here, Inv, TypeOK, ContentInv, SitesSound, SiteSound
<1>4. CASE StopWordPress
  <2> DEFINE after == Stop(Here, {"wp"})
             ok == task.mode = "run" => HasConfig
  <2>1. Command("stopwp", ok, after, {})
    BY <1>4 DEF StopWordPress
  <2>2. task # NoTask /\ task.todo # <<>> /\ Head(task.todo) = "stopwp"
    BY <2>1 DEF Command, At
  <2>3. /\ after \in Hosts /\ Coherent(after) /\ after.jobs \subseteq Here.jobs
        /\ (Served(Here) => Served(after)) /\ after.svc["wp"] # "running"
    <3>1. Here \in Hosts /\ Coherent(Here)
      BY <1>3, <2>2
    <3>2. PICK g : g = Here
      OBVIOUS
    <3>3. PICK k : k = Stop(g, {"wp"})
      OBVIOUS
    <3>4. "wp" \in {"wp"} /\ "db" \notin {"wp"}
      OBVIOUS
    <3>5. k \in Hosts /\ k.jobs = g.jobs
      BY <3>1, <3>2, <3>3, <3>4, StopType
    <3>6. Coherent(k) /\ (Served(g) => Served(k)) /\ k.svc["wp"] # "running"
      BY <1>0, <3>1, <3>2, <3>3, <3>4, StopCoherent
    <3> QED
      BY <3>2, <3>3, <3>5, <3>6
  <2>4. Served(after)
    BY <2>3 DEF Served
  <2>5. ASSUME NEW n, NEW y, Running("stopwp", n, y)
        PROVE  Achieved(task.kind, n - 1, y, task.was, after)
    <3> HIDE DEF after
    <3> QED
      BY <2>3, <2>4, <2>5 DEF Running, Achieved
  <2> HIDE DEF ok, after, FencedKinds
  <2>6. CASE task.mode = "run"
    BY <2>1, <2>3, <2>4, <2>5, <2>6, RunCommand
  <2>7. CASE task.mode # "run"
    <3>1. Quenched(task.kind, Tail(task.todo), after)
      BY <2>4 DEF Quenched
    <3> QED
      BY <2>1, <2>3, <2>4, <2>7, <3>1, CommandContent
  <2> QED
    BY <2>6, <2>7
<1>5. CASE StopDb
  <2> DEFINE after == Stop(Here, {"db"})
             ok == TRUE
  <2>1. Command("stopdb", ok, after, {})
    BY <1>5 DEF StopDb
  <2>2. task # NoTask /\ task.todo # <<>> /\ Head(task.todo) = "stopdb"
    BY <2>1 DEF Command, At
  <2>3. /\ after \in Hosts /\ Coherent(after) /\ after.jobs \subseteq Here.jobs
        /\ Served(Here) => Served(after)
    <3>1. after.jobs = Here.jobs \ Execs
      BY <1>3, <2>2, StopType
    <3> QED
      BY <1>3, <2>2, <3>1, StopCoherent
  <2>4. task.mode # "run"
    BY <2>2, Place
  <2>5. Quenched(task.kind, Tail(task.todo), after)
    <3>1. task.todo = <<"stopdb">>
      BY <2>2, <2>4, FenceSteps
    <3>2. task.kind \in FencedKinds => Served(Here)
      BY <2>2, <2>4, <3>1 DEF ContentInv, TaskSound, Quenched
    <3> QED
      BY <2>3, <3>2 DEF Quenched
  <2> HIDE DEF ok, after, FencedKinds
  <2> QED
    BY <1>3, <2>1, <2>2, <2>3, <2>4, <2>5, CommandContent
<1>6. CASE RemoveOwnedJobs
  <2> DEFINE after == Kill(Here, Helpers \cup CliJobs)
             ok == TRUE
  <2>1. Command("rmjobs", ok, after, {})
    BY <1>6 DEF RemoveOwnedJobs
  <2>2. task # NoTask /\ task.todo # <<>> /\ Head(task.todo) = "rmjobs"
    BY <2>1 DEF Command, At
  <2>3. /\ after \in Hosts /\ Coherent(after) /\ after.jobs \subseteq Here.jobs
        /\ task.kind \notin FencedKinds => Served(after)
    BY <1>3, <2>2, KillCoherent, KillType
  <2>4. task.mode # "run"
    BY <2>2, Place
  <2>5. Quenched(task.kind, Tail(task.todo), after)
    BY <2>2, <2>4, FenceSteps DEF Quenched
  <2> HIDE DEF ok, after, FencedKinds
  <2> QED
    BY <1>3, <2>1, <2>2, <2>3, <2>4, <2>5, CommandContent
<1> QED
  BY <1>1, <1>2, <1>4, <1>5, <1>6

\* The admission steps: a site found running may be started again later.
LEMMA AdmissionContent ==
    ASSUME Inv, ContentInv, Admit \/ Inspect
    PROVE  ContentInv'
<1> USE DEF RestorePlace, ResourcesPlace, DeletePlace, PlainSteps
<1>1. CASE Admit
  <2>1. task # NoTask /\ task.todo # <<>> /\ At("admit")
    BY <1>1 DEF Admit, At
  <2> DEFINE n == Len(task.todo)
             y == Ahead(Tail(task.todo))
  <2>2. task.mode = "run" /\ Running("admit", n, y)
    BY <2>1, RunStep
  <2> HIDE DEF n, y
  <2>3. /\ Here \in Hosts /\ Coherent(Here) /\ (task.kind \notin FencedKinds => Served(Here))
        /\ Achieved(task.kind, n - 1, y, task.was, Here)
    BY <2>2 DEF Running, Achieved, FencedKinds
  <2>4. CASE Proceed(Here)
    <3>1. Advances(Here)
      BY <2>1, <2>3, <2>4, ProceedAdvances
    <3>2. task'.was = task.was
      BY <2>1, <2>4 DEF Proceed, Inv, TypeOK, Tasks
    <3> QED
      BY <2>1, <2>2, <2>3, <3>1, <3>2, AdvanceContent DEF n, y
  <2>5. CASE Abort(Here)
    BY <2>1, <2>3, <2>5, AbortContent
  <2> QED
    BY <1>1, <2>4, <2>5 DEF Admit
<1>2. CASE Inspect
  <2>1. task # NoTask /\ task.todo # <<>> /\ At("inspect")
    BY <1>2 DEF Inspect, At
  <2> DEFINE n == Len(task.todo)
             y == Ahead(Tail(task.todo))
             running == RuntimeStatus(Here) = "running"
  <2>2. task.mode = "run" /\ Running("inspect", n, y)
    BY <2>1, RunStep
  <2> HIDE DEF n, y
  <2>3. Here \in Hosts /\ Coherent(Here) /\ Served(Here) /\ task.kind = "resources" /\ n = 6
    BY <2>2 DEF Running, Achieved
  <2>4. CASE Abort(Here)
    BY <2>1, <2>3, <2>4, AbortContent
  <2>5. CASE /\ task' = [task EXCEPT !.todo = Tail(@), !.was = running]
             /\ UNCHANGED <<receipt, worker, unsettled, host>>
    <3>1. task \in Tasks /\ task.todo \in Seq(Steps) /\ ~task.waiting /\ host \in [Sites -> Hosts]
      BY <2>1 DEF At, Inv, TypeOK, Tasks
    <3>2. Tail(task.todo) \in Seq(Steps) /\ running \in BOOLEAN
      BY <2>1, <3>1
    <3>3. running => Here.svc["wp"] = "running"
      BY DEF RuntimeStatus, Services
    <3> HIDE DEF running
    <3>4. Advances(Here) /\ task'.was = running
      BY <2>5, <3>1, <3>2 DEF Advances, Tasks, Here
    <3>5. running /\ Here.data = "torn" => Here.ack
      BY <2>3, <3>3 DEF Served
    <3>6. Achieved(task.kind, n - 1, y, running, Here)
      BY <2>3, <3>5 DEF Achieved
    <3> QED
      BY <2>1, <2>2, <2>3, <3>4, <3>6, AdvanceContent DEF n, y
  <2> QED
    BY <1>2, <2>4, <2>5 DEF Inspect
<1> QED
  BY <1>1, <1>2

\* A restore replaces the files only while WordPress is down.
LEMMA StartJobContent ==
    ASSUME Inv, ContentInv, NEW j \in Jobs, StartJob(j)
    PROVE  ContentInv'
<1> DEFINE s == task.site
           started == Launch(Here, j)
<1>1. task # NoTask /\ task.todo # <<>> /\ At(j) /\ Head(task.todo) = j
  BY DEF StartJob, At
<1>2. task \in Tasks /\ s \in Sites
  BY <1>1 DEF Inv, TypeOK, Tasks
<1> DEFINE n == Len(task.todo)
           y == Ahead(Tail(task.todo))
<1>3. task.mode = "run" /\ Running(j, n, y)
  BY <1>1, RunStep DEF Jobs, Helpers, CliJobs, Execs
<1> HIDE DEF n, y
<1>4. Here \in Hosts /\ Coherent(Here) /\ Here.jobs = {}
  BY <1>3 DEF Running
<1>5. CASE Abort(Here)
  BY <1>1, <1>4, <1>5, AbortContent
<1>6. CASE /\ host' = [host EXCEPT ![s] = started]
           /\ task' = [task EXCEPT !.waiting = TRUE]
           /\ UNCHANGED <<receipt, worker, unsettled, faults>>
  <2>1. /\ started \in Hosts /\ started.jobs = {j} /\ started.svc = Here.svc
        /\ started.stale = Here.stale /\ started.dir = Here.dir
        /\ started.route = Here.route /\ started.backups = Here.backups
        /\ started.data = IF j = "files" THEN "torn" ELSE Here.data
        /\ started.ack = IF j = "files" THEN FALSE ELSE Here.ack
    BY <1>4 DEF Launch, Hosts
  <2> HIDE DEF started
  <2>2. /\ j \in {"files", "import"} => task.kind = "restore" /\ n \in {2, 3}
        /\ j \in Rewriting => task.kind \in FencedKinds
        /\ task.kind = "restore" => j \in {"files", "import"}
        /\ task.kind \notin {"resources", "delete"}
    BY <1>3 DEF Running, RestorePlace, ResourcesPlace, DeletePlace, PlainSteps, Rewriting,
       FencedKinds, Jobs, Helpers, CliJobs, Execs
  <2>3. j \in {"files", "import"} => Here.svc["wp"] # "running"
    BY <1>3, <2>2 DEF Running, Achieved
  <2>4. Coherent(started)
    BY <1>4, <2>1, <2>3 DEF Coherent
  <2>5. task.kind # "restore" => Served(started)
    BY <1>3, <2>1, <2>2 DEF Running, Achieved, Served
  <2>6. Achieved(task.kind, n, j, task.was, started)
    BY <2>1, <2>2, <2>3, <2>5 DEF Achieved
  <2>7. receipt[s] = [id |-> task.id, kind |-> task.kind, state |-> "pending"]
    BY <1>1 DEF Inv, ReceiptBeforeEffects
  <2>8. SiteSound(receipt[s], started)
    BY <2>1, <2>2, <2>4, <2>5, <2>7 DEF SiteSound, FencedKinds
  <2>9. SitesSound' /\ host'[s] = started
    BY <1>2, <1>6, <2>1, <2>8, SitesStaySound DEF ContentInv
  <2>10. /\ task'.site = s /\ task'.kind = task.kind /\ task'.mode = "run"
         /\ task'.todo = task.todo /\ task'.was = task.was
    BY <1>2, <1>3, <1>6 DEF Tasks
  <2>11. \E g \in Hosts : IsEnd(task.todo, Plan(task.kind, g))
    BY <1>1, <1>3 DEF ContentInv, TaskSound
  <2>12. TaskSound(task', started)
    BY <1>1, <2>6, <2>10, <2>11 DEF TaskSound, Ahead, n
  <2> QED
    BY <2>9, <2>10, <2>12 DEF ContentInv, Here
<1> QED
  BY <1>5, <1>6 DEF StartJob

\* Every step of a handler or of quiesceSite.
LEMMA DoStepContent == Inv /\ ContentInv /\ DoStep => ContentInv'
BY TestSteps, FileStepsContent, UpStepsContent, StopStepsContent, AdmissionContent,
   StartJobContent DEF DoStep

-----------------------------------------------------------------------------
(* The other actions *)

\* A job that ends, awaited or not, may leave torn content, but not a served one.
LEMMA JobEndsContent ==
    ASSUME Inv, ContentInv, NEW s \in Sites, NEW j \in Jobs, NEW ok \in BOOLEAN,
           JobEnds(s, j, ok)
    PROVE  ContentInv'
<1> DEFINE h == IF ok THEN [host[s] EXCEPT !.jobs = @ \ {j},
                                           !.data = IF j = "import" THEN "whole" ELSE @]
                      ELSE Kill(host[s], {j})
<1>1. host[s] \in Hosts /\ j \in host[s].jobs /\ Pending(s)
  BY DEF JobEnds, Inv, TypeOK, NoOrphanJobs
<1>2. SiteSound(receipt[s], host[s]) /\ Coherent(host[s])
  BY DEF ContentInv, SitesSound, SiteSound
<1>3. /\ h \in Hosts /\ Coherent(h) /\ h.svc = host[s].svc /\ h.jobs = host[s].jobs \ {j}
      /\ ok => /\ h.data = IF j = "import" THEN "whole" ELSE host[s].data
               /\ h.ack = host[s].ack
      /\ ok \/ j \notin Rewriting => (Served(host[s]) => Served(h))
  <2>1. CASE ok
    <3>1. /\ h \in Hosts /\ h.svc = host[s].svc /\ h.jobs = host[s].jobs \ {j}
          /\ h.data = IF j = "import" THEN "whole" ELSE host[s].data
          /\ h.ack = host[s].ack /\ h.stale = host[s].stale
      BY <1>1, <2>1 DEF Hosts
    <3> HIDE DEF h
    <3> QED
      BY <1>1, <1>2, <2>1, <3>1 DEF Coherent, Served
  <2>2. CASE ~ok
    <3>1. h = Kill(host[s], {j})
      BY <2>2
    <3>2. h \in Hosts /\ h.jobs = host[s].jobs \ {j}
      BY <1>1, <3>1, KillType
    <3>3. j \notin Rewriting => host[s].jobs \cap {j} \cap Rewriting = {}
      OBVIOUS
    <3>4. /\ Coherent(h) /\ h.svc = host[s].svc
          /\ j \notin Rewriting => (Served(host[s]) => Served(h))
      BY <1>1, <1>2, <3>1, <3>3, KillCoherent
    <3> HIDE DEF h
    <3> QED
      BY <2>2, <3>2, <3>4
  <2> QED
    BY <2>1, <2>2
<1>4. j \in Rewriting => receipt[s].kind \in FencedKinds
  BY <1>1, <1>2 DEF SiteSound
<1>5. receipt[s].kind \notin FencedKinds => Served(h)
  BY <1>2, <1>3, <1>4 DEF SiteSound
<1>6. CASE Awaits(s, j)
  <2>1. task # NoTask /\ task.waiting /\ task.site = s /\ Head(task.todo) = j
    BY <1>6 DEF Awaits
  <2>2. task.todo # <<>> /\ Here = host[s] /\ task.mode = "run" /\ receipt[s].kind = task.kind
    BY <2>1 DEF Inv, JobsAccounted, Here, ReceiptBeforeEffects
  <2>3. CASE ok
    <3>1. Proceed(h)
      BY <1>6, <2>3 DEF JobEnds
    <3> DEFINE n == Len(task.todo)
               y == Ahead(Tail(task.todo))
    <3>2. /\ Achieved(task.kind, n, j, task.was, host[s])
          /\ task.kind = "restore" => RestorePlace(n, j)
          /\ task.kind = "resources" => ResourcesPlace(n, j)
          /\ task.kind = "delete" => DeletePlace(n, j, task.todo[2])
          /\ task.kind \notin {"restore", "resources", "delete"} => j \in PlainSteps
      BY <2>1, <2>2, Place DEF ContentInv, TaskSound, Ahead
    <3> HIDE DEF h, n, y
    <3>3. Achieved(task.kind, n - 1, y, task.was, h)
      BY <1>3, <2>3, <3>2 DEF Achieved, RestorePlace, ResourcesPlace, DeletePlace, PlainSteps,
         Jobs, Helpers, CliJobs, Execs
    <3>4. Advances(h)
      BY <1>3, <2>1, <2>2, <3>1, ProceedAdvances
    <3>5. task'.was = task.was
      BY <2>1, <3>1 DEF Proceed, Inv, TypeOK, Tasks
    <3> QED
      BY <1>3, <1>5, <2>1, <2>2, <3>3, <3>4, <3>5, AdvanceContent DEF n, y
  <2>4. CASE ~ok
    <3>1. Abort(h)
      BY <1>6, <2>4 DEF JobEnds
    <3>2. ~Rejected(task)
      BY <2>1 DEF Rejected, Jobs, Helpers, CliJobs, Execs
    <3> HIDE DEF h
    <3> QED
      BY <1>3, <1>5, <2>1, <2>2, <3>1, <3>2, AbortContent
  <2> QED
    BY <2>3, <2>4
<1>7. CASE ~Awaits(s, j)
  <2>1. host' = [host EXCEPT ![s] = h] /\ UNCHANGED <<receipt, worker, task, unsettled>>
    BY <1>7 DEF JobEnds
  <2> HIDE DEF h
  <2>2. SiteSound(receipt[s], h)
    BY <1>1, <1>2, <1>3, <1>5 DEF SiteSound, Pending
  <2>3. SitesSound' /\ host'[s] = h
    BY <1>3, <2>1, <2>2, SitesStaySound DEF ContentInv
  <2>4. CASE task # NoTask /\ task.site = s
    <3>1. task.mode # "run"
      BY <1>1, <1>7, <2>4 DEF Inv, JobsAccounted, Here, Awaits
    <3>2. task.todo # <<>>
      <4>1. Here.jobs # {} /\ JobsAccounted
        BY <1>1, <2>4 DEF Inv, Here
      <4>2. \/ task.todo = FencePlan(task.kind)
            \/ task.todo \in {<<"stopwp", "stopdb">>, <<"stopdb">>}
        BY <2>4, <3>1, <4>1 DEF JobsAccounted
      <4>3. FencePlan(task.kind) # <<>>
        <5>1. <<"rmjobs", "stopwp", "stopdb">> # <<>> /\ <<"rmjobs">> # <<>>
          OBVIOUS
        <5> QED
          BY <5>1 DEF FencePlan
      <4>4. <<"stopwp", "stopdb">> # <<>> /\ <<"stopdb">> # <<>>
        OBVIOUS
      <4> QED
        BY <4>2, <4>3, <4>4
    <3>3. ASSUME task.todo = <<"stopdb">>, task.kind \in FencedKinds
          PROVE  Served(h)
      <4>1. j \in Execs
        BY <1>1, <2>4, <3>1, <3>3 DEF Inv, JobsAccounted, Here, FencePlan
      <4>2. Served(host[s])
        BY <2>4, <3>1, <3>3 DEF ContentInv, TaskSound, Quenched, Here
      <4>3. CASE j \in Rewriting
        <5>1. j = "import"
          BY <4>1, <4>3 DEF Execs, Rewriting
        <5> QED
          BY <1>1, <1>2, <1>3, <5>1 DEF Coherent, Served
      <4> QED
        BY <1>3, <4>2, <4>3
    <3>4. Quenched(task.kind, task.todo, h)
      BY <3>2, <3>3 DEF Quenched
    <3> QED
      BY <2>1, <2>3, <2>4, <3>1, <3>4 DEF ContentInv, TaskSound, Here
  <2>5. CASE task = NoTask
    BY <2>1, <2>3, <2>5 DEF ContentInv
  <2>6. CASE task # NoTask /\ task.site # s
    <3>1. task.site \in Sites
      BY <2>6 DEF Inv, TypeOK, Tasks
    <3>2. host'[task.site] = host[task.site]
      BY <2>1, <2>6, <3>1 DEF Inv, TypeOK
    <3> QED
      BY <2>1, <2>3, <3>2 DEF ContentInv, Here
  <2> QED
    BY <2>4, <2>5, <2>6
<1> QED
  BY <1>6, <1>7

\* A request abandoned during a job is fenced like any other that failed.
LEMMA AbandonContent == Inv /\ ContentInv /\ Abandon => ContentInv'
<1> SUFFICES ASSUME Inv, ContentInv, Abandon PROVE ContentInv'
  OBVIOUS
<1>1. task # NoTask /\ task.todo # <<>> /\ Abort(Here)
  BY DEF Abandon, Inv, JobsAccounted
<1>2. Here \in Hosts /\ Coherent(Here)
  BY <1>1 DEF Here, Inv, TypeOK, Tasks, ContentInv, SitesSound, SiteSound
<1> QED
  BY <1>1, <1>2, AbortContent

\* An operation begins on a site whose content is whole, stopped or acknowledged.
LEMMA BeginContent ==
    ASSUME Inv, ContentInv, NEW req \in Requests, NEW outcome \in Outcomes,
           Begin(req, outcome)
    PROVE  ContentInv'
<1> DEFINE s == req.site
           r == [id |-> req.id, kind |-> req.kind, state |-> "pending"]
           h == host[s]
           plan == Plan(req.kind, h)
<1>1. s \in Sites /\ req.id \in Ids /\ req.kind \in Kinds
  BY ClientKindsAssumption DEF Requests
<1>2. r \in Receipts
  BY <1>1 DEF Receipts
<1>3. /\ receipt'[s] = IF outcome = "lost" THEN receipt[s] ELSE r
      /\ \A t \in Sites \ {s} : receipt'[t] = receipt[t]
  BY <1>1, <1>2, SaveReceiptType DEF Begin, Inv
<1>4. host' = host /\ h \in Hosts
  BY <1>1 DEF Begin, Inv, TypeOK
<1>5. ~Pending(s) /\ h.jobs = {}
  BY <1>1 DEF Begin, Admissible, Inv, NoOrphanJobs, Pending
<1>6. Coherent(h) /\ Served(h)
  BY <1>1, <1>5 DEF ContentInv, SitesSound, SiteSound, Pending
<1>7. SiteSound(r, h)
  BY <1>5, <1>6 DEF SiteSound
<1>8. SitesSound'
  BY <1>3, <1>4, <1>7 DEF ContentInv, SitesSound
<1>9. CASE outcome # "synced"
  BY <1>8, <1>9 DEF Begin, ContentInv
<1>10. CASE outcome = "synced"
  <2>1. task' = [site |-> s, id |-> req.id, kind |-> req.kind, from |-> req.from,
                 safety |-> req.safety, mode |-> "run", todo |-> plan,
                 waiting |-> FALSE, live |-> TRUE, was |-> FALSE]
    BY <1>10 DEF Begin, StartedTask
  <2>2. plan \in Seq(Steps) /\ IsEnd(plan, plan)
    BY <1>1, <1>4, PlanType, WholePlan
  <2>3. /\ req.kind = "restore" => Len(plan) = 6
        /\ req.kind = "resources" => Len(plan) = 6
        /\ req.kind = "delete" => Len(plan) \in {4, 5}
    BY DEF Plan, RestorePlan, ResourcesPlan, DeletePlan
  <2>4. \E g \in Hosts : IsEnd(plan, Plan(req.kind, g))
    BY <1>4, <2>2
  <2> DEFINE n == Len(plan)
             x == Ahead(plan)
  <2>5. Achieved(req.kind, n, x, FALSE, h)
    <3>1. /\ req.kind = "restore" => n = 6
          /\ req.kind = "resources" => n = 6
          /\ req.kind = "delete" => n \in {4, 5}
      BY <2>3
    <3> HIDE DEF n, x, h
    <3> QED
      BY <1>6, <3>1 DEF Achieved
  <2>6. /\ task'.site = s /\ task'.kind = req.kind /\ task'.mode = "run"
        /\ task'.todo = plan /\ task'.was = FALSE
    BY <2>1
  <2> HIDE DEF plan
  <2>7. TaskSound(task', h)
    BY <2>4, <2>5, <2>6 DEF TaskSound, plan
  <2> QED
    BY <1>4, <1>8, <2>6, <2>7 DEF ContentInv, Here
<1> QED
  BY <1>9, <1>10

\* The recovery of a pending receipt starts with the removal of jobs.
LEMMA RecoverContent ==
    ASSUME Inv, ContentInv, NEW s \in Sites, Pending(s), NEW mode \in {"recover", "startup"},
           task' = Recovery(s, mode), UNCHANGED <<receipt, host>>
    PROVE  ContentInv'
<1>1. task'.todo = FencePlan(task'.kind) /\ task'.mode # "run"
  BY RecoveryType DEF Inv
<1>2. task'.todo \notin {<<"stopdb">>, <<>>}
  BY <1>1 DEF FencePlan
<1>3. SitesSound'
  BY DEF ContentInv, SitesSound
<1> QED
  BY <1>1, <1>2, <1>3 DEF ContentInv, TaskSound, Quenched

\* What a final receipt says of the site is so when it is saved.
LEMMA ConcludeContent ==
    ASSUME Inv, ContentInv, NEW outcome \in Outcomes, Conclude(outcome)
    PROVE  ContentInv'
<1> DEFINE s == task.site
           r == [id |-> task.id, kind |-> task.kind, state |-> Verdict(task.mode)]
           h == host[s]
<1>1. task # NoTask /\ task.todo = <<>> /\ task \in Tasks /\ s \in Sites /\ h \in Hosts
  BY DEF Conclude, Inv, TypeOK, Tasks
<1>2. /\ Verdict(task.mode) \in {"succeeded", "failed", "interrupted"}
      /\ Verdict(task.mode) = "succeeded" => task.mode = "run"
  BY <1>1 DEF Verdict, Tasks
<1>3. r \in Receipts
  BY <1>1, <1>2 DEF Receipts, Tasks
<1>4. /\ receipt'[s] = IF outcome = "lost" THEN receipt[s] ELSE r
      /\ \A t \in Sites \ {s} : receipt'[t] = receipt[t]
  BY <1>1, <1>3, SaveReceiptType DEF Conclude, Inv
<1>5. host' = host /\ task' = NoTask
  BY DEF Conclude
<1>6. h.jobs = {} /\ Coherent(h)
  BY <1>1 DEF Inv, JobsAccounted, FencePlan, Here, ContentInv, SitesSound, SiteSound
<1>7. task.mode = "run" => Achieved(task.kind, 0, "end", task.was, h)
  BY <1>1 DEF ContentInv, TaskSound, Ahead, Here
<1>8. Served(h)
  <2>1. CASE task.mode = "run"
    BY <1>7, <2>1 DEF Achieved, Served
  <2>2. CASE task.mode # "run" /\ task.kind \in FencedKinds
    BY <1>1, <2>2 DEF ContentInv, TaskSound, Quenched, Here
  <2>3. CASE task.kind \notin FencedKinds
    BY <1>1, <2>3 DEF Inv, ReceiptBeforeEffects, ContentInv, SitesSound, SiteSound
  <2> QED
    BY <2>1, <2>2, <2>3
<1>9. ASSUME task.mode = "run", task.kind = "delete"
      PROVE  h = NoHost
  <2>1. ~h.route /\ Undeployed(h) /\ h.dir = "none" /\ h.backups = {}
    BY <1>7, <1>9 DEF Achieved
  <2>2. h.stale = {}
    <3>1. h.stale \subseteq Services
      BY <1>1 DEF Hosts
    <3> QED
      BY <1>6, <2>1, <3>1 DEF Coherent, Undeployed
  <2>3. h.ack = FALSE /\ h.route = FALSE /\ h.data = "none"
    BY <1>1, <1>6, <2>1 DEF Coherent, Undeployed, Hosts
  <2>4. h.svc = [x \in Services |-> "absent"]
    BY <1>1, <2>1 DEF Undeployed, Hosts
  <2> HIDE DEF h
  <2>5. h = [svc |-> h.svc, stale |-> h.stale, jobs |-> h.jobs, data |-> h.data,
             ack |-> h.ack, dir |-> h.dir, route |-> h.route, backups |-> h.backups]
    BY <1>1 DEF Hosts
  <2> QED
    BY <1>6, <2>1, <2>2, <2>3, <2>4, <2>5 DEF NoHost
<1>10. task.mode = "run" /\ task.kind = "resources" => h.stale = {}
  BY <1>7 DEF Achieved
<1>11. SiteSound(r, h)
  BY <1>2, <1>6, <1>8, <1>9, <1>10 DEF SiteSound
<1>12. SitesSound'
  BY <1>4, <1>5, <1>11 DEF ContentInv, SitesSound
<1> QED
  BY <1>5, <1>12 DEF ContentInv

\* A deleted site has no backup left to delete.
LEMMA DeleteBackupContent ==
    ASSUME Inv, ContentInv, NEW s \in Sites, NEW b \in Ids, DeleteBackup(s, b)
    PROVE  ContentInv'
<1> DEFINE h == [host[s] EXCEPT !.backups = @ \ {b}]
<1>1. /\ host[s] \in Hosts /\ host' = [host EXCEPT ![s] = h] /\ task' = NoTask
      /\ receipt' = receipt /\ b \in host[s].backups
  BY DEF DeleteBackup, Free, Inv, TypeOK
<1>2. /\ h \in Hosts /\ h.svc = host[s].svc /\ h.stale = host[s].stale
      /\ h.jobs = host[s].jobs /\ h.data = host[s].data /\ h.ack = host[s].ack
  BY <1>1 DEF Hosts
<1> HIDE DEF h
<1>3. SiteSound(receipt[s], host[s])
  BY DEF ContentInv, SitesSound
<1>4. host[s] # NoHost
  BY <1>1 DEF NoHost
<1>5. SiteSound(receipt[s], h)
  <2>1. Coherent(h) /\ (Served(host[s]) => Served(h))
    BY <1>2, <1>3, SameContent DEF SiteSound
  <2> QED
    BY <1>2, <1>3, <1>4, <2>1 DEF SiteSound
<1>6. SitesSound'
  BY <1>1, <1>2, <1>5, SitesStaySound DEF ContentInv
<1> QED
  BY <1>1, <1>6 DEF ContentInv

\* Losing the connection changes neither the site nor the plan.
LEMMA DisconnectContent == Inv /\ ContentInv /\ Disconnect => ContentInv'
<1> SUFFICES ASSUME Inv, ContentInv, Disconnect PROVE ContentInv'
  OBVIOUS
<1>1. task \in Tasks /\ task # NoTask /\ receipt' = receipt /\ host' = host
  BY DEF Disconnect, Inv, TypeOK
<1>2. /\ task'.site = task.site /\ task'.kind = task.kind /\ task'.mode = task.mode
      /\ task'.todo = task.todo /\ task'.was = task.was
  BY <1>1 DEF Disconnect, Tasks
<1> QED
  BY <1>1, <1>2 DEF ContentInv, SitesSound, TaskSound, Here

\* The removal of every site's containers at startup touches no settled site.
LEMMA BootContent == Inv /\ ContentInv /\ Boot => ContentInv'
<1> SUFFICES ASSUME Inv, ContentInv, Boot PROVE ContentInv'
  OBVIOUS
<1> DEFINE js == Helpers \cup CliJobs
<1>1. host' = [s \in Sites |-> Kill(host[s], js)] /\ receipt' = receipt /\ task' = NoTask
  BY DEF Boot
<1> HIDE DEF js
<1>2. ASSUME NEW s \in Sites
      PROVE  SiteSound(receipt[s], Kill(host[s], js))
  <2>1. host[s] \in Hosts /\ SiteSound(receipt[s], host[s])
    BY DEF Inv, TypeOK, ContentInv, SitesSound
  <2>2. CASE ~Pending(s)
    <3>1. host[s].jobs = {}
      BY <2>2 DEF Inv, NoOrphanJobs
    <3>2. Kill(host[s], js) = host[s]
      BY <2>1, <3>1, KillNothing
    <3> QED
      BY <2>1, <3>2
  <2>3. CASE Pending(s)
    <3> DEFINE k == Kill(host[s], js)
    <3>1. k.jobs \subseteq host[s].jobs
      BY <2>1, KillType
    <3>2. /\ Coherent(k)
          /\ host[s].jobs \cap js \cap Rewriting = {} /\ Served(host[s]) => Served(k)
      BY <2>1, KillCoherent DEF SiteSound
    <3> HIDE DEF k
    <3>3. SiteSound(receipt[s], k)
      BY <2>1, <2>3, <3>1, <3>2 DEF SiteSound, Pending
    <3> QED
      BY <3>3 DEF k
  <2> QED
    BY <2>2, <2>3
<1> QED
  BY <1>1, <1>2 DEF ContentInv, SitesSound

-----------------------------------------------------------------------------
(* Theorems *)

\* Sites that do not exist yet are sound.
LEMMA InitContent == Init => ContentInv
<1> SUFFICES ASSUME Init PROVE ContentInv
  OBVIOUS
<1>1. /\ NoHost.stale = {} /\ ~NoHost.ack /\ NoHost.jobs = {} /\ NoHost.data = "none"
  BY DEF NoHost
<1>2. SiteSound(NoReceipt, NoHost)
  BY <1>1 DEF SiteSound, Coherent, Served, NoReceipt
<1> QED
  BY <1>2 DEF Init, ContentInv, SitesSound

\* Every step of the worker keeps what is known of the sites' content.
LEMMA NextContent == Inv /\ ContentInv /\ [Next]_vars => ContentInv'
<1> SUFFICES ASSUME Inv, ContentInv, [Next]_vars PROVE ContentInv'
  OBVIOUS
<1>1. ASSUME NEW req \in Requests, NEW outcome \in Outcomes, Begin(req, outcome)
      PROVE  ContentInv'
  BY <1>1, BeginContent
<1>2. ASSUME NEW s \in Sites, Runtime(s)
      PROVE  ContentInv'
  BY <1>2, RecoverContent DEF Runtime, Pending
<1>3. ASSUME NEW s \in Sites, NEW b \in Ids, DeleteBackup(s, b)
      PROVE  ContentInv'
  BY <1>3, DeleteBackupContent
<1>4. CASE DoStep
  BY <1>4, DoStepContent
<1>5. ASSUME NEW s \in Sites, NEW j \in Jobs, NEW ok \in BOOLEAN, JobEnds(s, j, ok)
      PROVE  ContentInv'
  BY <1>5, JobEndsContent
<1>6. CASE Abandon
  BY <1>6, AbandonContent
<1>7. ASSUME NEW outcome \in Outcomes, Conclude(outcome)
      PROVE  ContentInv'
  BY <1>7, ConcludeContent
<1>8. CASE Disconnect \/ Boot
  BY <1>8, DisconnectContent, BootContent
<1>9. CASE Crash \/ Serve
  BY <1>9 DEF Crash, Serve, ContentInv, SitesSound
<1>10. ASSUME NEW s \in Sites, Settle(s)
       PROVE  ContentInv'
  <2>1. CASE Pending(s)
    BY <1>10, <2>1, RecoverContent DEF Settle, Pending
  <2>2. CASE ~Pending(s)
    BY <1>10, <2>2 DEF Settle, Pending, ContentInv, SitesSound
  <2> QED
    BY <2>1, <2>2
<1>11. CASE UNCHANGED vars
  BY <1>11 DEF vars, ContentInv, SitesSound, Here
<1> QED
  BY <1>1, <1>2, <1>3, <1>4, <1>5, <1>6, <1>7, <1>8, <1>9, <1>10, <1>11 DEF Next

\* What the worker knows of every site's content holds throughout.
THEOREM ContentSafety == Spec => []ContentInv
BY Safety, InitContent, NextContent, PTL DEF Spec

\* Content that a restore or an update is rewriting, or left half rewritten, is not
\* served: quiesceSite stops WordPress before a failure becomes final, and only an
\* administrator's start brings the site back, whatever failed, crashed or was lost.
THEOREM TornNotServedHolds == Spec => []TornNotServed
<1>1. ContentInv => TornNotServed
  BY DEF ContentInv, SitesSound, SiteSound, Coherent, Served, TornNotServed, Pending
<1> QED
  BY ContentSafety, <1>1, PTL

\* A "succeeded" receipt of a deletion means that nothing of the site is left, and
\* that of a change of resources that both services run under the new limits.
THEOREM ConfirmedIsDoneHolds == Spec => []ConfirmedIsDone
<1>1. ContentInv => ConfirmedIsDone
  BY DEF ContentInv, SitesSound, SiteSound, ConfirmedIsDone
<1> QED
  BY ContentSafety, <1>1, PTL
=============================================================================
