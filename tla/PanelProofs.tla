---------------------------- MODULE PanelProofs ----------------------------
(***************************************************************************)
(* The panel and the worker together: proofs that the panel's record of an *)
(* operation and the worker's receipt agree, and that the status it shows  *)
(* is so, and that the panel's list of a site's backups and the archives   *)
(* on its host agree as far as the operations that rest on them need, for  *)
(* every set of sites, of operation IDs and of requests, and any number of *)
(* faults, lost messages and restarts of either process.                   *)
(***************************************************************************)
EXTENDS Panel, WorkerProofs, WellFoundedInduction

-----------------------------------------------------------------------------
(* The inductive invariant *)

\* What is left of a handler at each of its steps.
Todos(act) ==
    CASE act \in {"create", "retry"} ->
            {<<"save", "create", "save">>, <<"create", "save">>, <<"save">>}
      [] act = "start" -> {<<"start", "save">>, <<"save">>}
      [] act = "stop" -> {<<"stop", "save">>, <<"save">>}
      [] act = "delete" ->
            {<<"save", "delete", "erase">>, <<"delete", "erase">>, <<"erase">>, <<"save">>}
      [] act = "backup" -> {<<"manual-backup", "save">>, <<"save">>}
      [] act = "scheduled" ->
            {<<"scheduled-backup", "save", "prune">>, <<"save", "prune">>, <<"prune">>,
             <<"discard", "save", "prune">>}
      [] act = "update" ->
            {<<"safety-backup", "save", "update", "save">>, <<"save", "update", "save">>,
             <<"update", "save">>, <<"save">>}
      [] act = "restore" ->
            {<<"restore-prepare", "safety-backup", "save", "restore", "save">>,
             <<"safety-backup", "save", "restore", "save">>, <<"save", "restore", "save">>,
             <<"restore", "save">>, <<"save">>}
      [] act = "resources" -> {<<"resources", "save">>, <<"save">>}
      [] act = "backup-delete" -> {<<"discard", "save">>, <<"save">>}
      [] OTHER -> {}

\* A record of a site, whatever its list of backups.
IsRecord(r) ==
    /\ r = [status |-> r.status, op |-> r.op, backups |-> r.backups, health |-> r.health]
    /\ r.status \in Statuses /\ r.op \in Markers \cup {NoMarker}

\* The receipt of an operation that succeeded.
SucceededReceipt(op) ==
    [id |-> op.id, kind |-> WorkerKind(op.kind), state |-> "succeeded"]

\* The record of a site in sites.json and its receipt.
SiteAgrees(s) ==
    /\ store[s] \notin {Unborn, Erased} => IsRecord(store[s]) /\ store[s].op.id \in issued \cup {"none"}
    /\ receipt[s].id \in issued \cup {"none"}
    /\ Pending(s) => Known(s) /\ Busy(store[s]) /\ store[s].op.id = receipt[s].id
    /\ Known(s) /\ store[s].op.state = "succeeded" => receipt[s] = SucceededReceipt(store[s].op)
    /\ Known(s) /\ Busy(store[s]) /\ store[s].op.id = receipt[s].id =>
          receipt[s].kind = WorkerKind(store[s].op.kind)
    /\ store[s] = Erased => host[s] = NoHost

\* The handler's copy while nothing of the handler is at the worker.
CopyAgrees(h) ==
    /\ h.mem.op.state = "pending" =>
          /\ h.todo = <<"save">>
          /\ \/ ~Pending(h.site) /\ receipt[h.site].id # h.mem.op.id
             \/ Known(h.site) /\ store[h.site].op = h.mem.op
    /\ h.mem.op.state # "pending" => ~Pending(h.site)
    /\ h.mem.op.state = "succeeded" => receipt[h.site] = SucceededReceipt(h.mem.op)

HandlerSound ==
    handler # NoHandler =>
        /\ handler = [act |-> handler.act, site |-> handler.site, mem |-> handler.mem,
                      from |-> handler.from, safety |-> handler.safety, todo |-> handler.todo]
        /\ handler.site \in Sites /\ IsRecord(handler.mem)
        /\ handler.mem.op.id \in issued \cup {"none"}
        /\ handler.safety \in Ids \cup {"none"}
        /\ handler.act # "scheduled" => handler.from \in Ids \cup {"none"}
        /\ handler.todo = <<"scheduled-backup", "save", "prune">> => handler.from \in Ids \cup {"none"}
        /\ handler.todo \in Todos(handler.act)
        /\ store[handler.site] # Erased
        /\ store[handler.site] = Unborn => /\ handler.todo = <<"save", "create", "save">>
                                           /\ call = NoCall
        /\ handler.todo = <<"erase">> =>
              handler.mem.op.kind = "delete" /\ handler.mem.op.state = "succeeded"
        /\ call = NoCall \/ call.path # "tracked" => CopyAgrees(handler)

\* The call is the handler's or the sweep's, and what each phase of it means.
CallSound ==
    call # NoCall =>
        /\ call \in Calls \cup RuntimeReplies
        /\ call.path # "runtime" => handler # NoHandler /\ call.site = handler.site
        /\ call.path = "runtime" => call.site \in sweep
        /\ call.path = "discard" =>
              call.phase \in {"sent", "ok", "error"} /\ Head(handler.todo) = "discard"
        /\ call.phase = "busy" => call.path = "runtime"
        /\ call.path = "tracked" =>
              /\ Head(handler.todo) \in PanelKinds
              /\ handler.mem.op.state = "pending" /\ handler.mem.op.kind = Head(handler.todo)
              /\ store[call.site] = handler.mem
              /\ call.phase = "sent" =>
                    ~Pending(call.site) /\ receipt[call.site].id # handler.mem.op.id
              /\ call.phase = "ok" => receipt[call.site] = SucceededReceipt(handler.mem.op)
        /\ call.phase = "received" =>
              /\ task # NoTask /\ task.site = call.site
              /\ call.path = "tracked" => task.mode \in {"run", "fence"}
              /\ call.path = "runtime" => task.mode = "recover"
        /\ call.path = "runtime" /\ call.phase = "ok" =>
              call.answer.op = receipt[call.site] /\ ~Pending(call.site)
              /\ call.answer.status \in {"running", "stopped", "unhealthy"}

SweepSound ==
    sweep # {} => handler = NoHandler /\ \A s \in sweep : s \in Sites /\ Known(s)

\* Only a live process executes requests.
Attended == task # NoTask => worker # "down"

Agreement ==
    /\ store = [s \in Sites |-> store[s]]
    /\ issued \subseteq Ids
    /\ \A s \in Sites : SiteAgrees(s)
    /\ HandlerSound
    /\ CallSound
    /\ SweepSound

PanelInv == Inv /\ ContentInv /\ Attended /\ Agreement

-----------------------------------------------------------------------------
(* What the worker does, as the panel sees it *)

\* A step of the request under way touches no receipt and no site at rest, and the
\* request goes on, begins to fence, or ends.
Moves ==
    /\ receipt' = receipt
    /\ \A s \in Sites : ~Pending(s) => host'[s] = host[s]
    /\ task = NoTask => task' = NoTask
    /\ task # NoTask /\ task' # NoTask =>
          /\ task'.site = task.site
          /\ task'.mode = task.mode \/ (task.mode = "run" /\ task'.mode = "fence")
    /\ task' # NoTask => worker' = worker

\* The site of the request is pending.
LEMMA TaskPending ==
    ASSUME Inv, task # NoTask
    PROVE  /\ task \in Tasks /\ task.site \in Sites /\ Pending(task.site)
           /\ receipt[task.site] = [id |-> task.id, kind |-> task.kind, state |-> "pending"]
BY DEF Inv, TypeOK, Tasks, ReceiptBeforeEffects, Pending

\* Only the site of the request changes.
LEMMA OnlyItsSite ==
    ASSUME Inv, task # NoTask, NEW h, host' = [host EXCEPT ![task.site] = h]
    PROVE  \A s \in Sites : ~Pending(s) => host'[s] = host[s]
BY TaskPending DEF Inv, TypeOK

\* The next command, or the fence after a failed one.
LEMMA ProceedMoves ==
    ASSUME Inv, task # NoTask, NEW h, Proceed(h)
    PROVE  Moves
<1>1. /\ task \in Tasks /\ receipt' = receipt /\ worker' = worker
      /\ \A s \in Sites : ~Pending(s) => host'[s] = host[s]
  BY TaskPending, OnlyItsSite DEF Proceed
<1>2. task' = [task EXCEPT !.todo = Tail(@), !.waiting = FALSE]
  BY DEF Proceed
<1>3. task'.site = task.site /\ task'.mode = task.mode
  BY <1>1, <1>2 DEF Tasks
<1> QED
  BY <1>1, <1>3 DEF Moves

\* A failed command.
LEMMA AbortMoves ==
    ASSUME Inv, task # NoTask, NEW h, Abort(h)
    PROVE  Moves
<1>1. task \in Tasks /\ receipt' = receipt /\ \A s \in Sites : ~Pending(s) => host'[s] = host[s]
  BY TaskPending, OnlyItsSite DEF Abort
<1>2. CASE task.mode # "run"
  BY <1>1, <1>2 DEF Abort, Moves
<1>3. CASE task.mode = "run"
  <2> DEFINE plan == IF Rejected(task) THEN <<>> ELSE FencePlan(task.kind)
  <2>1. task' = [task EXCEPT !.mode = "fence", !.waiting = FALSE, !.todo = plan] /\ worker' = worker
    BY <1>3 DEF Abort
  <2> HIDE DEF plan
  <2>2. task'.site = task.site /\ task'.mode = "fence"
    BY <1>1, <2>1 DEF Tasks
  <2> QED
    BY <1>1, <1>3, <2>1, <2>2 DEF Moves
<1> QED
  BY <1>2, <1>3

\* A command.
LEMMA CommandMoves ==
    ASSUME Inv, NEW step, NEW possible, NEW after, NEW partly,
           Command(step, possible, after, partly)
    PROVE  Moves
BY ProceedMoves, AbortMoves DEF Command, At

\* Every step of a request, and the end of a job.
LEMMA DoStepMoves ==
    ASSUME Inv, DoStep
    PROVE  Moves
<1>1. CASE Admit
  BY <1>1, ProceedMoves, AbortMoves DEF Admit, At
<1>2. CASE Inspect
  <2>1. task # NoTask
    BY <1>2 DEF Inspect, At
  <2>2. CASE Abort(Here)
    BY <2>1, <2>2, AbortMoves
  <2>3. CASE ~Abort(Here)
    <3>1. /\ task' = [task EXCEPT !.todo = Tail(@), !.was = RuntimeStatus(Here) = "running"]
          /\ UNCHANGED <<receipt, worker, unsettled, host>>
      BY <1>2, <2>3 DEF Inspect
    <3>2. task'.site = task.site /\ task'.mode = task.mode
      BY <2>1, <3>1, TaskPending DEF Tasks
    <3> QED
      BY <2>1, <3>1, <3>2 DEF Moves
  <2> QED
    BY <2>2, <2>3
<1>3. CASE Conf \/ CloseTool \/ MkDir \/ Config \/ Route \/ Unroute
  BY <1>3, CommandMoves DEF Conf, CloseTool, MkDir, Config, Route, Unroute
<1>4. CASE ComposeUp \/ UpDb \/ UpWordPress \/ RecreateServices \/ ComposeStop
  BY <1>4, CommandMoves DEF ComposeUp, UpDb, UpWordPress, RecreateServices, ComposeStop
<1>5. CASE StopWordPress \/ StopDb \/ RemoveOwnedJobs \/ ComposeDown \/ CheckGone
  BY <1>5, CommandMoves DEF StopWordPress, StopDb, RemoveOwnedJobs, ComposeDown, CheckGone
<1>6. CASE RemoveDir \/ RemoveBackups \/ Publish \/ VerifyBackup
  BY <1>6, CommandMoves DEF RemoveDir, RemoveBackups, Publish, VerifyBackup
<1>7. ASSUME NEW j \in Jobs, StartJob(j)
      PROVE  Moves
  <2>1. task # NoTask
    BY <1>7 DEF StartJob, At
  <2>2. CASE Abort(Here)
    BY <2>1, <2>2, AbortMoves
  <2>3. CASE ~Abort(Here)
    <3>1. /\ host' = [host EXCEPT ![task.site] = Launch(Here, j)]
          /\ task' = [task EXCEPT !.waiting = TRUE] /\ UNCHANGED <<receipt, worker>>
      BY <1>7, <2>3 DEF StartJob
    <3>2. task'.site = task.site /\ task'.mode = task.mode
      BY <2>1, <3>1, TaskPending DEF Tasks
    <3> QED
      BY <2>1, <3>1, <3>2, OnlyItsSite DEF Moves
  <2> QED
    BY <2>2, <2>3
<1> QED
  BY <1>1, <1>2, <1>3, <1>4, <1>5, <1>6, <1>7 DEF DoStep

\* A job ends only at a site that is pending.
LEMMA JobEndsMoves ==
    ASSUME Inv, NEW s \in Sites, NEW j \in Jobs, NEW ok \in BOOLEAN, JobEnds(s, j, ok)
    PROVE  Moves
<1> DEFINE h == IF ok THEN [host[s] EXCEPT !.jobs = @ \ {j},
                                           !.data = IF j = "import" THEN "whole" ELSE @]
                      ELSE Kill(host[s], {j})
<1>1. CASE task # NoTask /\ (Proceed(h) \/ Abort(h))
  BY <1>1, ProceedMoves, AbortMoves
<1>2. CASE host' = [host EXCEPT ![s] = h] /\ UNCHANGED <<receipt, worker, task>>
  <2>1. Pending(s)
    BY DEF JobEnds, Inv, NoOrphanJobs
  <2> HIDE DEF h
  <2>2. \A t \in Sites : ~Pending(t) => host'[t] = host[t]
    BY <1>2, <2>1 DEF Inv, TypeOK
  <2> QED
    BY <1>2, <2>2 DEF Moves
<1> QED
  BY <1>1, <1>2 DEF JobEnds, Awaits

\* The steps of the worker while the panel waits.
LEMMA WorkerMoves ==
    ASSUME Inv,
           \/ DoStep
           \/ \E s \in Sites, j \in Jobs, ok \in BOOLEAN : JobEnds(s, j, ok)
           \/ Abandon
    PROVE  Moves
BY DoStepMoves, JobEndsMoves, AbortMoves DEF Abandon

-----------------------------------------------------------------------------
(* What is left of a handler *)

\* What is left of a handler that has its safety backup and not done what it is for.
SecuredTodos == {<<"save", "update", "save">>, <<"update", "save">>,
                 <<"save", "restore", "save">>, <<"restore", "save">>}

\* The place of each step among the others of its handler.
InOrder(act, todo) ==
    /\ todo # <<>>
    /\ Tail(todo) = <<>> \/ Tail(todo) \in Todos(act)
    /\ Head(todo) \in PanelKinds \cup LocalSteps
    /\ Head(todo) = "erase" => todo = <<"erase">>
    /\ Tail(todo) = <<"erase">> => Head(todo) = "delete"
    /\ todo = <<"erase">> => Head(todo) = "erase"
    /\ todo = <<"save">> => Head(todo) = "save" /\ Tail(todo) = <<>>
    /\ todo = <<"save", "create", "save">> => Head(todo) = "save"
    /\ Tail(todo) # <<"save", "create", "save">>
    /\ Tail(todo) # <<"scheduled-backup", "save", "prune">>
    /\ Head(todo) = "delete" => todo = <<"delete", "erase">>
    /\ Tail(todo) = <<"delete", "erase">> => todo = <<"save", "delete", "erase">>
    /\ Tail(todo) # <<"save", "delete", "erase">>
    /\ Head(todo) = "prune" => act = "scheduled"
    /\ Head(todo) \in PanelKinds /\ act = "scheduled" =>
          todo = <<"scheduled-backup", "save", "prune">>
    /\ Head(todo) \in {"update", "restore"} =>
          act \in {"update", "restore"} /\ todo \in SecuredTodos
    /\ todo \in SecuredTodos => Head(todo) \in {"save", "update", "restore"}
    /\ Tail(todo) \in SecuredTodos => todo \in SecuredTodos \/ Head(todo) = "safety-backup"
    /\ Tail(todo) = <<"prune">> => Head(todo) = "save"
    /\ Tail(todo) # <<"discard", "save", "prune">>
    /\ act = "scheduled" /\ Head(todo) = "discard" => todo = <<"discard", "save", "prune">>

\* Every handler is left with its steps in the order its code has them.
LEMMA HandlersInOrder ==
    ASSUME NEW act, NEW todo \in Todos(act)
    PROVE  InOrder(act, todo)
<1> USE DEF InOrder, PanelKinds, BackupKinds, LocalSteps, SecuredTodos
<1>1. CASE act \in {"create", "retry"}
  <2>1. CASE todo = <<"save", "create", "save">>
    <3>1. Head(todo) = "save" /\ Tail(todo) = <<"create", "save">>
      BY <2>1
    <3>2. <<"create", "save">> \in Todos(act)
      BY <1>1 DEF Todos
    <3> QED
      BY <1>1, <2>1, <3>1, <3>2
  <2>2. CASE todo = <<"create", "save">>
    <3>1. Head(todo) = "create" /\ Tail(todo) = <<"save">>
      BY <2>2
    <3>2. <<"save">> \in Todos(act)
      BY <1>1 DEF Todos
    <3> QED
      BY <1>1, <2>2, <3>1, <3>2
  <2>3. CASE todo = <<"save">>
    <3>1. Head(todo) = "save" /\ Tail(todo) = <<>>
      BY <2>3
    <3> QED
      BY <1>1, <2>3, <3>1
  <2> QED
    BY <1>1, <2>1, <2>2, <2>3 DEF Todos
<1>2. CASE act = "start"
  <2>1. CASE todo = <<"start", "save">>
    <3>1. Head(todo) = "start" /\ Tail(todo) = <<"save">>
      BY <2>1
    <3>2. <<"save">> \in Todos(act)
      BY <1>2 DEF Todos
    <3> QED
      BY <1>2, <2>1, <3>1, <3>2
  <2>2. CASE todo = <<"save">>
    <3>1. Head(todo) = "save" /\ Tail(todo) = <<>>
      BY <2>2
    <3> QED
      BY <1>2, <2>2, <3>1
  <2> QED
    BY <1>2, <2>1, <2>2 DEF Todos
<1>3. CASE act = "stop"
  <2>1. CASE todo = <<"stop", "save">>
    <3>1. Head(todo) = "stop" /\ Tail(todo) = <<"save">>
      BY <2>1
    <3>2. <<"save">> \in Todos(act)
      BY <1>3 DEF Todos
    <3> QED
      BY <1>3, <2>1, <3>1, <3>2
  <2>2. CASE todo = <<"save">>
    <3>1. Head(todo) = "save" /\ Tail(todo) = <<>>
      BY <2>2
    <3> QED
      BY <1>3, <2>2, <3>1
  <2> QED
    BY <1>3, <2>1, <2>2 DEF Todos
<1>4. CASE act = "backup"
  <2>1. CASE todo = <<"manual-backup", "save">>
    <3>1. Head(todo) = "manual-backup" /\ Tail(todo) = <<"save">>
      BY <2>1
    <3>2. <<"save">> \in Todos(act)
      BY <1>4 DEF Todos
    <3> QED
      BY <1>4, <2>1, <3>1, <3>2
  <2>2. CASE todo = <<"save">>
    <3>1. Head(todo) = "save" /\ Tail(todo) = <<>>
      BY <2>2
    <3> QED
      BY <1>4, <2>2, <3>1
  <2> QED
    BY <1>4, <2>1, <2>2 DEF Todos
<1>5. CASE act = "resources"
  <2>1. CASE todo = <<"resources", "save">>
    <3>1. Head(todo) = "resources" /\ Tail(todo) = <<"save">>
      BY <2>1
    <3>2. <<"save">> \in Todos(act)
      BY <1>5 DEF Todos
    <3> QED
      BY <1>5, <2>1, <3>1, <3>2
  <2>2. CASE todo = <<"save">>
    <3>1. Head(todo) = "save" /\ Tail(todo) = <<>>
      BY <2>2
    <3> QED
      BY <1>5, <2>2, <3>1
  <2> QED
    BY <1>5, <2>1, <2>2 DEF Todos
<1>6. CASE act = "backup-delete"
  <2>1. CASE todo = <<"discard", "save">>
    <3>1. Head(todo) = "discard" /\ Tail(todo) = <<"save">>
      BY <2>1
    <3>2. <<"save">> \in Todos(act)
      BY <1>6 DEF Todos
    <3> QED
      BY <1>6, <2>1, <3>1, <3>2
  <2>2. CASE todo = <<"save">>
    <3>1. Head(todo) = "save" /\ Tail(todo) = <<>>
      BY <2>2
    <3> QED
      BY <1>6, <2>2, <3>1
  <2> QED
    BY <1>6, <2>1, <2>2 DEF Todos
<1>7. CASE act = "delete"
  <2>1. CASE todo = <<"save", "delete", "erase">>
    <3>1. Head(todo) = "save" /\ Tail(todo) = <<"delete", "erase">>
      BY <2>1
    <3>2. <<"delete", "erase">> \in Todos(act)
      BY <1>7 DEF Todos
    <3> QED
      BY <1>7, <2>1, <3>1, <3>2
  <2>2. CASE todo = <<"delete", "erase">>
    <3>1. Head(todo) = "delete" /\ Tail(todo) = <<"erase">>
      BY <2>2
    <3>2. <<"erase">> \in Todos(act)
      BY <1>7 DEF Todos
    <3> QED
      BY <1>7, <2>2, <3>1, <3>2
  <2>3. CASE todo = <<"erase">>
    <3>1. Head(todo) = "erase" /\ Tail(todo) = <<>>
      BY <2>3
    <3> QED
      BY <1>7, <2>3, <3>1
  <2>4. CASE todo = <<"save">>
    <3>1. Head(todo) = "save" /\ Tail(todo) = <<>>
      BY <2>4
    <3> QED
      BY <1>7, <2>4, <3>1
  <2> QED
    BY <1>7, <2>1, <2>2, <2>3, <2>4 DEF Todos
<1>8. CASE act = "scheduled"
  <2>1. CASE todo = <<"scheduled-backup", "save", "prune">>
    <3>1. Head(todo) = "scheduled-backup" /\ Tail(todo) = <<"save", "prune">>
      BY <2>1
    <3>2. <<"save", "prune">> \in Todos(act)
      BY <1>8 DEF Todos
    <3> QED
      BY <1>8, <2>1, <3>1, <3>2
  <2>2. CASE todo = <<"save", "prune">>
    <3>1. Head(todo) = "save" /\ Tail(todo) = <<"prune">>
      BY <2>2
    <3>2. <<"prune">> \in Todos(act)
      BY <1>8 DEF Todos
    <3> QED
      BY <1>8, <2>2, <3>1, <3>2
  <2>3. CASE todo = <<"prune">>
    <3>1. Head(todo) = "prune" /\ Tail(todo) = <<>>
      BY <2>3
    <3> QED
      BY <1>8, <2>3, <3>1
  <2>4. CASE todo = <<"discard", "save", "prune">>
    <3>1. Head(todo) = "discard" /\ Tail(todo) = <<"save", "prune">>
      BY <2>4
    <3>2. <<"save", "prune">> \in Todos(act)
      BY <1>8 DEF Todos
    <3> QED
      BY <1>8, <2>4, <3>1, <3>2
  <2> QED
    BY <1>8, <2>1, <2>2, <2>3, <2>4 DEF Todos
<1>9. CASE act = "update"
  <2>1. CASE todo = <<"safety-backup", "save", "update", "save">>
    <3>1. Head(todo) = "safety-backup" /\ Tail(todo) = <<"save", "update", "save">>
      BY <2>1
    <3>2. <<"save", "update", "save">> \in Todos(act)
      BY <1>9 DEF Todos
    <3> QED
      BY <1>9, <2>1, <3>1, <3>2
  <2>2. CASE todo = <<"save", "update", "save">>
    <3>1. Head(todo) = "save" /\ Tail(todo) = <<"update", "save">>
      BY <2>2
    <3>2. <<"update", "save">> \in Todos(act)
      BY <1>9 DEF Todos
    <3> QED
      BY <1>9, <2>2, <3>1, <3>2
  <2>3. CASE todo = <<"update", "save">>
    <3>1. Head(todo) = "update" /\ Tail(todo) = <<"save">>
      BY <2>3
    <3>2. <<"save">> \in Todos(act)
      BY <1>9 DEF Todos
    <3> QED
      BY <1>9, <2>3, <3>1, <3>2
  <2>4. CASE todo = <<"save">>
    <3>1. Head(todo) = "save" /\ Tail(todo) = <<>>
      BY <2>4
    <3> QED
      BY <1>9, <2>4, <3>1
  <2> QED
    BY <1>9, <2>1, <2>2, <2>3, <2>4 DEF Todos
<1>10. CASE act = "restore"
  <2>1. CASE todo = <<"restore-prepare", "safety-backup", "save", "restore", "save">>
    <3>1. Head(todo) = "restore-prepare" /\ Tail(todo) = <<"safety-backup", "save", "restore", "save">>
      BY <2>1
    <3>2. <<"safety-backup", "save", "restore", "save">> \in Todos(act)
      BY <1>10 DEF Todos
    <3> QED
      BY <1>10, <2>1, <3>1, <3>2
  <2>2. CASE todo = <<"safety-backup", "save", "restore", "save">>
    <3>1. Head(todo) = "safety-backup" /\ Tail(todo) = <<"save", "restore", "save">>
      BY <2>2
    <3>2. <<"save", "restore", "save">> \in Todos(act)
      BY <1>10 DEF Todos
    <3> QED
      BY <1>10, <2>2, <3>1, <3>2
  <2>3. CASE todo = <<"save", "restore", "save">>
    <3>1. Head(todo) = "save" /\ Tail(todo) = <<"restore", "save">>
      BY <2>3
    <3>2. <<"restore", "save">> \in Todos(act)
      BY <1>10 DEF Todos
    <3> QED
      BY <1>10, <2>3, <3>1, <3>2
  <2>4. CASE todo = <<"restore", "save">>
    <3>1. Head(todo) = "restore" /\ Tail(todo) = <<"save">>
      BY <2>4
    <3>2. <<"save">> \in Todos(act)
      BY <1>10 DEF Todos
    <3> QED
      BY <1>10, <2>4, <3>1, <3>2
  <2>5. CASE todo = <<"save">>
    <3>1. Head(todo) = "save" /\ Tail(todo) = <<>>
      BY <2>5
    <3> QED
      BY <1>10, <2>5, <3>1
  <2> QED
    BY <1>10, <2>1, <2>2, <2>3, <2>4, <2>5 DEF Todos
<1> QED
  BY <1>1, <1>2, <1>3, <1>4, <1>5, <1>6, <1>7, <1>8, <1>9, <1>10 DEF Todos

\* The whole of a handler, and what is left after a failure.
LEMMA FlowInOrder ==
    ASSUME NEW act \in Actions
    PROVE  /\ Flow(act) \in Todos(act) /\ Flow(act) # <<"erase">>
           /\ act = "create" => Flow(act) = <<"save", "create", "save">>
BY ActionsAssumption DEF Flow, Todos

\* A handler that saves a failure ends with that.
LEMMA LastSave ==
    ASSUME NEW act \in {"create", "retry", "start", "stop", "delete"}
    PROVE  <<"save">> \in Todos(act)
BY DEF Todos

-----------------------------------------------------------------------------
(* The panel drives the worker *)

\* The panel's operations are operations the worker knows.
LEMMA KindKnown ==
    ASSUME NEW kind \in PanelKinds
    PROVE  WorkerKind(kind) \in Kinds
BY DEF PanelKinds, BackupKinds, WorkerKind, Kinds

\* A pending marker carries an operation ID.
LEMMA PendingMarker ==
    ASSUME NEW op \in Markers \cup {NoMarker}, op.state = "pending"
    PROVE  op.id \in Ids /\ op.kind \in PanelKinds
BY DEF Markers, NoMarker

\* The handler whose call is at the worker.
LEMMA TrackedCall ==
    ASSUME Agreement, call # NoCall, call.path = "tracked"
    PROVE  /\ handler # NoHandler /\ call.site = handler.site /\ call.site \in Sites
           /\ Head(handler.todo) \in PanelKinds
           /\ handler.mem.op.state = "pending" /\ handler.mem.op.kind = Head(handler.todo)
           /\ handler.mem.op.id \in Ids /\ store[call.site] = handler.mem
           /\ Known(call.site)
           /\ handler.todo \in Todos(handler.act)
<1>1. handler # NoHandler /\ call.site = handler.site
  BY DEF Agreement, CallSound
<1>2. handler.site \in Sites /\ IsRecord(handler.mem) /\ handler.todo \in Todos(handler.act)
  BY <1>1 DEF Agreement, HandlerSound
<1>3. /\ Head(handler.todo) \in PanelKinds
      /\ handler.mem.op.state = "pending" /\ handler.mem.op.kind = Head(handler.todo)
      /\ store[call.site] = handler.mem
  BY DEF Agreement, CallSound
<1>4. handler.mem.op.id \in Ids /\ handler.mem \notin {Unborn, Erased}
  BY <1>2, <1>3, PendingMarker DEF IsRecord, Statuses, Unborn, Erased
<1> QED
  BY <1>1, <1>2, <1>3, <1>4 DEF Known

\* What callTracked sends is a request the worker's specification allows.
LEMMA RequestAllowed ==
    ASSUME Agreement, Sent("tracked")
    PROVE  TheRequest \in Requests
<1>1. call # NoCall /\ call.path = "tracked"
  BY DEF Sent
<1>2. /\ handler.safety \in Ids \cup {"none"}
      /\ handler.act # "scheduled" => handler.from \in Ids \cup {"none"}
      /\ handler.todo = <<"scheduled-backup", "save", "prune">> => handler.from \in Ids \cup {"none"}
  BY <1>1, TrackedCall DEF Agreement, HandlerSound
<1>3. handler.from \in Ids \cup {"none"}
  BY <1>1, <1>2, TrackedCall, HandlersInOrder DEF InOrder
<1>4. WorkerKind(Head(handler.todo)) \in ClientKinds
  BY <1>1, TrackedCall, KindKnown, AllKinds
<1> QED
  BY <1>1, <1>2, <1>3, <1>4, TrackedCall DEF TheRequest, Requests

\* Whatever the panel does, the worker sees requests, lost connections and
\* nothing else: every step of the composition is one of the worker or leaves
\* it alone.
LEMMA WorkerSeesRequests ==
    ASSUME Inv, Agreement, [PanelNext]_allVars
    PROVE  [Next]_vars
<1>1. CASE \E s \in Sites, act \in Actions, from \in Ids \cup {"none"} : StartHandler(s, act, from)
  BY <1>1 DEF StartHandler
<1>2. CASE HandlerStep
  BY <1>2 DEF HandlerStep, Save, Erase, Answered, Discard, Discarded, Prune, CallTracked
<1>3. CASE StartSweep \/ SweepStep \/ LoseCall \/ PanelRestart
  BY <1>3 DEF StartSweep, SweepStep, Reconcile, Probe, LoseCall, PanelRestart
<1>4. CASE Reception
  <2>1. ASSUME NEW outcome \in Outcomes, Deliver(outcome)
        PROVE  Next
    BY <2>1, RequestAllowed DEF Deliver, Next
  <2>2. CASE Refuse \/ DeliverRuntime
    BY <2>2 DEF Refuse, DeliverRuntime
  <2>3. CASE DeliverDiscard
    <3>1. call.site \in Sites
      BY <2>3 DEF DeliverDiscard, Sent, Agreement, CallSound, Calls, RuntimeReplies
    <3>2. host[call.site].backups \subseteq Ids
      BY <3>1 DEF Inv, TypeOK, Hosts
    <3> QED
      BY <2>3, <3>1, <3>2 DEF DeliverDiscard, DeleteBackup, Next
  <2>4. CASE DeliverRecovery
    <3>1. call.site \in Sites
      BY <2>4 DEF DeliverRecovery, Sent, Agreement, CallSound, Calls, RuntimeReplies
    <3> QED
      BY <2>4, <3>1 DEF DeliverRecovery, Next
  <2> QED
    BY <1>4, <2>1, <2>2, <2>3, <2>4 DEF Reception
<1>5. CASE WorkerStep \/ WorkerCrash \/ WorkerTimeout \/ WorkerRestart
  BY <1>5 DEF WorkerStep, WorkerCrash, WorkerTimeout, WorkerRestart, Next
<1>6. CASE \E outcome \in Outcomes : WorkerConcludes(outcome)
  BY <1>6 DEF WorkerConcludes, Next
<1>7. CASE UNCHANGED allVars
  BY <1>7 DEF allVars
<1> QED
  BY <1>1, <1>2, <1>3, <1>4, <1>5, <1>6, <1>7 DEF PanelNext

\* No request outlives the process that executes it.
LEMMA StaysAttended ==
    ASSUME Inv, Attended, [Next]_vars
    PROVE  Attended'
<1>1. CASE \/ DoStep
           \/ \E s \in Sites, j \in Jobs, ok \in BOOLEAN : JobEnds(s, j, ok)
           \/ Abandon
  BY <1>1, WorkerMoves DEF Moves, Attended
<1>2. CASE \E req \in Requests, outcome \in Outcomes : Begin(req, outcome)
  BY <1>2 DEF Begin, Free, Attended
<1>3. CASE \/ \E s \in Sites : Runtime(s)
           \/ \E s \in Sites, b \in Ids : DeleteBackup(s, b)
  BY <1>3 DEF Runtime, DeleteBackup, Free, Attended
<1>4. CASE (\E outcome \in Outcomes : Conclude(outcome)) \/ Disconnect \/ Crash \/ Boot \/ Serve
  BY <1>4 DEF Conclude, Disconnect, Crash, Boot, Serve, Attended
<1>5. CASE \E s \in Sites : Settle(s)
  BY <1>5 DEF Settle, Attended
<1>6. CASE UNCHANGED vars
  BY <1>6 DEF vars, Attended
<1> QED
  BY <1>1, <1>2, <1>3, <1>4, <1>5, <1>6 DEF Next

-----------------------------------------------------------------------------
(* Records *)

\* A record is that of a known site.
LEMMA RecordKnown ==
    ASSUME NEW r, IsRecord(r)
    PROVE  r \notin {Unborn, Erased}
BY DEF IsRecord, Statuses, Unborn, Erased

\* Nothing of the site has changed.
LEMMA SiteSame ==
    ASSUME NEW s \in Sites, SiteAgrees(s), store'[s] = store[s], receipt'[s] = receipt[s],
           store[s] = Erased => host'[s] = host[s], issued \subseteq issued'
    PROVE  SiteAgrees(s)'
BY DEF SiteAgrees, Pending, Known

\* A record is saved.
LEMMA SiteSaved ==
    ASSUME NEW s \in Sites, NEW r, IsRecord(r), store'[s] = r,
           r.op.id \in issued' \cup {"none"}, receipt'[s].id \in issued' \cup {"none"},
           Pending(s)' => r.op.state = "pending" /\ r.op.id = receipt'[s].id,
           r.op.state = "succeeded" => receipt'[s] = SucceededReceipt(r.op),
           r.op.state = "pending" /\ r.op.id = receipt'[s].id =>
              receipt'[s].kind = WorkerKind(r.op.kind)
    PROVE  SiteAgrees(s)' /\ Known(s)'
<1>1. r \notin {Unborn, Erased}
  BY RecordKnown
<1>2. IsRecord(store[s])'
  BY DEF IsRecord
<1> QED
  BY <1>1, <1>2 DEF SiteAgrees, Known, Busy

\* Without a handler or a sweep there is no call.
LEMMA IdleNoCall ==
    ASSUME Agreement, OpsFree
    PROVE  call = NoCall
BY DEF Agreement, CallSound, OpsFree

\* What is known while the handler holds opsMu.
LEMMA HandlerFacts ==
    ASSUME Agreement, handler # NoHandler
    PROVE  /\ sweep = {}
           /\ handler.site \in Sites /\ IsRecord(handler.mem) /\ SiteAgrees(handler.site)
           /\ handler.mem.op.id \in issued \cup {"none"}
           /\ handler.todo \in Todos(handler.act) /\ InOrder(handler.act, handler.todo)
           /\ store[handler.site] # Erased
<1>1. handler.site \in Sites /\ handler.todo \in Todos(handler.act)
  BY DEF Agreement, HandlerSound
<1>2. InOrder(handler.act, handler.todo)
  BY <1>1, HandlersInOrder
<1>3. sweep = {}
  BY DEF Agreement, SweepSound
<1> QED
  BY <1>1, <1>2, <1>3 DEF Agreement, HandlerSound

\* While the panel works, the worker does not: a step that leaves the worker
\* alone, one site's record at most changed, and the new handler and call sound.
LEMMA PanelSide ==
    ASSUME Agreement, UNCHANGED vars, NEW site \in Sites, NEW r,
           issued' \subseteq Ids, issued \subseteq issued',
           store' = [store EXCEPT ![site] = r],
           store'[site] = r => SiteAgrees(site)' /\ HandlerSound' /\ SweepSound',
           CallSound'
    PROVE  Agreement'
<1>1. store'[site] = r /\ store' = [s \in Sites |-> store'[s]]
  BY DEF Agreement
<1>2. ASSUME NEW s \in Sites, s # site
      PROVE  SiteAgrees(s)'
  <2>1. store'[s] = store[s] /\ receipt'[s] = receipt[s] /\ host'[s] = host[s] /\ SiteAgrees(s)
    BY <1>2 DEF Agreement, vars
  <2> QED
    BY <2>1, SiteSame
<1> QED
  BY <1>1, <1>2 DEF Agreement

\* The same, and no record has changed.
LEMMA PanelIdle ==
    ASSUME Agreement, UNCHANGED <<vars, store>>, issued' \subseteq Ids, issued \subseteq issued',
           HandlerSound', CallSound', SweepSound'
    PROVE  Agreement'
<1>1. ASSUME NEW s \in Sites
      PROVE  SiteAgrees(s)'
  <2>1. store'[s] = store[s] /\ receipt'[s] = receipt[s] /\ host'[s] = host[s] /\ SiteAgrees(s)
    BY DEF Agreement, vars
  <2> QED
    BY <2>1, SiteSame
<1> QED
  BY <1>1 DEF Agreement

-----------------------------------------------------------------------------
(* Steps of the panel *)

\* The handler that goes on.
LEMMA HandlerGoesOn ==
    ASSUME NEW act, NEW site \in Sites, NEW mem, NEW from, NEW safety \in Ids \cup {"none"},
           NEW todo \in Todos(act),
           handler' = [act |-> act, site |-> site, mem |-> mem, from |-> from,
                       safety |-> safety, todo |-> todo],
           IsRecord(mem), mem.op.id \in issued' \cup {"none"},
           act # "scheduled" => from \in Ids \cup {"none"},
           todo = <<"scheduled-backup", "save", "prune">> => from \in Ids \cup {"none"},
           store'[site] # Erased,
           store'[site] = Unborn => todo = <<"save", "create", "save">> /\ call' = NoCall,
           todo = <<"erase">> => mem.op.kind = "delete" /\ mem.op.state = "succeeded",
           call' = NoCall \/ call'.path # "tracked" =>
              /\ mem.op.state = "pending" =>
                    /\ todo = <<"save">>
                    /\ \/ ~Pending(site)' /\ receipt'[site].id # mem.op.id
                       \/ Known(site)' /\ store'[site].op = mem.op
              /\ mem.op.state # "pending" => ~Pending(site)'
              /\ mem.op.state = "succeeded" => receipt'[site] = SucceededReceipt(mem.op)
    PROVE  HandlerSound'
<1>1. /\ handler'.act = act /\ handler'.site = site /\ handler'.mem = mem
      /\ handler'.from = from /\ handler'.safety = safety /\ handler'.todo = todo
  OBVIOUS
<1>2. IsRecord(handler.mem)'
  BY <1>1 DEF IsRecord
<1>3. call' = NoCall \/ call'.path # "tracked" => CopyAgrees(handler)'
  BY <1>1 DEF CopyAgrees, Pending, Known, SucceededReceipt
<1> QED
  BY <1>1, <1>2, <1>3 DEF HandlerSound

\* A handler takes opsMu and reads the record.
LEMMA StartHandlerAgrees ==
    ASSUME PanelInv, NEW s \in Sites, NEW act \in Actions, NEW from \in Ids \cup {"none"},
           StartHandler(s, act, from)
    PROVE  Agreement'
<1> DEFINE mem == Draft(act, store[s])
<1>1. Agreement /\ OpsFree /\ SiteAgrees(s) /\ UNCHANGED <<vars, store, issued, sweep, call>>
  BY DEF PanelInv, StartHandler, Agreement
<1>2. call = NoCall
  BY <1>1, IdleNoCall
<1>3. handler' = [act |-> act, site |-> s, mem |-> mem, from |-> from,
                  safety |-> "none", todo |-> Flow(act)]
  BY DEF StartHandler
<1>4. CASE act = "create"
  <2>1. store[s] = Unborn /\ mem = NewSite
    BY <1>4 DEF StartHandler, Draft
  <2>2. IsRecord(NewSite) /\ NewSite.op = NoMarker /\ NoMarker.state = "none" /\ NoMarker.id = "none"
    BY DEF IsRecord, NewSite, NoMarker, Statuses
  <2>3. ~Pending(s)
    BY <1>1, <2>1 DEF SiteAgrees, Known
  <2> HIDE DEF mem
  <2>4. ~Pending(s)' /\ store'[s] # Erased /\ call' = NoCall
    BY <1>1, <1>2, <2>1, <2>3 DEF Pending, vars, Unborn, Erased
  <2>5. Flow(act) \in Todos(act) /\ Flow(act) = <<"save", "create", "save">>
    BY <1>4, FlowInOrder
  <2>6. Flow(act) # <<"erase">> /\ Flow(act) # <<"scheduled-backup", "save", "prune">>
    BY <2>5
  <2> QED
    BY <1>3, <2>1, <2>2, <2>4, <2>5, <2>6, HandlerGoesOn, <1>1, <1>2, PanelIdle
       DEF Agreement, SweepSound, OpsFree, CallSound
<1>5. CASE act # "create"
  <2>1. Known(s) /\ ~Busy(store[s])
    BY <1>5 DEF StartHandler, Permitted
  <2>2. IsRecord(store[s]) /\ store[s].op.id \in issued \cup {"none"} /\ ~Pending(s)
    BY <1>1, <2>1 DEF SiteAgrees, Known
  <2>3. store[s].op.state # "pending"
    BY <2>1 DEF Busy
  <2>4. store[s].op.state = "succeeded" => receipt[s] = SucceededReceipt(store[s].op)
    BY <1>1, <2>1 DEF SiteAgrees
  <2>5. IsRecord(mem) /\ mem.op = store[s].op
    BY <1>5, <2>2 DEF Draft, IsRecord, Statuses
  <2> HIDE DEF mem
  <2>6. ~Pending(s)' /\ store'[s] \notin {Unborn, Erased} /\ receipt'[s] = receipt[s]
    BY <1>1, <2>1, <2>2 DEF Pending, vars, Known
  <2>7. Flow(act) \in Todos(act) /\ Flow(act) # <<"erase">>
    BY FlowInOrder
  <2>8. HandlerSound'
    BY <1>1, <1>3, <2>2, <2>3, <2>4, <2>5, <2>6, <2>7, HandlerGoesOn
  <2> QED
    BY <2>8, <1>1, <1>2, PanelIdle DEF Agreement, SweepSound, OpsFree, CallSound
<1> QED
  BY <1>4, <1>5

\* The copy a handler may save or leave: nothing of it is at the worker.
LEMMA CopyFacts ==
    ASSUME Agreement, handler # NoHandler, call = NoCall \/ call.path # "tracked"
    PROVE  CopyAgrees(handler)
BY DEF Agreement, HandlerSound

\* A handler that is over leaves nothing to show.
LEMMA HandlerOver ==
    ASSUME Agreement, UNCHANGED <<vars, store>>, issued' \subseteq Ids, issued \subseteq issued',
           handler' = NoHandler, call' = NoCall, sweep' = sweep
    PROVE  Agreement'
<1>1. HandlerSound' /\ CallSound' /\ SweepSound'
  BY DEF HandlerSound, CallSound, SweepSound, Agreement, Known
<1> QED
  BY <1>1, PanelIdle

\* store.Put.
LEMMA SaveAgrees ==
    ASSUME PanelInv, Save
    PROVE  Agreement'
<1>1. /\ Agreement /\ handler # NoHandler /\ call = NoCall /\ Head(handler.todo) = "save"
      /\ UNCHANGED <<vars, issued, sweep, call>>
  BY DEF PanelInv, Save, HandlerAt
<1>2. PICK s \in Sites : s = handler.site
  BY <1>1, HandlerFacts
<1>3. CASE handler' = NoHandler /\ UNCHANGED store
  BY <1>1, <1>3, HandlerOver DEF Agreement
<1>4. CASE store' = [store EXCEPT ![s] = handler.mem] /\ handler' = Done(handler)
  <2>1. /\ sweep = {} /\ s \in Sites /\ IsRecord(handler.mem) /\ SiteAgrees(s)
        /\ handler.mem.op.id \in issued \cup {"none"}
        /\ handler.todo \in Todos(handler.act) /\ InOrder(handler.act, handler.todo)
        /\ CopyAgrees(handler)
    BY <1>1, <1>2, HandlerFacts, CopyFacts
  <2>2. UNCHANGED receipt
    BY <1>1 DEF vars
  <2>3. receipt[s].id \in issued \cup {"none"}
    BY <2>1 DEF SiteAgrees
  <2>4. ASSUME store'[s] = handler.mem
        PROVE  SiteAgrees(s)' /\ Known(s)'
    <3>1. Pending(s)' => handler.mem.op.state = "pending" /\ handler.mem.op.id = receipt'[s].id
      BY <1>2, <2>1, <2>2 DEF CopyAgrees, SiteAgrees, Pending
    <3>2. handler.mem.op.state = "succeeded" => receipt'[s] = SucceededReceipt(handler.mem.op)
      BY <1>2, <2>1, <2>2 DEF CopyAgrees
    <3>3. handler.mem.op.state = "pending" /\ handler.mem.op.id = receipt'[s].id =>
             receipt'[s].kind = WorkerKind(handler.mem.op.kind)
      BY <1>2, <2>1, <2>2 DEF CopyAgrees, SiteAgrees, Busy
    <3> QED
      BY <1>1, <2>1, <2>2, <2>3, <2>4, <3>1, <3>2, <3>3, SiteSaved
  <2>5. ASSUME store'[s] = handler.mem
        PROVE  HandlerSound'
    <3>1. CASE Tail(handler.todo) = <<>>
      BY <1>4, <3>1 DEF Done, HandlerSound
    <3>2. CASE Tail(handler.todo) # <<>>
      <4>1. handler' = [act |-> handler.act, site |-> s, mem |-> handler.mem,
                        from |-> handler.from, safety |-> handler.safety, todo |-> Tail(handler.todo)]
        BY <1>1, <1>4, <1>2, <3>2 DEF Done, Agreement, HandlerSound
      <4>2. /\ Tail(handler.todo) \in Todos(handler.act) /\ Tail(handler.todo) # <<"erase">>
            /\ Tail(handler.todo) # <<"scheduled-backup", "save", "prune">>
            /\ handler.todo # <<"save">>
        BY <1>1, <2>1, <3>2 DEF InOrder
      <4>3. /\ handler.mem.op.state # "pending" /\ ~Pending(s)'
            /\ handler.mem.op.state = "succeeded" => receipt'[s] = SucceededReceipt(handler.mem.op)
        BY <1>2, <2>1, <2>2, <4>2 DEF CopyAgrees, Pending
      <4>4. /\ handler.safety \in Ids \cup {"none"}
            /\ handler.act # "scheduled" => handler.from \in Ids \cup {"none"}
        BY <1>1 DEF Agreement, HandlerSound
      <4>5. store'[s] # Erased /\ store'[s] # Unborn
        BY <2>1, <2>5, RecordKnown
      <4> QED
        BY <1>1, <2>1, <4>1, <4>2, <4>3, <4>4, <4>5, HandlerGoesOn, ZenonT(40)
    <3> QED
      BY <3>1, <3>2
  <2>6. CallSound' /\ SweepSound'
    BY <1>1, <2>1 DEF CallSound, SweepSound
  <2> QED
    BY <1>1, <1>4, <2>1, <2>4, <2>5, <2>6, PanelSide DEF Agreement
<1> QED
  BY <1>2, <1>3, <1>4 DEF Save

\* store.Delete: the worker has confirmed that nothing of the site is left.
LEMMA EraseAgrees ==
    ASSUME PanelInv, Erase
    PROVE  Agreement'
<1>1. /\ Agreement /\ handler # NoHandler /\ call = NoCall /\ Head(handler.todo) = "erase"
      /\ UNCHANGED <<vars, issued, sweep, call>> /\ handler' = NoHandler
  BY DEF PanelInv, Erase, HandlerAt
<1>2. PICK s \in Sites : s = handler.site
  BY <1>1, HandlerFacts
<1>3. CASE UNCHANGED store
  BY <1>1, <1>3, HandlerOver DEF Agreement
<1>4. CASE store' = [store EXCEPT ![s] = Erased]
  <2>1. /\ sweep = {} /\ s \in Sites /\ SiteAgrees(s) /\ InOrder(handler.act, handler.todo)
        /\ CopyAgrees(handler)
    BY <1>1, <1>2, HandlerFacts, CopyFacts
  <2>2. handler.mem.op.kind = "delete" /\ handler.mem.op.state = "succeeded"
    BY <1>1, <2>1 DEF InOrder, Agreement, HandlerSound
  <2>3. receipt[s].kind = "delete" /\ receipt[s].state = "succeeded"
    BY <1>2, <2>1, <2>2 DEF CopyAgrees, SucceededReceipt, WorkerKind, BackupKinds
  <2>4. host[s] = NoHost
    BY <2>1, <2>3 DEF PanelInv, ContentInv, SitesSound, SiteSound
  <2>5. ASSUME store'[s] = Erased
        PROVE  SiteAgrees(s)'
    <3>1. receipt'[s] = receipt[s] /\ host'[s] = NoHost /\ ~Known(s)' /\ ~Pending(s)'
      BY <1>1, <2>3, <2>4, <2>5 DEF vars, Known, Pending
    <3> QED
      BY <1>1, <2>1, <2>5, <3>1 DEF SiteAgrees
  <2>6. HandlerSound' /\ CallSound' /\ SweepSound'
    BY <1>1, <2>1 DEF HandlerSound, CallSound, SweepSound
  <2> QED
    BY <1>1, <1>4, <2>1, <2>5, <2>6, PanelSide DEF Agreement
<1> QED
  BY <1>2, <1>3, <1>4 DEF Erase

\* What Failing keeps.
LEMMA FailingKeeps ==
    ASSUME NEW h, h = [act |-> h.act, site |-> h.site, mem |-> h.mem, from |-> h.from,
                       safety |-> h.safety, todo |-> h.todo],
           IsRecord(h.mem), Failing(h) # NoHandler
    PROVE  /\ h.act \in {"create", "retry", "start", "stop", "delete"}
           /\ \E r : /\ IsRecord(r) /\ r.op = h.mem.op /\ r.backups = h.mem.backups
                     /\ Failing(h) = [act |-> h.act, site |-> h.site, mem |-> r, from |-> h.from,
                                      safety |-> h.safety, todo |-> <<"save">>]
<1>1. CASE h.act \in {"create", "retry"}
  <2> DEFINE r == [h.mem EXCEPT !.status = "failed"]
  <2>1. IsRecord(r) /\ r.op = h.mem.op /\ r.backups = h.mem.backups
    BY DEF IsRecord, Statuses
  <2>2. Failing(h) = [h EXCEPT !.mem = r, !.todo = <<"save">>]
    BY <1>1 DEF Failing
  <2> HIDE DEF r
  <2>3. Failing(h) = [act |-> h.act, site |-> h.site, mem |-> r, from |-> h.from,
                      safety |-> h.safety, todo |-> <<"save">>]
    BY <2>2
  <2> QED
    BY <1>1, <2>1, <2>3
<1>2. CASE h.act \in {"start", "stop", "delete"}
  <2> DEFINE r == [h.mem EXCEPT !.status = "unhealthy"]
  <2>1. IsRecord(r) /\ r.op = h.mem.op /\ r.backups = h.mem.backups
    BY DEF IsRecord, Statuses
  <2>2. Failing(h) = [h EXCEPT !.mem = r, !.todo = <<"save">>]
    BY <1>2 DEF Failing
  <2> HIDE DEF r
  <2>3. Failing(h) = [act |-> h.act, site |-> h.site, mem |-> r, from |-> h.from,
                      safety |-> h.safety, todo |-> <<"save">>]
    BY <2>2
  <2> QED
    BY <1>2, <2>1, <2>3
<1> QED
  BY <1>1, <1>2 DEF Failing

\* After a failed call the handler saves its marker, still pending, or is over.
LEMMA FailingAgrees ==
    ASSUME NEW h, h = [act |-> h.act, site |-> h.site, mem |-> h.mem, from |-> h.from,
                       safety |-> h.safety, todo |-> h.todo],
           handler' = Failing(h), call' = NoCall,
           h.site \in Sites, IsRecord(h.mem), h.mem.op.id \in issued' \cup {"none"},
           h.mem.op.state = "pending",
           h.safety \in Ids \cup {"none"},
           h.act # "scheduled" => h.from \in Ids \cup {"none"},
           store'[h.site] \notin {Unborn, Erased},
           \/ ~Pending(h.site)' /\ receipt'[h.site].id # h.mem.op.id
           \/ store'[h.site].op = h.mem.op
    PROVE  HandlerSound'
<1>1. CASE Failing(h) = NoHandler
  BY <1>1 DEF HandlerSound
<1>2. CASE Failing(h) # NoHandler
  <2>1. PICK r : /\ IsRecord(r) /\ r.op = h.mem.op
                 /\ Failing(h) = [act |-> h.act, site |-> h.site, mem |-> r, from |-> h.from,
                                  safety |-> h.safety, todo |-> <<"save">>]
    BY <1>2, FailingKeeps
  <2>2. h.act \in {"create", "retry", "start", "stop", "delete"} /\ <<"save">> \in Todos(h.act)
    BY <1>2, FailingKeeps, LastSave
  <2>3. <<"save">> # <<"erase">> /\ <<"save">> # <<"scheduled-backup", "save", "prune">>
    OBVIOUS
  <2>4. PICK site \in Sites : site = h.site
    OBVIOUS
  <2> QED
    BY <2>1, <2>2, <2>3, <2>4, HandlerGoesOn DEF Known
<1> QED
  BY <1>1, <1>2

\* callTracked: the marker of a fresh operation is saved before it is sent.
LEMMA CallTrackedAgrees ==
    ASSUME PanelInv, NEW kind \in PanelKinds, NEW id \in Ids \ issued, CallTracked(kind, id)
    PROVE  Agreement'
<1>1. /\ Agreement /\ handler # NoHandler /\ call = NoCall /\ Head(handler.todo) = kind
      /\ UNCHANGED <<vars, sweep>> /\ issued' = issued \cup {id} /\ UNCHANGED receipt
  BY DEF PanelInv, CallTracked, HandlerAt, vars
<1>2. PICK s \in Sites : s = handler.site
  BY <1>1, HandlerFacts
<1>3. /\ sweep = {} /\ SiteAgrees(s) /\ IsRecord(handler.mem)
      /\ handler.todo \in Todos(handler.act) /\ InOrder(handler.act, handler.todo)
      /\ CopyAgrees(handler) /\ store[s] # Erased
  BY <1>1, <1>2, HandlerFacts, CopyFacts
<1>4. handler.todo # <<"save">> /\ handler.todo # <<"erase">> /\ handler.todo # <<"save", "create", "save">>
  BY <1>1, <1>3 DEF InOrder, PanelKinds, BackupKinds
<1>5. ~Pending(s) /\ receipt[s].id # id /\ store[s] # Unborn
  <2>1. ~Pending(s)
    BY <1>2, <1>3, <1>4 DEF CopyAgrees
  <2>2. receipt[s].id \in issued \cup {"none"}
    BY <1>3 DEF SiteAgrees
  <2>3. store[s] # Unborn
    BY <1>1, <1>2, <1>4 DEF Agreement, HandlerSound
  <2> QED
    BY <2>1, <2>2, <2>3, NoneAssumption
<1> DEFINE op == [id |-> id, kind |-> kind, state |-> "pending"]
           r == [handler.mem EXCEPT !.op = op]
           safety == IF kind = "safety-backup" THEN id ELSE handler.safety
           h == [handler EXCEPT !.mem.op = op, !.safety = IF kind = "safety-backup" THEN id ELSE @]
<1>6. IsRecord(r) /\ r.op = op /\ op.id = id /\ op.kind = kind /\ op.state = "pending"
  BY <1>3 DEF IsRecord, Markers
<1>7. h = [act |-> handler.act, site |-> s, mem |-> r, from |-> handler.from,
           safety |-> safety, todo |-> handler.todo]
  <2>1. handler = [act |-> handler.act, site |-> handler.site, mem |-> handler.mem,
                   from |-> handler.from, safety |-> handler.safety, todo |-> handler.todo]
    BY <1>1 DEF Agreement, HandlerSound
  <2>2. h = [handler EXCEPT !.mem = r, !.safety = safety]
    BY <2>1
  <2> HIDE DEF r, safety, op, h
  <2> QED
    BY <1>2, <2>1, <2>2
<1>8. /\ safety \in Ids \cup {"none"}
      /\ handler.act # "scheduled" => handler.from \in Ids \cup {"none"}
      /\ handler.todo = <<"scheduled-backup", "save", "prune">> => handler.from \in Ids \cup {"none"}
  BY <1>1 DEF Agreement, HandlerSound
<1>9. \/ /\ store' = [store EXCEPT ![h.site] = h.mem] /\ handler' = h
         /\ call' = [path |-> "tracked", site |-> h.site, phase |-> "sent"]
      \/ handler' = Failing(h) /\ UNCHANGED <<store, call>>
  BY DEF CallTracked
<1> HIDE DEF h, r, op, safety
<1>10. /\ h.act = handler.act /\ h.site = s /\ h.mem = r /\ h.from = handler.from /\ h.safety = safety
       /\ h.todo = handler.todo
  BY <1>7
<1>11. CASE /\ store' = [store EXCEPT ![s] = r] /\ handler' = h
            /\ call' = [path |-> "tracked", site |-> s, phase |-> "sent"]
  <2>1. call' # NoCall /\ call'.path = "tracked" /\ call'.site = s /\ call'.phase = "sent" /\ call' \in Calls
    BY <1>11 DEF NoCall, Calls
  <2>2. ASSUME store'[s] = r
        PROVE  SiteAgrees(s)' /\ HandlerSound'
    <3>1. ~Pending(s)' /\ receipt'[s].id \in issued' \cup {"none"}
      BY <1>1, <1>3, <1>5 DEF Pending, SiteAgrees
    <3>2. SiteAgrees(s)' /\ Known(s)'
      BY <1>1, <1>5, <1>6, <2>2, <3>1, SiteSaved
    <3>3. store'[s] # Erased /\ store'[s] # Unborn
      BY <3>2 DEF Known
    <3>4. HandlerSound'
      BY <1>1, <1>3, <1>4, <1>6, <1>7, <1>8, <1>11, <2>1, <3>3, HandlerGoesOn
    <3> QED
      BY <3>2, <3>4
  <2>3. CallSound'
    <3>1. store'[s] = r
      BY <1>1, <1>11 DEF Agreement
    <3>2. handler' # NoHandler /\ handler'.site = s /\ handler'.todo = handler.todo /\ handler'.mem = r
      BY <1>7, <1>10, <1>11 DEF NoHandler
    <3>3. ~Pending(s)' /\ receipt'[s].id # r.op.id
      BY <1>1, <1>5, <1>6 DEF Pending
    <3> QED
      BY <1>1, <1>6, <2>1, <3>1, <3>2, <3>3 DEF CallSound
  <2>4. SweepSound'
    BY <1>1, <1>3 DEF SweepSound
  <2> QED
    BY <1>1, <1>11, <2>2, <2>3, <2>4, PanelSide DEF Agreement
<1>12. CASE handler' = Failing(h) /\ UNCHANGED <<store, call>>
  <2>1. ~Pending(s)' /\ receipt'[s].id # r.op.id /\ store'[s] \notin {Unborn, Erased} /\ call' = NoCall
    BY <1>1, <1>3, <1>5, <1>6, <1>12 DEF Pending
  <2>2. HandlerSound'
    BY <1>1, <1>6, <1>7, <1>8, <1>10, <1>12, <2>1, FailingAgrees
  <2>3. CallSound' /\ SweepSound'
    BY <1>1, <1>3, <2>1 DEF CallSound, SweepSound
  <2> QED
    BY <1>1, <1>12, <2>2, <2>3, PanelIdle DEF Agreement
<1> QED
  BY <1>9, <1>10, <1>11, <1>12

\* What a confirmed operation changes.
LEMMA ConfirmedFacts ==
    ASSUME NEW kind, NEW r, IsRecord(r), r.op.state = "pending"
    PROVE  /\ IsRecord(Confirmed(kind, r))
           /\ Confirmed(kind, r).op.id = r.op.id /\ Confirmed(kind, r).op.kind = r.op.kind
           /\ Confirmed(kind, r).op.state = "succeeded"
<1> DEFINE op == [r.op EXCEPT !.state = "succeeded"]
<1>1. op \in Markers /\ op.id = r.op.id /\ op.kind = r.op.kind /\ op.state = "succeeded"
  BY DEF IsRecord, Markers, NoMarker
<1>2. [r EXCEPT !.op.state = "succeeded"] = [status |-> r.status, op |-> op, backups |-> r.backups,
                                            health |-> r.health]
  BY DEF IsRecord
<1> HIDE DEF op
<1>3. IsRecord(Confirmed(kind, r)) /\ Confirmed(kind, r).op = op
  <2>1. CASE kind \in {"create", "start"}
    BY <1>1, <1>2, <2>1 DEF Confirmed, IsRecord, Statuses
  <2>2. CASE kind \in {"stop", "restore-prepare"}
    BY <1>1, <1>2, <2>2 DEF Confirmed, IsRecord, Statuses
  <2>3. CASE kind \in {"restore", "resources"}
    BY <1>1, <1>2, <2>3 DEF Confirmed, IsRecord, Statuses
  <2>4. CASE kind \in BackupKinds
    BY <1>1, <1>2, <2>4 DEF Confirmed, IsRecord, Statuses, BackupKinds
  <2>5. CASE kind \notin BackupKinds \cup {"create", "start", "stop", "restore-prepare",
                                         "restore", "resources"}
    BY <1>1, <1>2, <2>5 DEF Confirmed, IsRecord, Statuses
  <2> QED
    BY <2>1, <2>2, <2>3, <2>4, <2>5
<1> QED
  BY <1>1, <1>3 DEF op

\* The answer to a tracked call, or the lack of one.
LEMMA AnsweredAgrees ==
    ASSUME PanelInv, Answered
    PROVE  Agreement'
<1>1. /\ Agreement /\ handler # NoHandler /\ call # NoCall /\ call.path = "tracked"
      /\ UNCHANGED <<vars, store, issued, sweep>> /\ UNCHANGED receipt /\ call' = NoCall
  BY DEF PanelInv, Answered, vars
<1>2. PICK s \in Sites : s = handler.site
  BY <1>1, HandlerFacts
<1>3. /\ sweep = {} /\ IsRecord(handler.mem) /\ InOrder(handler.act, handler.todo)
      /\ handler.mem.op.id \in issued \cup {"none"}
      /\ handler.mem.op.state = "pending" /\ handler.mem.op.kind = Head(handler.todo)
      /\ store[s] = handler.mem /\ Known(s) /\ call.site = s
  BY <1>1, <1>2, HandlerFacts, TrackedCall
<1>4. /\ handler.safety \in Ids \cup {"none"}
      /\ handler.act # "scheduled" => handler.from \in Ids \cup {"none"}
      /\ handler = [act |-> handler.act, site |-> handler.site, mem |-> handler.mem,
                    from |-> handler.from, safety |-> handler.safety, todo |-> handler.todo]
  BY <1>1 DEF Agreement, HandlerSound
<1>5. CallSound' /\ SweepSound'
  BY <1>1, <1>3 DEF CallSound, SweepSound
<1>6. store'[s] \notin {Unborn, Erased}
  BY <1>1, <1>3 DEF Known
<1>7. CASE call.phase = "ok" /\ handler' = Done([handler EXCEPT !.mem = Confirmed(Head(handler.todo), @)])
  <2> DEFINE r == Confirmed(Head(handler.todo), handler.mem)
             h == [handler EXCEPT !.mem = Confirmed(Head(handler.todo), @)]
  <2>1. /\ IsRecord(r) /\ r.op.id = handler.mem.op.id /\ r.op.kind = handler.mem.op.kind
        /\ r.op.state = "succeeded"
    <3>1. \A k : /\ IsRecord(Confirmed(k, handler.mem))
                 /\ Confirmed(k, handler.mem).op.id = handler.mem.op.id
                 /\ Confirmed(k, handler.mem).op.kind = handler.mem.op.kind
                 /\ Confirmed(k, handler.mem).op.state = "succeeded"
      BY <1>3, ConfirmedFacts
    <3> QED
      BY <3>1, Zenon
  <2>2. receipt[s] = SucceededReceipt(handler.mem.op)
    BY <1>1, <1>3, <1>7 DEF Agreement, CallSound
  <2>3. receipt[s] = SucceededReceipt(r.op) /\ ~Pending(s)
    BY <2>1, <2>2 DEF SucceededReceipt, Pending
  <2>4. h = [handler EXCEPT !.mem = r]
    OBVIOUS
  <2>5. handler' = Done(h)
    BY <1>7
  <2> HIDE DEF r, h
  <2>6. h = [act |-> handler.act, site |-> s, mem |-> r, from |-> handler.from,
             safety |-> handler.safety, todo |-> handler.todo]
    BY <1>2, <1>4, <2>4
  <2>7. HandlerSound'
    <3>1. CASE Tail(handler.todo) = <<>>
      BY <2>5, <2>6, <3>1 DEF Done, HandlerSound
    <3>2. CASE Tail(handler.todo) # <<>>
      <4>1. handler' = [act |-> handler.act, site |-> s, mem |-> r, from |-> handler.from,
                        safety |-> handler.safety, todo |-> Tail(handler.todo)]
        BY <2>5, <2>6, <3>2 DEF Done
      <4>2. /\ Tail(handler.todo) \in Todos(handler.act)
            /\ Tail(handler.todo) = <<"erase">> => r.op.kind = "delete"
            /\ Tail(handler.todo) # <<"scheduled-backup", "save", "prune">>
        BY <1>3, <2>1, <3>2 DEF InOrder
      <4>3. ~Pending(s)' /\ receipt'[s] = SucceededReceipt(r.op)
        BY <1>1, <2>3 DEF Pending
      <4> QED
        BY <1>1, <1>3, <1>4, <1>6, <2>1, <4>1, <4>2, <4>3, HandlerGoesOn
    <3> QED
      BY <3>1, <3>2
  <2> QED
    BY <1>1, <1>5, <2>7, PanelIdle DEF Agreement
<1>8. CASE handler' = Failing(handler)
  <2>1. HandlerSound'
    BY <1>1, <1>2, <1>3, <1>4, <1>6, <1>8, FailingAgrees
  <2> QED
    BY <1>1, <1>5, <2>1, PanelIdle DEF Agreement
<1> QED
  BY <1>7, <1>8 DEF Answered

\* The handler asks for a backup to be removed, and is answered.
LEMMA DiscardAgrees ==
    ASSUME PanelInv, Discard
    PROVE  Agreement'
<1>1. /\ Agreement /\ handler # NoHandler /\ call = NoCall /\ Head(handler.todo) = "discard"
      /\ UNCHANGED <<vars, store, issued, handler, sweep>>
      /\ call' = [path |-> "discard", site |-> handler.site, phase |-> "sent"]
  BY DEF PanelInv, Discard, HandlerAt
<1>2. call' # NoCall /\ call'.path = "discard" /\ call'.site = handler.site /\ call'.phase = "sent"
      /\ call' \in Calls
  BY <1>1, HandlerFacts DEF NoCall, Calls
<1>3. CallSound' /\ SweepSound'
  BY <1>1, <1>2, HandlerFacts DEF CallSound, SweepSound
<1>4. HandlerSound'
  <2>1. handler.todo # <<"save", "create", "save">>
    BY <1>1, HandlerFacts DEF InOrder
  <2>2. CopyAgrees(handler)'
    BY <1>1, CopyFacts DEF CopyAgrees, Pending, Known, vars
  <2>3. IsRecord(handler.mem)'
    BY <1>1, HandlerFacts DEF IsRecord
  <2>4. UNCHANGED <<store, issued, handler>>
    BY <1>1
  <2> QED
    BY <1>1, <2>1, <2>2, <2>3, <2>4 DEF HandlerSound, Agreement
<1> QED
  BY <1>1, <1>3, <1>4, PanelIdle DEF Agreement

\* /backup/delete was answered: the backup leaves the list, or the handler ends.
LEMMA DiscardedAgrees ==
    ASSUME PanelInv, Discarded
    PROVE  Agreement'
<1>1. /\ Agreement /\ handler # NoHandler /\ call # NoCall /\ call.path = "discard"
      /\ UNCHANGED <<vars, store, issued, sweep>> /\ UNCHANGED receipt /\ call' = NoCall
  BY DEF PanelInv, Discarded, vars
<1>2. PICK s \in Sites : s = handler.site
  BY <1>1, HandlerFacts
<1>3. /\ sweep = {} /\ IsRecord(handler.mem) /\ InOrder(handler.act, handler.todo)
      /\ handler.mem.op.id \in issued \cup {"none"} /\ store[s] # Erased
      /\ Head(handler.todo) = "discard" /\ CopyAgrees(handler)
  BY <1>1, <1>2, HandlerFacts, CopyFacts DEF Agreement, CallSound
<1>4. /\ handler.safety \in Ids \cup {"none"}
      /\ handler.act # "scheduled" => handler.from \in Ids \cup {"none"}
      /\ handler = [act |-> handler.act, site |-> handler.site, mem |-> handler.mem,
                    from |-> handler.from, safety |-> handler.safety, todo |-> handler.todo]
      /\ store[s] # Unborn
  BY <1>1, <1>2 DEF Agreement, HandlerSound
<1>5. CASE handler' = NoHandler
  BY <1>1, <1>5, HandlerOver DEF Agreement
<1>6. CASE handler' = Done([handler EXCEPT !.mem.backups = Without(@, handler.from)])
  <2> DEFINE bs == Without(handler.mem.backups, handler.from)
             r == [handler.mem EXCEPT !.backups = bs]
             h == [handler EXCEPT !.mem.backups = Without(@, handler.from)]
  <2>1. handler' = Done(h)
    BY <1>6
  <2>2. h = [handler EXCEPT !.mem = r]
    BY <1>4
  <2> HIDE DEF bs, h
  <2>3. IsRecord(r) /\ r.op = handler.mem.op
    BY <1>3 DEF IsRecord
  <2> HIDE DEF r
  <2>4. h = [act |-> handler.act, site |-> s, mem |-> r, from |-> handler.from,
             safety |-> handler.safety, todo |-> handler.todo]
    BY <1>2, <1>4, <2>2
  <2>5. HandlerSound'
    <3>1. CASE Tail(handler.todo) = <<>>
      BY <2>1, <2>4, <3>1 DEF Done, HandlerSound
    <3>2. CASE Tail(handler.todo) # <<>>
      <4>1. handler' = [act |-> handler.act, site |-> s, mem |-> r, from |-> handler.from,
                        safety |-> handler.safety, todo |-> Tail(handler.todo)]
        BY <2>1, <2>4, <3>2 DEF Done
      <4>2. /\ Tail(handler.todo) \in Todos(handler.act)
            /\ Tail(handler.todo) # <<"erase">>
            /\ Tail(handler.todo) # <<"scheduled-backup", "save", "prune">>
            /\ handler.todo # <<"save">>
        BY <1>3, <3>2 DEF InOrder
      <4>3. /\ r.op.state # "pending" /\ ~Pending(s)'
            /\ r.op.state = "succeeded" => receipt'[s] = SucceededReceipt(r.op)
        BY <1>1, <1>2, <1>3, <2>3, <4>2 DEF Pending, CopyAgrees
      <4> QED
        BY <1>1, <1>3, <1>4, <2>3, <4>1, <4>2, <4>3, HandlerGoesOn
    <3> QED
      BY <3>1, <3>2
  <2>6. CallSound' /\ SweepSound'
    BY <1>1, <1>3 DEF CallSound, SweepSound
  <2> QED
    BY <1>1, <2>5, <2>6, PanelIdle DEF Agreement
<1> QED
  BY <1>5, <1>6 DEF Discarded

\* pruneScheduledBackups chooses the next backup to remove.
LEMMA PruneAgrees ==
    ASSUME PanelInv, Prune
    PROVE  Agreement'
<1>1. /\ Agreement /\ handler # NoHandler /\ call = NoCall /\ Head(handler.todo) = "prune"
      /\ UNCHANGED <<vars, store, issued, sweep, call>> /\ UNCHANGED receipt
  BY DEF PanelInv, Prune, HandlerAt, vars
<1>2. PICK s \in Sites : s = handler.site
  BY <1>1, HandlerFacts
<1>3. /\ sweep = {} /\ IsRecord(handler.mem) /\ InOrder(handler.act, handler.todo)
      /\ handler.mem.op.id \in issued \cup {"none"} /\ store[s] # Erased /\ CopyAgrees(handler)
  BY <1>1, <1>2, HandlerFacts, CopyFacts
<1>4. /\ handler.safety \in Ids \cup {"none"}
      /\ handler = [act |-> handler.act, site |-> handler.site, mem |-> handler.mem,
                    from |-> handler.from, safety |-> handler.safety, todo |-> handler.todo]
      /\ handler.todo # <<"save", "create", "save">> /\ handler.todo # <<"save">>
      /\ handler.act = "scheduled"
  BY <1>1, <1>3 DEF Agreement, HandlerSound, InOrder
<1>5. store[s] # Unborn
  BY <1>1, <1>2, <1>4 DEF Agreement, HandlerSound
<1>6. CASE handler' = NoHandler
  BY <1>1, <1>6, HandlerOver DEF Agreement
<1>7. CASE handler' # NoHandler
  <2> DEFINE b == Scheduled(handler.mem)[1].id
  <2>1. handler' = [handler EXCEPT !.from = b, !.todo = <<"discard", "save", "prune">>]
    BY <1>7 DEF Prune
  <2> HIDE DEF b
  <2>2. handler' = [act |-> handler.act, site |-> s, mem |-> handler.mem, from |-> b,
                    safety |-> handler.safety, todo |-> <<"discard", "save", "prune">>]
    BY <1>2, <1>4, <2>1
  <2>3. /\ <<"discard", "save", "prune">> \in Todos(handler.act)
        /\ <<"discard", "save", "prune">> # <<"erase">>
        /\ <<"discard", "save", "prune">> # <<"scheduled-backup", "save", "prune">>
    BY <1>4 DEF Todos
  <2>4. /\ handler.mem.op.state # "pending" /\ ~Pending(s)'
        /\ handler.mem.op.state = "succeeded" => receipt'[s] = SucceededReceipt(handler.mem.op)
    BY <1>1, <1>2, <1>3, <1>4 DEF Pending, CopyAgrees
  <2>5. HandlerSound'
    BY <1>1, <1>3, <1>4, <1>5, <2>2, <2>3, <2>4, HandlerGoesOn
  <2>6. CallSound' /\ SweepSound'
    BY <1>1, <1>3 DEF CallSound, SweepSound
  <2> QED
    BY <1>1, <2>5, <2>6, PanelIdle DEF Agreement
<1> QED
  BY <1>6, <1>7

-----------------------------------------------------------------------------
(* Reconciliation *)

\* reconcileRuntime takes opsMu and lists the sites.
LEMMA StartSweepAgrees ==
    ASSUME PanelInv, StartSweep
    PROVE  Agreement'
<1>1. Agreement /\ OpsFree /\ UNCHANGED <<vars, store, issued, handler, call>>
  BY DEF PanelInv, StartSweep
<1>2. call = NoCall /\ handler = NoHandler
  BY <1>1, IdleNoCall DEF OpsFree
<1>3. HandlerSound' /\ CallSound'
  BY <1>1, <1>2 DEF HandlerSound, CallSound
<1>4. SweepSound'
  BY <1>1, <1>2 DEF StartSweep, SweepSound, Known
<1> QED
  BY <1>1, <1>3, <1>4, PanelIdle DEF Agreement

\* What is known while the sweep holds opsMu.
LEMMA SweepFacts ==
    ASSUME Agreement, sweep # {}, call # NoCall
    PROVE  /\ handler = NoHandler /\ call.path = "runtime" /\ call.site \in sweep
           /\ call.site \in Sites /\ Known(call.site) /\ SiteAgrees(call.site)
           /\ IsRecord(store[call.site]) /\ store[call.site].op.id \in issued \cup {"none"}
<1>1. handler = NoHandler /\ \A s \in sweep : s \in Sites /\ Known(s)
  BY DEF Agreement, SweepSound
<1>2. call.path = "runtime" /\ call.site \in sweep
  BY <1>1 DEF Agreement, CallSound
<1> QED
  BY <1>1, <1>2 DEF Agreement, SiteAgrees, Known

\* The sweep asks /runtime about the next site.
LEMMA ProbeAgrees ==
    ASSUME PanelInv, NEW s \in Sites, Probe(s)
    PROVE  Agreement'
<1>1. /\ Agreement /\ s \in sweep /\ UNCHANGED <<vars, store, issued, handler, sweep>>
      /\ call' = [path |-> "runtime", site |-> s, phase |-> "sent"]
  BY DEF PanelInv, Probe
<1>2. call' # NoCall /\ call'.path = "runtime" /\ call'.site = s /\ call'.phase = "sent" /\ call' \in Calls
  BY <1>1 DEF NoCall, Calls
<1>3. handler = NoHandler
  BY <1>1 DEF Agreement, SweepSound
<1>4. HandlerSound' /\ CallSound' /\ SweepSound'
  BY <1>1, <1>2, <1>3 DEF HandlerSound, CallSound, SweepSound, Agreement, Known
<1> QED
  BY <1>1, <1>4, PanelIdle DEF Agreement

\* The marker after the receipt has been read: settled, and a success only if it
\* is the receipt's.
LEMMA ResolvedFacts ==
    ASSUME NEW op \in Markers, NEW rcpt \in Receipts \cup {NoReceipt}, rcpt.state # "pending",
           rcpt.id = op.id => rcpt.kind = WorkerKind(op.kind)
    PROVE  /\ Resolved(op, rcpt) \in Markers /\ Resolved(op, rcpt).id = op.id
           /\ Resolved(op, rcpt).kind = op.kind /\ Resolved(op, rcpt).state # "pending"
           /\ Resolved(op, rcpt).state = "succeeded" =>
                 rcpt = SucceededReceipt(Resolved(op, rcpt))
<1>1. CASE rcpt.id # op.id
  BY <1>1 DEF Resolved, Markers
<1>2. CASE rcpt.id = op.id
  <2>1. rcpt \in Receipts
    BY <1>2, NoneAssumption DEF NoReceipt, Markers
  <2>2. Resolved(op, rcpt) = [op EXCEPT !.state = rcpt.state]
    BY <1>2 DEF Resolved
  <2>3. rcpt = [id |-> rcpt.id, kind |-> rcpt.kind, state |-> rcpt.state]
        /\ rcpt.state \in {"pending", "succeeded", "failed", "interrupted"}
    BY <2>1 DEF Receipts
  <2>4. /\ Resolved(op, rcpt) \in Markers /\ Resolved(op, rcpt).id = op.id
        /\ Resolved(op, rcpt).kind = op.kind /\ Resolved(op, rcpt).state = rcpt.state
    BY <2>2, <2>3 DEF Markers
  <2>5. rcpt.state = "succeeded" => rcpt = [id |-> op.id, kind |-> WorkerKind(op.kind), state |-> "succeeded"]
    BY <1>2, <2>3
  <2>6. rcpt.state = "succeeded" => rcpt = SucceededReceipt(Resolved(op, rcpt))
    BY <2>4, <2>5 DEF SucceededReceipt
  <2> QED
    BY <2>4, <2>6
<1> QED
  BY <1>1, <1>2

\* The record reconcileRuntime writes: the site is forgotten only when its
\* deletion is confirmed, and a settled marker agrees with the receipt.
LEMMA ReconciledFacts ==
    ASSUME NEW r, NEW answer, IsRecord(r), answer.op \in Receipts \cup {NoReceipt},
           answer.op.state # "pending",
           answer.status \in {"running", "stopped", "unhealthy"},
           Busy(r) /\ answer.op.id = r.op.id => answer.op.kind = WorkerKind(r.op.kind),
           r.op.state = "succeeded" => answer.op = SucceededReceipt(r.op)
    PROVE  \/ /\ Reconciled(r, answer) = Erased
              /\ answer.op.kind = "delete" /\ answer.op.state = "succeeded"
           \/ /\ IsRecord(Reconciled(r, answer))
              /\ Reconciled(r, answer).op.id = r.op.id
              /\ Reconciled(r, answer).op.state # "pending"
              /\ Reconciled(r, answer).op.state = "succeeded" =>
                    answer.op = SucceededReceipt(Reconciled(r, answer).op)
<1> DEFINE op == IF Busy(r) THEN Resolved(r.op, answer.op) ELSE r.op
           status == CASE Busy(r) /\ op.kind = "create" -> "failed"
                       [] Busy(r) /\ op.kind # "create" -> answer.status
                       [] ~Busy(r) /\ r.status = "creating" -> "failed"
                       [] ~Busy(r) /\ r.status = "deleting" -> "unhealthy"
                       [] ~Busy(r) /\ r.status = "failed" -> "failed"
                       [] OTHER -> answer.status
           bs == IF Busy(r) THEN Recovered(r, answer.op) ELSE r.backups
<1>1. /\ op \in Markers \cup {NoMarker} /\ op.id = r.op.id /\ op.state # "pending"
      /\ op.state = "succeeded" => answer.op = SucceededReceipt(op)
  <2>1. CASE Busy(r)
    <3>1. r.op \in Markers
      BY <2>1 DEF Busy, IsRecord, NoMarker
    <3>2. op = Resolved(r.op, answer.op)
      BY <2>1
    <3> HIDE DEF op
    <3> QED
      BY <2>1, <3>1, <3>2, ResolvedFacts
  <2>2. CASE ~Busy(r)
    BY <2>2 DEF Busy, IsRecord
  <2> QED
    BY <2>1, <2>2
<1>2. status \in Statuses
  BY DEF Statuses
<1>3. Reconciled(r, answer) =
         IF Busy(r) /\ op.kind = "delete" /\ op.state = "succeeded" THEN Erased
         ELSE [status |-> status, op |-> op, health |-> FALSE, backups |-> bs]
  BY DEF Reconciled
<1> HIDE DEF op, status, bs
<1>4. CASE Busy(r) /\ op.kind = "delete" /\ op.state = "succeeded"
  BY <1>1, <1>3, <1>4 DEF SucceededReceipt, WorkerKind, BackupKinds
<1>5. CASE ~(Busy(r) /\ op.kind = "delete" /\ op.state = "succeeded")
  <2>1. Reconciled(r, answer) = [status |-> status, op |-> op, backups |-> bs, health |-> FALSE]
    BY <1>3, <1>5
  <2> QED
    BY <1>1, <1>2, <2>1 DEF IsRecord
<1> QED
  BY <1>4, <1>5

\* The answer of /runtime is applied to the record.
LEMMA ReconcileAgrees ==
    ASSUME PanelInv, Reconcile
    PROVE  Agreement'
<1>1. /\ Agreement /\ sweep # {} /\ call # NoCall /\ UNCHANGED <<vars, issued, handler>>
      /\ UNCHANGED <<receipt, host>> /\ call' = NoCall
  BY DEF PanelInv, Reconcile, vars
<1>2. PICK s \in Sites : s = call.site
  BY <1>1, SweepFacts
<1>3. /\ handler = NoHandler /\ call.path = "runtime" /\ Known(s) /\ SiteAgrees(s)
      /\ IsRecord(store[s]) /\ store[s].op.id \in issued \cup {"none"} /\ s \in sweep
  BY <1>1, <1>2, SweepFacts
<1>4. HandlerSound' /\ CallSound'
  BY <1>1, <1>3 DEF HandlerSound, CallSound
<1>5. CASE sweep' = {} /\ UNCHANGED store
  BY <1>1, <1>4, <1>5, PanelIdle DEF Agreement, SweepSound
<1>6. ASSUME NEW record, store' = [store EXCEPT ![s] = record], sweep' = sweep \ {s},
             store'[s] = record => SiteAgrees(s)'
      PROVE  Agreement'
  <2>1. \A t \in Sites \ {s} : store'[t] = store[t]
    BY <1>1, <1>6 DEF Agreement
  <2>2. SweepSound'
    BY <1>1, <1>3, <1>6, <2>1 DEF SweepSound, Agreement, Known
  <2> QED
    BY <1>1, <1>4, <1>6, <2>2, PanelSide DEF Agreement
<1>7. receipt[s].id \in issued \cup {"none"} /\ receipt[s] \in Receipts \cup {NoReceipt}
  BY <1>3 DEF SiteAgrees, PanelInv, Inv, TypeOK
<1>8. CASE /\ call.phase = "ok" /\ store' = [store EXCEPT ![s] = Reconciled(store[s], call.answer)]
           /\ sweep' = sweep \ {s}
  <2>1. /\ call.answer.op = receipt[s] /\ ~Pending(s)
        /\ call.answer.status \in {"running", "stopped", "unhealthy"}
    BY <1>1, <1>2, <1>3, <1>8 DEF Agreement, CallSound
  <2>2. /\ receipt[s].state # "pending"
        /\ Busy(store[s]) /\ receipt[s].id = store[s].op.id => receipt[s].kind = WorkerKind(store[s].op.kind)
        /\ store[s].op.state = "succeeded" => receipt[s] = SucceededReceipt(store[s].op)
    BY <1>3, <2>1 DEF SiteAgrees, Pending
  <2>3. PICK record : record = Reconciled(store[s], call.answer)
    OBVIOUS
  <2>4. \/ record = Erased /\ receipt[s].kind = "delete" /\ receipt[s].state = "succeeded"
        \/ /\ IsRecord(record) /\ record.op.id = store[s].op.id /\ record.op.state # "pending"
           /\ record.op.state = "succeeded" => receipt[s] = SucceededReceipt(record.op)
    BY <1>3, <1>7, <2>1, <2>2, <2>3, ReconciledFacts
  <2>5. CASE record = Erased /\ receipt[s].kind = "delete" /\ receipt[s].state = "succeeded"
    <3>1. host[s] = NoHost
      BY <2>5 DEF PanelInv, ContentInv, SitesSound, SiteSound
    <3>2. ASSUME store'[s] = record
          PROVE  SiteAgrees(s)'
      <4>1. ~Known(s)' /\ ~Pending(s)' /\ host'[s] = NoHost /\ store'[s] = Erased
        BY <1>1, <2>5, <3>1, <3>2 DEF Known, Pending
      <4> QED
        BY <1>1, <1>7, <4>1 DEF SiteAgrees
    <3> QED
      BY <1>6, <1>8, <2>3, <3>2
  <2>6. CASE /\ IsRecord(record) /\ record.op.id = store[s].op.id /\ record.op.state # "pending"
             /\ record.op.state = "succeeded" => receipt[s] = SucceededReceipt(record.op)
    <3>1. ~Pending(s)'
      BY <1>1, <2>1 DEF Pending
    <3>2. ASSUME store'[s] = record
          PROVE  SiteAgrees(s)'
      BY <1>1, <1>3, <1>7, <2>6, <3>1, <3>2, SiteSaved
    <3> QED
      BY <1>6, <1>8, <2>3, <3>2
  <2> QED
    BY <2>4, <2>5, <2>6
<1>9. CASE store' = [store EXCEPT ![s] = [store[s] EXCEPT !.health = TRUE]] /\ sweep' = sweep \ {s}
  <2>1. PICK record : record = [store[s] EXCEPT !.health = TRUE]
    OBVIOUS
  <2>2. IsRecord(record) /\ record.op = store[s].op
    BY <1>3, <2>1 DEF IsRecord
  <2>3. ASSUME store'[s] = record
        PROVE  SiteAgrees(s)'
    <3>1. /\ Pending(s)' => record.op.state = "pending" /\ record.op.id = receipt'[s].id
          /\ record.op.state = "succeeded" => receipt'[s] = SucceededReceipt(record.op)
          /\ record.op.state = "pending" /\ record.op.id = receipt'[s].id =>
                receipt'[s].kind = WorkerKind(record.op.kind)
      BY <1>1, <1>3, <2>2 DEF SiteAgrees, Pending, Busy
    <3> QED
      BY <1>1, <1>3, <1>7, <2>2, <2>3, <3>1, SiteSaved
  <2> QED
    BY <1>6, <1>9, <2>1, <2>3
<1> QED
  BY <1>2, <1>5, <1>8, <1>9 DEF Reconcile

-----------------------------------------------------------------------------
(* Steps of the worker and of the network *)

\* The worker changes a receipt only where it is pending, and then only its
\* state; a site the panel has forgotten stays as it is.
Faithful ==
    /\ \A s \in Sites : \/ receipt'[s] = receipt[s]
                        \/ /\ Pending(s) /\ receipt'[s].id = receipt[s].id
                           /\ receipt'[s].kind = receipt[s].kind
    /\ \A s \in Sites : store[s] = Erased => host'[s] = host[s]

\* The call goes on, for the same site.
SameCall ==
    /\ call' = NoCall <=> call = NoCall
    /\ call # NoCall => /\ call' \in Calls \cup RuntimeReplies
                        /\ call'.path = call.path /\ call'.site = call.site

\* A site whose receipt the worker may have settled.
LEMMA SiteFaithful ==
    ASSUME Faithful, UNCHANGED <<store, issued>>, NEW s \in Sites, SiteAgrees(s)
    PROVE  SiteAgrees(s)'
<1>1. CASE receipt'[s] = receipt[s]
  BY <1>1, SiteSame DEF Faithful
<1>2. CASE receipt'[s] # receipt[s]
  <2>1. Pending(s) /\ receipt'[s].id = receipt[s].id /\ receipt'[s].kind = receipt[s].kind
    BY <1>2 DEF Faithful
  <2>2. Known(s) /\ Busy(store[s]) /\ store[s].op.id = receipt[s].id
    BY <2>1 DEF SiteAgrees
  <2>3. store[s].op.state # "succeeded" /\ store[s] # Erased
    BY <2>2 DEF Busy, Known
  <2>4. UNCHANGED <<store, issued>>
    OBVIOUS
  <2> QED
    BY <2>1, <2>2, <2>3, <2>4 DEF SiteAgrees, Known, Busy, IsRecord
<1> QED
  BY <1>1, <1>2

\* The worker's steps while the panel waits or is idle.
LEMMA WorkerSide ==
    ASSUME Agreement, UNCHANGED <<store, issued, handler, sweep>>, Faithful, SameCall, CallSound'
    PROVE  Agreement'
<1>1. ASSUME NEW s \in Sites
      PROVE  SiteAgrees(s)'
  BY SiteFaithful DEF Agreement
<1>2. HandlerSound'
  <2>1. CASE handler = NoHandler
    BY <2>1 DEF HandlerSound
  <2>2. CASE handler # NoHandler
    <3>1. PICK s \in Sites : s = handler.site
      BY <2>2, HandlerFacts
    <3>2. ASSUME call' = NoCall \/ call'.path # "tracked"
          PROVE  CopyAgrees(handler)'
      <4>1. CopyAgrees(handler)
        BY <2>2, <3>2, CopyFacts DEF SameCall
      <4>2. ~Pending(s) => receipt'[s] = receipt[s]
        BY DEF Faithful
      <4>3. ~Pending(s) => ~Pending(s)'
        BY <4>2 DEF Pending
      <4>4. handler.mem.op.state = "pending" =>
               /\ handler.todo = <<"save">>
               /\ \/ ~Pending(s)' /\ receipt'[s].id # handler.mem.op.id
                  \/ Known(s)' /\ store'[s].op = handler.mem.op
        BY <3>1, <4>1, <4>2, <4>3 DEF CopyAgrees, Known
      <4>5. /\ handler.mem.op.state # "pending" => ~Pending(s)'
            /\ handler.mem.op.state = "succeeded" => receipt'[s] = SucceededReceipt(handler.mem.op)
        BY <3>1, <4>1, <4>2, <4>3 DEF CopyAgrees
      <4> QED
        BY <3>1, <4>4, <4>5 DEF CopyAgrees, Pending, Known
    <3>3. IsRecord(handler.mem)'
      BY <2>2, HandlerFacts DEF IsRecord
    <3> QED
      BY <2>2, <3>2, <3>3 DEF Agreement, HandlerSound, SameCall
  <2> QED
    BY <2>1, <2>2
<1>3. SweepSound'
  BY DEF Agreement, SweepSound, Known
<1> QED
  BY <1>1, <1>2, <1>3 DEF Agreement

\* What a phase of a call says is not undone by the worker.
LEMMA PhaseKept ==
    ASSUME Agreement, UNCHANGED <<store, issued, handler, sweep>>, Faithful, call # NoCall,
           call' = call,
           call.phase = "received" =>
              /\ task' # NoTask /\ task'.site = call.site
              /\ call.path = "tracked" => task'.mode \in {"run", "fence"}
              /\ call.path = "runtime" => task'.mode = "recover"
    PROVE  CallSound'
<1>1. PICK s \in Sites : s = call.site
  BY DEF Agreement, CallSound, Calls, RuntimeReplies
<1>2. ~Pending(s) => receipt'[s] = receipt[s] /\ ~Pending(s)'
  BY DEF Faithful, Pending
<1>3. receipt[s].state = "succeeded" => receipt'[s] = receipt[s]
  BY <1>2 DEF Pending
<1>4. call.path = "tracked" /\ call.phase = "ok" => receipt'[s] = SucceededReceipt(handler.mem.op)
  BY <1>1, <1>3 DEF Agreement, CallSound, SucceededReceipt
<1>5. call.path = "tracked" /\ call.phase = "sent" =>
         ~Pending(s)' /\ receipt'[s].id # handler.mem.op.id
  BY <1>1, <1>2 DEF Agreement, CallSound
<1>6. call.path = "runtime" /\ call.phase = "ok" =>
         /\ call.answer.op = receipt'[s] /\ ~Pending(s)'
         /\ call.answer.status \in {"running", "stopped", "unhealthy"}
  BY <1>1, <1>2 DEF Agreement, CallSound
<1>7. /\ call \in Calls \cup RuntimeReplies
      /\ call.path # "runtime" => handler # NoHandler /\ call.site = handler.site
      /\ call.path = "runtime" => call.site \in sweep
      /\ call.path = "discard" =>
            call.phase \in {"sent", "ok", "error"} /\ Head(handler.todo) = "discard"
      /\ call.phase = "busy" => call.path = "runtime"
      /\ call.path = "tracked" =>
            /\ Head(handler.todo) \in PanelKinds
            /\ handler.mem.op.state = "pending" /\ handler.mem.op.kind = Head(handler.todo)
            /\ store[call.site] = handler.mem
  BY DEF Agreement, CallSound
<1> QED
  BY <1>1, <1>4, <1>5, <1>6, <1>7 DEF CallSound, Pending, SucceededReceipt

\* A call that is answered, refused or lost.
LEMMA PhaseNew ==
    ASSUME Agreement, UNCHANGED <<store, issued, handler, sweep>>, call # NoCall, NEW phase,
           call' \in Calls \cup RuntimeReplies, call' # NoCall,
           call'.path = call.path, call'.site = call.site, call'.phase = phase,
           phase # "sent",
           phase = "received" => /\ call.path # "discard" /\ task' # NoTask /\ task'.site = call.site
                                 /\ call.path = "tracked" => task'.mode \in {"run", "fence"}
                                 /\ call.path = "runtime" => task'.mode = "recover",
           phase = "busy" => call.path = "runtime",
           phase = "ok" /\ call.path = "tracked" => receipt'[call.site] = SucceededReceipt(handler.mem.op),
           phase = "ok" /\ call.path = "runtime" =>
              /\ call'.answer.op = receipt'[call.site] /\ receipt'[call.site].state # "pending"
              /\ call'.answer.status \in {"running", "stopped", "unhealthy"}
    PROVE  CallSound'
<1>1. PICK s \in Sites : s = call.site
  BY DEF Agreement, CallSound, Calls, RuntimeReplies
<1>2. phase \in {"received", "ok", "busy", "error"}
  BY DEF Calls, RuntimeReplies
<1>3. /\ call.path # "runtime" => handler # NoHandler /\ call.site = handler.site
      /\ call.path = "runtime" => call.site \in sweep
      /\ call.path = "discard" => Head(handler.todo) = "discard"
      /\ call.path = "tracked" =>
            /\ Head(handler.todo) \in PanelKinds
            /\ handler.mem.op.state = "pending" /\ handler.mem.op.kind = Head(handler.todo)
            /\ store[call.site] = handler.mem
  BY DEF Agreement, CallSound
<1> QED
  BY <1>1, <1>2, <1>3 DEF CallSound, Pending, SucceededReceipt

\* Receipts and forgotten sites are as they were.
LEMMA FaithfulIdle ==
    ASSUME receipt' = receipt, \A s \in Sites : store[s] = Erased => host'[s] = host[s]
    PROVE  Faithful
BY DEF Faithful

\* A forgotten site has no pending receipt.
LEMMA ErasedSettled ==
    ASSUME Agreement, NEW s \in Sites, store[s] = Erased
    PROVE  ~Pending(s) /\ host[s] = NoHost
BY DEF Agreement, SiteAgrees, Known

\* The call with another phase.
LEMMA CallPhase ==
    ASSUME Agreement, call # NoCall, NEW phase \in {"sent", "received", "ok", "busy", "error"},
           \/ /\ call.phase \in {"sent", "received"}
              /\ call' = [call EXCEPT !.phase = phase]
           \/ call' = [path |-> call.path, site |-> call.site, phase |-> phase]
    PROVE  call' \in Calls /\ call' # NoCall /\ call'.path = call.path /\ call'.site = call.site
           /\ call'.phase = phase
<1>1. call \in Calls \cup RuntimeReplies
  BY DEF Agreement, CallSound
<1>2. CASE call' = [path |-> call.path, site |-> call.site, phase |-> phase]
  BY <1>1, <1>2 DEF Calls, RuntimeReplies, NoCall
<1>3. CASE call.phase \in {"sent", "received"} /\ call' = [call EXCEPT !.phase = phase]
  <2>1. call \in Calls
    BY <1>1, <1>3 DEF RuntimeReplies
  <2> QED
    BY <1>3, <2>1 DEF Calls, NoCall
<1> QED
  BY <1>2, <1>3

\* The worker takes a tracked request, or fails to save its receipt.
LEMMA DeliverAgrees ==
    ASSUME PanelInv, NEW outcome \in Outcomes, Deliver(outcome)
    PROVE  Agreement'
<1>1. /\ Agreement /\ call # NoCall /\ call.path = "tracked" /\ call.phase = "sent"
      /\ UNCHANGED <<store, issued, handler, sweep>>
  BY DEF PanelInv, Deliver, Sent
<1>2. PICK s \in Sites : s = call.site
  BY <1>1, TrackedCall
<1>3. /\ handler # NoHandler /\ s = handler.site /\ Head(handler.todo) \in PanelKinds
      /\ handler.mem.op.state = "pending" /\ handler.mem.op.kind = Head(handler.todo)
      /\ handler.mem.op.id \in Ids /\ store[s] = handler.mem /\ Known(s)
  BY <1>1, <1>2, TrackedCall
<1>4. IsRecord(handler.mem) /\ handler.mem.op.id \in issued \cup {"none"} /\ ~Pending(s) /\ SiteAgrees(s)
  BY <1>1, <1>2, <1>3, HandlerFacts DEF Agreement, CallSound
<1> DEFINE new == [id |-> handler.mem.op.id, kind |-> WorkerKind(Head(handler.todo)), state |-> "pending"]
           phase == IF outcome = "synced" THEN "received" ELSE "error"
<1>5. TheRequest.site = s /\ TheRequest.id = new.id /\ TheRequest.kind = new.kind
  BY <1>2 DEF TheRequest
<1>6. /\ receipt' = [receipt EXCEPT ![s] = IF outcome = "lost" THEN @ ELSE new]
      /\ host' = host
      /\ task' = IF outcome = "synced" THEN StartedTask(TheRequest) ELSE NoTask
  BY <1>5 DEF Deliver, Begin, SaveReceipt
<1>7. receipt'[s] \in {receipt[s], new} /\ \A t \in Sites \ {s} : receipt'[t] = receipt[t]
  BY <1>6 DEF PanelInv, Inv, TypeOK
<1>8. new.id = handler.mem.op.id /\ new.kind = WorkerKind(handler.mem.op.kind) /\ new.state = "pending"
  BY <1>3
<1> HIDE DEF new
<1>9. SiteAgrees(s)'
  <2>1. store'[s] = handler.mem
    BY <1>1, <1>3
  <2>2. CASE receipt'[s] = receipt[s]
    <3>1. host'[s] = host[s] /\ store'[s] = store[s] /\ issued \subseteq issued'
      BY <1>1, <1>6
    <3> QED
      BY <1>4, <2>2, <3>1, SiteSame
  <2>3. CASE receipt'[s] = new
    BY <1>1, <1>3, <1>4, <1>8, <2>1, <2>3, SiteSaved
  <2> QED
    BY <1>7, <2>2, <2>3
<1>10. ASSUME NEW t \in Sites, t # s
       PROVE  SiteAgrees(t)'
  <2>1. /\ store'[t] = store[t] /\ receipt'[t] = receipt[t] /\ host'[t] = host[t] /\ SiteAgrees(t)
        /\ issued \subseteq issued'
    BY <1>1, <1>6, <1>7, <1>10 DEF Agreement
  <2> QED
    BY <2>1, SiteSame
<1>11. phase \in {"received", "error"} /\ call' = [call EXCEPT !.phase = phase]
  BY DEF Deliver
<1>12. phase = "received" => task' # NoTask /\ task'.site = s /\ task'.mode = "run"
  BY <1>5, <1>6 DEF StartedTask, NoTask
<1> HIDE DEF phase
<1>13. call' \in Calls /\ call' # NoCall /\ call'.path = call.path /\ call'.site = call.site
       /\ call'.phase = phase
  BY <1>1, <1>11, CallPhase
<1>14. CallSound'
  BY <1>1, <1>2, <1>11, <1>12, <1>13, PhaseNew
<1>15. HandlerSound'
  <2>1. IsRecord(handler.mem)'
    BY <1>1, <1>4 DEF IsRecord
  <2>2. call # NoCall /\ call.path = "tracked" /\ call' # NoCall /\ call'.path = "tracked"
    BY <1>1, <1>13
  <2> QED
    BY <1>1, <1>3, <2>1, <2>2 DEF Agreement, HandlerSound
<1>16. SweepSound'
  BY <1>1 DEF Agreement, SweepSound, Known
<1> QED
  BY <1>1, <1>9, <1>10, <1>14, <1>15, <1>16 DEF Agreement

\* A call is refused or lost.
LEMMA RefuseAgrees ==
    ASSUME PanelInv, Refuse \/ LoseCall
    PROVE  Agreement'
<1>1. /\ Agreement /\ call # NoCall /\ UNCHANGED <<store, issued, handler, sweep>>
      /\ UNCHANGED <<receipt, host>>
  BY DEF PanelInv, Refuse, LoseCall, vars
<1>2. PICK phase \in {"busy", "error"} :
         /\ \/ call.phase = "sent" /\ call' = [call EXCEPT !.phase = phase]
            \/ call' = [path |-> call.path, site |-> call.site, phase |-> phase]
         /\ phase = "busy" => call.path = "runtime"
  <2>1. CASE Refuse
    BY <2>1 DEF Refuse
  <2>2. CASE LoseCall
    BY <2>2 DEF LoseCall
  <2> QED
    BY <2>1, <2>2
<1>3. call' \in Calls /\ call' # NoCall /\ call'.path = call.path /\ call'.site = call.site
      /\ call'.phase = phase
  BY <1>1, <1>2, CallPhase
<1>4. CallSound' /\ SameCall
  BY <1>1, <1>2, <1>3, PhaseNew DEF SameCall
<1>5. Faithful
  BY <1>1, FaithfulIdle
<1> QED
  BY <1>1, <1>4, <1>5, WorkerSide

\* A backup is removed.
LEMMA DeliverDiscardAgrees ==
    ASSUME PanelInv, DeliverDiscard
    PROVE  Agreement'
<1>1. /\ Agreement /\ call # NoCall /\ call.path = "discard" /\ call.phase = "sent"
      /\ UNCHANGED <<store, issued, handler, sweep>> /\ UNCHANGED receipt
      /\ call' = [call EXCEPT !.phase = "ok"]
  BY DEF PanelInv, DeliverDiscard, DeleteBackup, Sent
<1>2. handler # NoHandler /\ call.site = handler.site /\ store[call.site] # Erased
  BY <1>1 DEF Agreement, CallSound, HandlerSound
<1>3. Faithful
  <2>1. \A s \in Sites : s # call.site => host'[s] = host[s]
    BY DEF DeliverDiscard, DeleteBackup, PanelInv, Inv, TypeOK
  <2> QED
    BY <1>1, <1>2, <2>1, FaithfulIdle
<1>4. call' \in Calls /\ call' # NoCall /\ call'.path = call.path /\ call'.site = call.site
      /\ call'.phase = "ok"
  BY <1>1, CallPhase
<1>5. CallSound' /\ SameCall
  BY <1>1, <1>4, PhaseNew DEF SameCall
<1> QED
  BY <1>1, <1>3, <1>5, WorkerSide

\* The snapshot of a site, as /runtime answers it.
LEMMA StatusShown ==
    ASSUME NEW h
    PROVE  RuntimeStatus(h) \in {"running", "stopped", "unhealthy"}
BY DEF RuntimeStatus

\* /runtime of a site at rest, or of one that has to be fenced first.
LEMMA DeliverRuntimeAgrees ==
    ASSUME PanelInv, DeliverRuntime \/ DeliverRecovery
    PROVE  Agreement'
<1>1. /\ Agreement /\ call # NoCall /\ call.path = "runtime" /\ call.phase = "sent"
      /\ UNCHANGED <<store, issued, handler, sweep>> /\ UNCHANGED <<receipt, host>>
  BY DEF PanelInv, DeliverRuntime, DeliverRecovery, Runtime, Sent, vars
<1>2. Faithful
  BY <1>1, FaithfulIdle
<1>3. PICK s \in Sites : s = call.site
  BY <1>1 DEF Agreement, CallSound, Calls, RuntimeReplies
<1>4. receipt[s] \in Receipts \cup {NoReceipt}
  BY DEF PanelInv, Inv, TypeOK
<1>5. CASE DeliverRuntime
  <2>1. receipt[s].state # "pending" /\ call' = RuntimeReply(call.site)
    BY <1>3, <1>5 DEF DeliverRuntime
  <2>2. PICK status \in {"running", "stopped", "unhealthy"} : status = RuntimeStatus(host'[s])
    BY StatusShown
  <2>3. call' = [path |-> "runtime", site |-> s, phase |-> "ok",
                 answer |-> [op |-> receipt'[s], status |-> status]]
    BY <1>3, <2>1, <2>2 DEF RuntimeReply
  <2>4. /\ call' \in RuntimeReplies /\ call' # NoCall /\ call'.path = "runtime" /\ call'.site = s
        /\ call'.phase = "ok" /\ call'.answer.op = receipt'[s] /\ call'.answer.status = status
    BY <1>1, <1>4, <2>3 DEF RuntimeReplies, Answers, NoCall
  <2>5. CallSound' /\ SameCall
    BY <1>1, <1>3, <2>1, <2>4, PhaseNew DEF SameCall
  <2> QED
    BY <1>1, <1>2, <2>5, WorkerSide
<1>6. CASE DeliverRecovery
  <2>1. task' = Recovery(call.site, "recover") /\ call' = [call EXCEPT !.phase = "received"]
    BY <1>6 DEF DeliverRecovery, Runtime
  <2>2. task' # NoTask /\ task'.site = call.site /\ task'.mode = "recover"
    BY <2>1 DEF Recovery, NoTask
  <2>3. call' \in Calls /\ call' # NoCall /\ call'.path = call.path /\ call'.site = call.site
        /\ call'.phase = "received"
    BY <1>1, <2>1, CallPhase
  <2>4. CallSound' /\ SameCall
    BY <1>1, <2>2, <2>3, PhaseNew DEF SameCall
  <2> QED
    BY <1>1, <1>2, <2>4, WorkerSide
<1> QED
  BY <1>5, <1>6

\* The worker goes on with the request, or drops it without an answer.
LEMMA RequestGoesOn ==
    ASSUME Agreement, UNCHANGED <<store, issued, handler, sweep>>, Faithful, Finish("error"),
           call # NoCall /\ call.phase = "received" /\ task' # NoTask =>
              /\ task # NoTask /\ task'.site = task.site
              /\ task'.mode = task.mode \/ (task.mode = "run" /\ task'.mode = "fence")
    PROVE  Agreement'
<1>1. CASE call = NoCall
  <2>1. call' = NoCall
    BY <1>1 DEF Finish
  <2> QED
    BY <1>1, <2>1, WorkerSide DEF CallSound, SameCall
<1>2. CASE call # NoCall /\ ~(call.phase = "received" /\ task' = NoTask)
  <2>1. call' = call
    BY <1>2 DEF Finish
  <2>2. call.phase = "received" =>
           /\ task' # NoTask /\ task'.site = call.site
           /\ call.path = "tracked" => task'.mode \in {"run", "fence"}
           /\ call.path = "runtime" => task'.mode = "recover"
    BY <1>2 DEF Agreement, CallSound
  <2>3. CallSound' /\ SameCall
    BY <1>2, <2>1, <2>2, PhaseKept DEF SameCall, Agreement, CallSound
  <2> QED
    BY <2>3, WorkerSide
<1>3. CASE call # NoCall /\ call.phase = "received" /\ task' = NoTask
  <2>1. call' = [call EXCEPT !.phase = "error"]
    BY <1>3 DEF Finish
  <2>2. call' \in Calls /\ call' # NoCall /\ call'.path = call.path /\ call'.site = call.site
        /\ call'.phase = "error"
    BY <1>3, <2>1, CallPhase
  <2>3. CallSound' /\ SameCall
    BY <1>3, <2>2, PhaseNew DEF SameCall
  <2> QED
    BY <2>3, WorkerSide
<1> QED
  BY <1>1, <1>2, <1>3

\* A step of the request the worker executes, and the death of the worker.
LEMMA WorkerStepAgrees ==
    ASSUME PanelInv, WorkerStep \/ WorkerCrash
    PROVE  Agreement'
<1>1. Agreement /\ Inv /\ UNCHANGED <<store, issued, handler, sweep>> /\ Finish("error")
  BY DEF PanelInv, WorkerStep, WorkerCrash
<1>2. CASE WorkerStep
  <2>1. Moves
    BY <1>1, <1>2, WorkerMoves DEF WorkerStep
  <2>2. Faithful
    BY <1>1, <2>1, ErasedSettled, FaithfulIdle DEF Moves
  <2> QED
    BY <1>1, <2>1, <2>2, RequestGoesOn DEF Moves
<1>3. CASE WorkerCrash
  <2>1. task' = NoTask /\ UNCHANGED <<receipt, host>>
    BY <1>3 DEF WorkerCrash, Crash
  <2>2. Faithful
    BY <2>1, FaithfulIdle
  <2> QED
    BY <1>1, <2>1, <2>2, RequestGoesOn
<1> QED
  BY <1>2, <1>3

\* The worker gives up on a request whose context is done, or starts again.
LEMMA WorkerRestartAgrees ==
    ASSUME PanelInv, WorkerTimeout \/ WorkerRestart
    PROVE  Agreement'
<1>1. Agreement /\ Inv /\ UNCHANGED <<store, issued, handler, sweep, call>>
  BY DEF PanelInv, WorkerTimeout, WorkerRestart, panelVars
<1>2. receipt' = receipt
  BY DEF WorkerTimeout, WorkerRestart, Disconnect, Boot, Settle, Serve
<1>3. Faithful
  <2>1. CASE host' = host
    BY <1>2, <2>1, FaithfulIdle
  <2>2. CASE Boot
    <3>1. ASSUME NEW s \in Sites, store[s] = Erased
          PROVE  host'[s] = host[s]
      <4>1. host[s] = NoHost /\ host[s] \in Hosts
        BY <1>1, <3>1, ErasedSettled DEF Inv, TypeOK
      <4>2. host[s].jobs = {}
        BY <4>1 DEF NoHost
      <4>3. Kill(host[s], Helpers \cup CliJobs) = host[s]
        BY <4>1, <4>2, KillNothing
      <4> QED
        BY <2>2, <4>3 DEF Boot
    <3> QED
      BY <1>2, <3>1, FaithfulIdle
  <2> QED
    BY <2>1, <2>2 DEF WorkerTimeout, WorkerRestart, Disconnect, Settle, Serve
<1>4. call # NoCall /\ call.phase = "received" =>
         task' # NoTask /\ task'.site = task.site /\ task'.mode = task.mode
  <2>1. CASE WorkerTimeout
    <3>1. task # NoTask /\ task' = [task EXCEPT !.live = FALSE]
      BY <2>1 DEF WorkerTimeout, Disconnect
    <3> QED
      BY <1>1, <3>1, TaskPending DEF Tasks, NoTask
  <2>2. CASE WorkerRestart
    <3>1. task = NoTask
      BY <2>2 DEF WorkerRestart, Boot, Settle, Serve, PanelInv, Attended
    <3> QED
      BY <1>1, <3>1 DEF Agreement, CallSound
  <2> QED
    BY <2>1, <2>2
<1>5. CallSound' /\ SameCall
  <2>1. CASE call = NoCall
    BY <1>1, <2>1 DEF CallSound, SameCall
  <2>2. CASE call # NoCall
    BY <1>1, <1>3, <1>4, <2>2, PhaseKept DEF SameCall, Agreement, CallSound
  <2> QED
    BY <2>1, <2>2
<1> QED
  BY <1>1, <1>3, <1>5, WorkerSide

\* The receipt takes its final state, and the panel is answered if it still waits.
LEMMA WorkerConcludesAgrees ==
    ASSUME PanelInv, NEW outcome \in Outcomes, WorkerConcludes(outcome)
    PROVE  Agreement'
<1>1. /\ Agreement /\ Inv /\ UNCHANGED <<store, issued, handler, sweep>>
      /\ task # NoTask /\ task' = NoTask /\ host' = host
  BY DEF PanelInv, WorkerConcludes, Conclude
<1>2. PICK s \in Sites : s = task.site
  BY <1>1, TaskPending
<1>3. Pending(s) /\ receipt[s] = [id |-> task.id, kind |-> task.kind, state |-> "pending"]
  BY <1>1, <1>2, TaskPending
<1> DEFINE new == [id |-> task.id, kind |-> task.kind, state |-> Verdict(task.mode)]
<1>4. receipt' = [receipt EXCEPT ![s] = IF outcome = "lost" THEN @ ELSE new]
  BY <1>2 DEF WorkerConcludes, Conclude, SaveReceipt
<1>5. new.id = receipt[s].id /\ new.kind = receipt[s].kind /\ new.state = Verdict(task.mode)
  BY <1>3
<1>6. task.mode \in {"run", "fence", "recover", "startup"}
  BY <1>1, TaskPending DEF Tasks
<1> HIDE DEF new
<1>7. /\ receipt'[s] = IF outcome = "lost" THEN receipt[s] ELSE new
      /\ \A t \in Sites \ {s} : receipt'[t] = receipt[t]
  BY <1>1, <1>4 DEF Inv, TypeOK
<1>8. Faithful
  BY <1>1, <1>3, <1>5, <1>7 DEF Faithful
<1>9. CASE call = NoCall
  <2>1. call' = NoCall
    BY <1>9 DEF WorkerConcludes, Finish
  <2> QED
    BY <1>1, <1>8, <1>9, <2>1, WorkerSide DEF CallSound, SameCall
<1>10. CASE call # NoCall /\ call.phase # "received"
  <2>1. call' = call
    BY <1>10 DEF WorkerConcludes, Finish
  <2>2. CallSound' /\ SameCall
    BY <1>1, <1>8, <1>10, <2>1, PhaseKept DEF SameCall, Agreement, CallSound
  <2> QED
    BY <1>1, <1>8, <2>2, WorkerSide
<1>11. CASE call # NoCall /\ call.phase = "received"
  <2>1. /\ s = call.site
        /\ call.path = "tracked" => task.mode \in {"run", "fence"}
        /\ call.path = "runtime" => task.mode = "recover"
        /\ call.path # "discard" /\ call.path \in {"tracked", "runtime", "discard"}
    BY <1>1, <1>2, <1>11 DEF Agreement, CallSound, Calls, RuntimeReplies
  <2>2. CASE outcome = "synced" /\ task.mode = "recover"
    <3>1. call' = RuntimeReply(call.site) /\ call.path = "runtime"
      BY <1>11, <2>1, <2>2 DEF WorkerConcludes
    <3>2. PICK status \in {"running", "stopped", "unhealthy"} : status = RuntimeStatus(host'[s])
      BY StatusShown
    <3>3. call' = [path |-> "runtime", site |-> s, phase |-> "ok",
                   answer |-> [op |-> receipt'[s], status |-> status]]
      BY <2>1, <3>1, <3>2 DEF RuntimeReply
    <3>4. receipt'[s] = new /\ new.state = "interrupted"
      BY <1>5, <1>7, <2>2 DEF Verdict
    <3>5. new \in Receipts
      BY <1>1, TaskPending DEF new, Tasks, Receipts, Verdict, Kinds
    <3>6. /\ call' \in RuntimeReplies /\ call' # NoCall /\ call'.path = "runtime" /\ call'.site = s
          /\ call'.phase = "ok" /\ call'.answer.op = receipt'[s] /\ call'.answer.status = status
      BY <3>3, <3>4, <3>5 DEF RuntimeReplies, Answers, NoCall
    <3>7. CallSound' /\ SameCall
      BY <1>1, <1>11, <2>1, <3>1, <3>4, <3>6, PhaseNew DEF SameCall
    <3> QED
      BY <1>1, <1>8, <3>7, WorkerSide
  <2>3. CASE ~(outcome = "synced" /\ task.mode = "recover")
    <3> DEFINE phase == IF task.mode = "run" /\ outcome = "synced" THEN "ok" ELSE "error"
    <3>1. Finish(phase)
      BY <1>11, <2>3 DEF WorkerConcludes
    <3>2. phase \in {"ok", "error"} /\ (phase = "ok" => task.mode = "run" /\ outcome = "synced")
      OBVIOUS
    <3> HIDE DEF phase
    <3>3. call' = [call EXCEPT !.phase = phase]
      BY <1>1, <1>11, <3>1 DEF Finish
    <3>4. call' \in Calls /\ call' # NoCall /\ call'.path = call.path /\ call'.site = call.site
          /\ call'.phase = phase
      BY <1>1, <1>11, <3>2, <3>3, CallPhase
    <3>5. ASSUME phase = "ok"
          PROVE  call.path = "tracked" /\ receipt'[s] = SucceededReceipt(handler.mem.op)
      <4>1. call.path = "tracked" /\ Verdict(task.mode) = "succeeded" /\ receipt'[s] = new
        BY <1>7, <2>1, <3>2, <3>5 DEF Verdict
      <4>2. store[s] = handler.mem /\ SiteAgrees(s)
        BY <1>1, <1>11, <2>1, <4>1, TrackedCall DEF Agreement
      <4>3. receipt[s].id = handler.mem.op.id /\ receipt[s].kind = WorkerKind(handler.mem.op.kind)
        BY <1>3, <4>2 DEF SiteAgrees
      <4> QED
        BY <1>3, <4>1, <4>3 DEF new, SucceededReceipt
    <3>6. CallSound' /\ SameCall
      BY <1>1, <1>11, <2>1, <3>2, <3>4, <3>5, PhaseNew DEF SameCall
    <3> QED
      BY <1>1, <1>8, <3>6, WorkerSide
  <2> QED
    BY <2>2, <2>3
<1> QED
  BY <1>9, <1>10, <1>11

\* The panel is started again.
LEMMA PanelRestartAgrees ==
    ASSUME PanelInv, PanelRestart
    PROVE  Agreement'
<1>1. Agreement /\ UNCHANGED <<vars, store, issued>> /\ handler' = NoHandler /\ sweep' = {} /\ call' = NoCall
  BY DEF PanelInv, PanelRestart
<1>2. HandlerSound' /\ CallSound' /\ SweepSound'
  BY <1>1 DEF HandlerSound, CallSound, SweepSound
<1> QED
  BY <1>1, <1>2, PanelIdle DEF Agreement

-----------------------------------------------------------------------------
(* The theorems *)

\* A new installation: no site, no receipt, no call.
LEMMA PanelInitSound ==
    ASSUME PanelInit
    PROVE  PanelInv
<1>1. Init /\ Inv /\ ContentInv
  BY InitSafe, InitContent DEF PanelInit
<1>2. Attended
  BY <1>1 DEF Init, Attended
<1>3. HandlerSound /\ CallSound /\ SweepSound
  BY DEF PanelInit, HandlerSound, CallSound, SweepSound
<1>4. ASSUME NEW s \in Sites
      PROVE  SiteAgrees(s)
  <2>1. store[s] = Unborn /\ receipt[s] = NoReceipt /\ Unborn # Erased
    BY <1>1 DEF PanelInit, Init, Unborn, Erased
  <2>2. NoReceipt.id = "none" /\ NoReceipt.state # "pending"
    BY DEF NoReceipt
  <2> QED
    BY <2>1, <2>2 DEF SiteAgrees, Pending, Known
<1>5. store = [s \in Sites |-> store[s]] /\ issued \subseteq Ids
  BY DEF PanelInit
<1> QED
  BY <1>1, <1>2, <1>3, <1>4, <1>5 DEF PanelInv, Agreement

\* Every step of either process preserves the invariant.
LEMMA PanelNextSound ==
    ASSUME PanelInv, [PanelNext]_allVars
    PROVE  PanelInv' /\ [Next]_vars
<1>1. [Next]_vars
  BY WorkerSeesRequests DEF PanelInv
<1>2. Inv' /\ ContentInv' /\ Attended'
  BY <1>1, NextSafe, NextContent, StaysAttended DEF PanelInv
<1>3. Agreement'
  <2>1. CASE UNCHANGED allVars
    <3>1. UNCHANGED <<vars, store, issued>> /\ UNCHANGED <<handler, sweep, call>>
          /\ UNCHANGED <<receipt, task>>
      BY <2>1 DEF allVars, panelVars, vars
    <3>2. Agreement
      BY DEF PanelInv
    <3>3. Faithful /\ SameCall
      BY <3>1, <3>2 DEF Faithful, SameCall, Agreement, CallSound, vars
    <3>4. CallSound'
      <4>1. CASE call = NoCall
        BY <3>1, <4>1 DEF CallSound
      <4>2. CASE call # NoCall
        BY <3>1, <3>2, <3>3, <4>2, PhaseKept DEF Agreement, CallSound
      <4> QED
        BY <4>1, <4>2
    <3> QED
      BY <3>1, <3>2, <3>3, <3>4, WorkerSide
  <2>2. CASE \E s \in Sites, act \in Actions, from \in Ids \cup {"none"} : StartHandler(s, act, from)
    BY <2>2, StartHandlerAgrees
  <2>3. CASE HandlerStep
    BY <2>3, SaveAgrees, EraseAgrees, AnsweredAgrees, DiscardAgrees, DiscardedAgrees, PruneAgrees,
       CallTrackedAgrees DEF HandlerStep
  <2>4. CASE StartSweep \/ SweepStep
    BY <2>4, StartSweepAgrees, ReconcileAgrees, ProbeAgrees DEF SweepStep
  <2>5. CASE Reception
    BY <2>5, DeliverAgrees, RefuseAgrees, DeliverDiscardAgrees, DeliverRuntimeAgrees DEF Reception
  <2>6. CASE WorkerStep \/ WorkerCrash \/ WorkerTimeout \/ WorkerRestart
    BY <2>6, WorkerStepAgrees, WorkerRestartAgrees
  <2>7. CASE \E outcome \in Outcomes : WorkerConcludes(outcome)
    BY <2>7, WorkerConcludesAgrees
  <2>8. CASE LoseCall \/ PanelRestart
    BY <2>8, RefuseAgrees, PanelRestartAgrees
  <2> QED
    BY <2>1, <2>2, <2>3, <2>4, <2>5, <2>6, <2>7, <2>8 DEF PanelNext
<1> QED
  BY <1>1, <1>2, <1>3 DEF PanelInv

\* The record of every site, the handler's copy of it and the call on its way
\* agree with the worker's receipt, whatever was lost or restarted.
THEOREM PanelSafety == PanelSpec => []PanelInv
<1>1. PanelInit => PanelInv
  BY PanelInitSound
<1>2. PanelInv /\ [PanelNext]_allVars => PanelInv'
  BY PanelNextSound
<1> QED
  BY <1>1, <1>2, PTL DEF PanelSpec

\* The panel is a well-behaved client: the worker it drives does what the
\* worker's own specification allows, so every theorem about the worker is one
\* about the whole system.
THEOREM PanelImplementsWorker == PanelSpec => Spec
<1>1. PanelInit => Init
  BY DEF PanelInit
<1>2. PanelInv /\ [PanelNext]_allVars => [Next]_vars
  BY PanelNextSound
<1> QED
  BY <1>1, <1>2, PanelSafety, PTL DEF PanelSpec, Spec

\* What the worker has begun and not settled is what the panel has marked: no
\* answer lost, save failed or process restarted lets another operation of the
\* site be offered meanwhile.
THEOREM UnsettledIsMarkedHolds == PanelSpec => []UnsettledIsMarked
<1>1. PanelInv => UnsettledIsMarked
  BY DEF PanelInv, Agreement, SiteAgrees, UnsettledIsMarked
<1> QED
  BY <1>1, PanelSafety, PTL

\* An operation the panel records as succeeded is the last one the worker
\* completed for the site.
THEOREM SuccessIsConfirmedHolds == PanelSpec => []SuccessIsConfirmed
<1>1. PanelInv => SuccessIsConfirmed
  BY DEF PanelInv, Agreement, SiteAgrees, SuccessIsConfirmed, SucceededReceipt
<1> QED
  BY <1>1, PanelSafety, PTL

\* A site the panel has forgotten, by an answered delete or by reconciling a lost
\* answer, has left no container, volume, directory, route or backup.
THEOREM DeletionConfirmedHolds == PanelSpec => []DeletionConfirmed
<1>1. PanelInv => DeletionConfirmed
  BY DEF PanelInv, Agreement, SiteAgrees, DeletionConfirmed
<1> QED
  BY <1>1, PanelSafety, PTL

-----------------------------------------------------------------------------
(* The status shown: what is to be preserved *)

AllUp(h) == \A x \in Services : h.svc[x] = "running"
Shut(h) == h.svc["wp"] # "running"

\* A status that tells the truth about the services.
Shown(status, h) == (status = "running" => AllUp(h)) /\ (status = "stopped" => Shut(h))

\* The status that a confirmed operation of the worker leaves in the record.
After(kind, status) ==
    CASE kind \in {"create", "start", "restore"} -> "running"
      [] kind \in {"stop", "prepare-restore"} -> "stopped"
      [] OTHER -> status

\* What the steps a handler of the worker has behind it have made of the services;
\* status is the one shown when the request was sent.
Progress(t, status, h) ==
    LET n == Len(t.todo)
    IN  /\ t.kind = "create" /\ n < 3 => AllUp(h)
        /\ t.kind \in {"start", "restore"} /\ n = 0 => AllUp(h)
        /\ t.kind = "stop" /\ n = 0 => Shut(h)
        /\ t.kind = "prepare-restore" /\ n < 2 => Shut(h)
        /\ t.kind \in {"backup", "update"} => Shown(status, h)
        /\ t.kind = "resources" =>
              /\ n = 6 => Shown(status, h)
              /\ n < 6 => (status = "running" => t.was) /\ (status = "stopped" => ~t.was)
              /\ n = 0 => IF t.was THEN AllUp(h) ELSE Shut(h)

\* A record that is not marked tells the truth.
SitesShown ==
    \A s \in Sites : Known(s) /\ ~Busy(store[s]) => Shown(store[s].status, host[s])

\* So does a handler's copy, and a site being deleted is shown as that.
CopyShown ==
    handler # NoHandler =>
        /\ handler.mem.op.state # "pending" => Shown(handler.mem.status, host[handler.site])
        /\ handler.todo \in {<<"save", "delete", "erase">>, <<"delete", "erase">>} =>
              handler.mem.status = "deleting"

\* What the outstanding call means for the status.
CallShown ==
    call # NoCall =>
        /\ call.path = "tracked" /\ call.phase = "sent" =>
              Shown(handler.mem.status, host[call.site])
        /\ call.path = "tracked" /\ call.phase = "received" /\ task.mode = "run" =>
              Progress(task, handler.mem.status, host[call.site])
        /\ call.path = "tracked" /\ call.phase = "ok" =>
              Shown(After(WorkerKind(handler.mem.op.kind), handler.mem.status), host[call.site])
        /\ call.path = "runtime" /\ call.phase = "ok" =>
              Shown(call.answer.status, host[call.site])

StatusInv == SitesShown /\ CopyShown /\ CallShown

-----------------------------------------------------------------------------
(* The status shown: what a request makes of the services *)

\* Only the services matter.
LEMMA ShownStays ==
    ASSUME NEW h, NEW k, k.svc = h.svc
    PROVE  /\ AllUp(h) => AllUp(k)
           /\ Shut(h) => Shut(k)
           /\ \A status : Shown(status, h) => Shown(status, k)
BY DEF AllUp, Shut, Shown

\* What a step of a handler does to them.
Serves(x, was, h, k) ==
    /\ x \in {"up", "upwp"} => AllUp(k)
    /\ x \in {"stop", "stopwp"} => Shut(k)
    /\ x = "updb" => (Shut(h) => Shut(k))
    /\ x = "recreate" => IF was THEN AllUp(k) ELSE Shut(k)
    /\ x \in {"conf", "dump", "archive", "publish", "update", "route", "install"} => k.svc = h.svc

\* The next step x of a plan, by the number n of steps that are left.
PlainPlace(kind, n, x) ==
    /\ kind = "create" => (n = 3 => x = "up") /\ (n < 3 => x \in {"route", "install"})
    /\ kind = "start" => (n = 1 => x = "up")
    /\ kind = "stop" => (n = 1 => x = "stop")
    /\ kind = "prepare-restore" => (n = 2 => x = "stopwp") /\ (n = 1 => x = "updb")
    /\ kind \in {"backup", "update"} => x \in {"conf", "dump", "archive", "publish", "update"}

\* Where the handlers of these kinds are.
LEMMA PlainWhere ==
    ASSUME NEW kind \in {"create", "start", "stop", "prepare-restore", "backup", "update"},
           NEW g, NEW todo \in Seq(Steps), todo # <<>>, IsEnd(todo, Plan(kind, g))
    PROVE  PlainPlace(kind, Len(todo), Head(todo))
<1>0. PICK plan : plan = Plan(kind, g)
  OBVIOUS
<1>1. /\ kind = "create" => Len(plan) = 6 /\ plan[4] = "up" /\ plan[5] = "route" /\ plan[6] = "install"
      /\ kind = "start" => Len(plan) = 3 /\ plan[3] = "up"
      /\ kind = "stop" => Len(plan) = 3 /\ plan[3] = "stop"
      /\ kind = "prepare-restore" => Len(plan) = 3 /\ plan[2] = "stopwp" /\ plan[3] = "updb"
      /\ kind = "backup" => Len(plan) = 4 /\ plan[1] = "conf" /\ plan[2] = "dump"
                            /\ plan[3] = "archive" /\ plan[4] = "publish"
      /\ kind = "update" => Len(plan) = 2 /\ plan[1] = "conf" /\ plan[2] = "update"
  BY <1>0 DEF Plan, CreatePlan, StartPlan, StopPlan, PrepareRestorePlan, BackupPlan, UpdatePlan
<1>2. Len(plan) \in Nat
  BY <1>1
<1>3. PICK n \in 1..Len(plan) :
        /\ Len(todo) = n /\ Head(todo) = plan[Len(plan) - n + 1]
        /\ n > 1 => todo[2] = plan[Len(plan) - n + 2]
  BY <1>0, <1>2, EndHead, Zenon
<1>4. PICK x : x = Head(todo)
  OBVIOUS
<1>5. PlainPlace(kind, n, x)
  <2>1. CASE kind = "create"
    <3>0. Len(plan) = 6
      BY <1>1, <2>1
    <3>1. n \in 1..6 /\ x = plan[6 - n + 1]
      BY <1>3, <1>4, <3>0
    <3> QED
      BY <1>1, <2>1, <3>1 DEF PlainPlace
  <2>2. CASE kind \in {"start", "stop", "prepare-restore"}
    <3>0. Len(plan) = 3
      BY <1>1, <2>2
    <3>1. n \in 1..3 /\ x = plan[3 - n + 1]
      BY <1>3, <1>4, <3>0
    <3> QED
      BY <1>1, <2>2, <3>1 DEF PlainPlace
  <2>3. CASE kind = "backup"
    <3>0. Len(plan) = 4
      BY <1>1, <2>3
    <3>1. n \in 1..4 /\ x = plan[4 - n + 1]
      BY <1>3, <1>4, <3>0
    <3> QED
      BY <1>1, <2>3, <3>1 DEF PlainPlace
  <2>4. CASE kind = "update"
    <3>0. Len(plan) = 2
      BY <1>1, <2>4
    <3>1. n \in 1..2 /\ x = plan[2 - n + 1]
      BY <1>3, <1>4, <3>0
    <3> QED
      BY <1>1, <2>4, <3>1 DEF PlainPlace
  <2> QED
    BY <2>1, <2>2, <2>3, <2>4
<1> QED
  BY <1>3, <1>4, <1>5

\* The request has taken its next step, u.
StepsOn(u) ==
    LET x == Head(task.todo)
    IN  /\ task.todo # <<>> /\ u.todo = Tail(task.todo) /\ u.kind = task.kind
        /\ Serves(x, task.was, Here, host'[task.site])
        /\ x # "inspect" => u.was = task.was
        /\ x = "inspect" => \/ RuntimeStatus(Here) = "running" /\ u.was = TRUE
                            \/ RuntimeStatus(Here) = "stopped" /\ u.was = FALSE

\* It waits for a job, or has lost its connection.
StaysOn(u) ==
    /\ u.todo = task.todo /\ u.kind = task.kind /\ u.was = task.was
    /\ host'[task.site].svc = Here.svc

\* A step brings the services nearer to what the request is for.
LEMMA StepProgress ==
    ASSUME Inv, ContentInv, task # NoTask, task.mode = "run", NEW u, StepsOn(u), NEW status,
           Progress(task, status, Here)
    PROVE  Progress(u, status, host'[task.site])
<1>1. PICK n, x, h, k, was, now :
         /\ n = Len(task.todo) /\ x = Head(task.todo) /\ h = Here /\ k = host'[task.site]
         /\ was = task.was /\ now = u.was
  OBVIOUS
<1>2. /\ task.todo # <<>> /\ task.todo \in Seq(Steps) /\ task.kind \in Kinds /\ was \in BOOLEAN
      /\ u.kind = task.kind
  BY <1>1 DEF Inv, TypeOK, Tasks, StepsOn
<1>3. n \in Nat \ {0} /\ Len(u.todo) = n - 1
  BY <1>1, <1>2 DEF StepsOn
<1>4. /\ task.kind = "restore" => RestorePlace(n, x)
      /\ task.kind = "resources" => ResourcesPlace(n, x)
  BY <1>1, <1>2, Place
<1>5. task.kind \notin {"restore", "resources", "delete"} => PlainPlace(task.kind, n, x)
  <2>1. PICK g \in Hosts : IsEnd(task.todo, Plan(task.kind, g))
    BY DEF ContentInv, TaskSound
  <2> QED
    BY <1>1, <1>2, <2>1, PlainWhere DEF Kinds
<1>6. /\ Serves(x, was, h, k)
      /\ x # "inspect" => now = was
      /\ x = "inspect" => \/ RuntimeStatus(h) = "running" /\ now = TRUE
                          \/ RuntimeStatus(h) = "stopped" /\ now = FALSE
      /\ now \in BOOLEAN
  BY <1>1, <1>2 DEF StepsOn
<1>7. PICK kind : kind = task.kind
  OBVIOUS
<1>8. /\ kind = "create" /\ n < 3 => AllUp(h)
      /\ kind \in {"start", "restore"} /\ n = 0 => AllUp(h)
      /\ kind = "prepare-restore" /\ n < 2 => Shut(h)
      /\ kind \in {"backup", "update"} => Shown(status, h)
      /\ kind = "resources" =>
            /\ n = 6 => Shown(status, h)
            /\ n < 6 => (status = "running" => was) /\ (status = "stopped" => ~was)
  BY <1>1, <1>7 DEF Progress
<1>9. kind = "create" /\ n - 1 < 3 => AllUp(k)
  BY <1>3, <1>5, <1>6, <1>7, <1>8, ShownStays DEF PlainPlace, Serves
<1>10. kind \in {"start", "restore"} /\ n - 1 = 0 => AllUp(k)
  BY <1>3, <1>4, <1>5, <1>6, <1>7 DEF PlainPlace, RestorePlace, Serves
<1>11. kind = "stop" /\ n - 1 = 0 => Shut(k)
  BY <1>3, <1>5, <1>6, <1>7 DEF PlainPlace, Serves
<1>12. kind = "prepare-restore" /\ n - 1 < 2 => Shut(k)
  BY <1>3, <1>5, <1>6, <1>7, <1>8 DEF PlainPlace, Serves
<1>13. kind \in {"backup", "update"} => Shown(status, k)
  BY <1>5, <1>6, <1>7, <1>8, ShownStays DEF PlainPlace, Serves
<1>14. CASE kind = "resources"
  <2>1. n \in 1..6 /\ (n = 6 <=> x = "inspect") /\ (n = 1 => x = "recreate")
    BY <1>3, <1>4, <1>7, <1>14 DEF ResourcesPlace
  <2>2. (status = "running" => now) /\ (status = "stopped" => ~now)
    <3>1. CASE x = "inspect"
      <4>1. RuntimeStatus(h) = "running" => AllUp(h)
        BY DEF RuntimeStatus, AllUp
      <4>2. RuntimeStatus(h) = "stopped" => ~AllUp(h) /\ Shut(h)
        BY DEF RuntimeStatus, AllUp, Shut, Services
      <4>3. AllUp(h) => ~Shut(h)
        BY DEF AllUp, Shut, Services
      <4> QED
        BY <1>6, <1>8, <1>14, <2>1, <3>1, <4>1, <4>2, <4>3 DEF Shown
    <3>2. CASE x # "inspect"
      BY <1>6, <1>8, <1>14, <2>1, <3>2
    <3> QED
      BY <3>1, <3>2
  <2>3. n - 1 = 0 => IF now THEN AllUp(k) ELSE Shut(k)
    BY <1>6, <2>1 DEF Serves
  <2>4. n - 1 # 6
    BY <2>1
  <2> QED
    BY <1>1, <1>2, <1>3, <1>7, <1>14, <2>2, <2>3, <2>4 DEF Progress
<1>15. CASE kind # "resources"
  BY <1>1, <1>2, <1>3, <1>7, <1>9, <1>10, <1>11, <1>12, <1>13, <1>15 DEF Progress
<1> QED
  BY <1>14, <1>15

\* A request that waits.
LEMMA StayProgress ==
    ASSUME NEW u, StaysOn(u), NEW status, Progress(task, status, Here)
    PROVE  Progress(u, status, host'[task.site])
<1>1. PICK h, k : h = Here /\ k = host'[task.site] /\ k.svc = h.svc
  BY DEF StaysOn
<1>2. /\ AllUp(h) => AllUp(k)
      /\ Shut(h) => Shut(k)
      /\ Shown(status, h) => Shown(status, k)
  BY <1>1, ShownStays
<1> QED
  BY <1>1, <1>2 DEF StaysOn, Progress

\* A command that succeeds.
LEMMA CommandOn ==
    ASSUME Inv, task.mode = "run", task'.mode = "run", NEW step, NEW possible, NEW after,
           NEW partly, Command(step, possible, after, partly), step # "inspect",
           Serves(step, task.was, Here, after)
    PROVE  StepsOn(task')
<1>1. task # NoTask /\ task.todo # <<>> /\ Head(task.todo) = step /\ task \in Tasks /\ task.site \in Sites
  BY DEF Command, At, Inv, TypeOK, Tasks
<1>2. ASSUME NEW h, Abort(h)
      PROVE  FALSE
  <2> DEFINE plan == IF Rejected(task) THEN <<>> ELSE FencePlan(task.kind)
  <2>1. task' = [task EXCEPT !.mode = "fence", !.waiting = FALSE, !.todo = plan]
    BY <1>2 DEF Abort
  <2> HIDE DEF plan
  <2> QED
    BY <1>1, <2>1 DEF Tasks
<1>3. Proceed(after)
  BY <1>2 DEF Command
<1>4. host'[task.site] = after
  BY <1>1, <1>3 DEF Proceed, Inv, TypeOK
<1>5. task'.todo = Tail(task.todo) /\ task'.kind = task.kind /\ task'.was = task.was
  BY <1>1, <1>3 DEF Proceed, Tasks
<1> QED
  BY <1>1, <1>4, <1>5 DEF StepsOn

\* A handler does not go on after an error.
LEMMA NotAborted ==
    ASSUME Inv, task # NoTask, task.mode = "run", task'.mode = "run", NEW h
    PROVE  ~Abort(h)
<1> SUFFICES ASSUME Abort(h) PROVE FALSE
  OBVIOUS
<1> DEFINE plan == IF Rejected(task) THEN <<>> ELSE FencePlan(task.kind)
<1>1. task' = [task EXCEPT !.mode = "fence", !.waiting = FALSE, !.todo = plan]
  BY DEF Abort
<1> HIDE DEF plan
<1> QED
  BY <1>1 DEF Inv, TypeOK, Tasks

\* The site a handler is about to act on.
LEMMA ReadySite ==
    ASSUME Inv, ContentInv, NEW step, step \notin {"rmjobs", "stopdb"}, At(step), task.mode = "run"
    PROVE  Here \in Hosts /\ Coherent(Here) /\ Here.jobs = {}
BY RunStep DEF Running

\* Every command of a handler.
LEMMA DoStepOn ==
    ASSUME Inv, ContentInv, task.mode = "run", task'.mode = "run", DoStep
    PROVE  StepsOn(task') \/ StaysOn(task')
<1>1. CASE Admit
  <2>1. /\ task # NoTask /\ task.todo # <<>> /\ Head(task.todo) = "admit"
        /\ task \in Tasks /\ task.site \in Sites
    BY <1>1 DEF Admit, At, Inv, TypeOK, Tasks
  <2>2. Proceed(Here)
    BY <1>1, <2>1, NotAborted DEF Admit
  <2>3. task'.todo = Tail(task.todo) /\ task'.kind = task.kind /\ task'.was = task.was
    BY <2>1, <2>2 DEF Proceed, Tasks
  <2> QED
    BY <2>1, <2>3 DEF StepsOn, Serves
<1>2. CASE Inspect
  <2>1. task # NoTask /\ task.todo # <<>> /\ Head(task.todo) = "inspect" /\ task \in Tasks
    BY <1>2 DEF Inspect, At, Inv, TypeOK
  <2>2. PICK was \in BOOLEAN :
           /\ RuntimeStatus(Here) \in {"running", "stopped"} /\ was = (RuntimeStatus(Here) = "running")
           /\ task' = [task EXCEPT !.todo = Tail(@), !.was = was]
    BY <1>2, <2>1, NotAborted DEF Inspect
  <2>3. task'.todo = Tail(task.todo) /\ task'.kind = task.kind /\ task'.was = was
    BY <2>1, <2>2 DEF Tasks
  <2> QED
    BY <2>1, <2>2, <2>3 DEF StepsOn, Serves
<1>3. CASE Conf
  BY <1>3, CommandOn DEF Conf, Serves
<1>4. CASE CloseTool \/ MkDir \/ Config \/ Unroute
  BY <1>4, CommandOn DEF CloseTool, MkDir, Config, Unroute, Serves
<1>5. CASE Route
  <2>1. Here \in Hosts
    BY <1>5, ReadySite DEF Route, Command
  <2>2. [Here EXCEPT !.route = TRUE].svc = Here.svc
    BY <2>1 DEF Hosts
  <2>3. Serves("route", task.was, Here, [Here EXCEPT !.route = TRUE])
    BY <2>2 DEF Serves
  <2> QED
    BY <1>5, <2>3, CommandOn DEF Route
<1>6. CASE ComposeUp
  <2> DEFINE k == Up(Here, Services)
             after == [k EXCEPT !.ack = TRUE]
  <2>1. Here \in Hosts /\ Coherent(Here) /\ Here.jobs = {}
    BY <1>6, ReadySite DEF ComposeUp, Command
  <2>2. k \in Hosts /\ AllUp(k)
    BY <2>1, UpIdle DEF AllUp
  <2>3. Command("up", HasConfig, after, {[Up(Here, {"db"}) EXCEPT !.ack = TRUE]})
    BY <1>6 DEF ComposeUp
  <2> HIDE DEF k
  <2>4. after.svc = k.svc
    BY <2>2 DEF Hosts
  <2> HIDE DEF after
  <2>5. Serves("up", task.was, Here, after)
    BY <2>2, <2>4, ShownStays DEF Serves
  <2> QED
    BY <2>3, <2>5, CommandOn
<1>7. CASE UpDb
  <2>1. Here \in Hosts /\ Coherent(Here) /\ Here.jobs = {}
    BY <1>7, ReadySite DEF UpDb, Command
  <2>2. Up(Here, {"db"}).svc["wp"] = Here.svc["wp"]
    BY <2>1, UpIdle DEF Services
  <2>3. Serves("updb", task.was, Here, Up(Here, {"db"}))
    BY <2>2 DEF Serves, Shut
  <2> QED
    BY <1>7, <2>3, CommandOn DEF UpDb
<1>8. CASE UpWordPress
  <2>1. Here \in Hosts /\ Coherent(Here) /\ Here.jobs = {}
    BY <1>8, ReadySite DEF UpWordPress, Command
  <2>2. Serves("upwp", task.was, Here, Up(Here, Services))
    BY <2>1, UpIdle DEF Serves, AllUp
  <2> QED
    BY <1>8, <2>2, CommandOn DEF UpWordPress
<1>9. CASE RecreateServices
  <2> DEFINE after == IF task.was THEN Up(Here, Services) ELSE Recreate(Here)
             partly == IF task.was THEN {Up(Here, {"db"})} ELSE {}
  <2>1. Command("recreate", HasConfig, after, partly)
    BY <1>9 DEF RecreateServices
  <2>2. Here \in Hosts /\ Coherent(Here) /\ Here.jobs = {}
    BY <2>1, ReadySite DEF Command
  <2>3. AllUp(Up(Here, Services)) /\ Shut(Recreate(Here))
    BY <2>2, UpIdle, RecreateIdle DEF AllUp, Shut
  <2>4. Serves("recreate", task.was, Here, after)
    BY <2>3 DEF Serves
  <2> HIDE DEF after, partly
  <2> QED
    BY <2>1, <2>4, CommandOn
<1>10. CASE ComposeStop
  <2>1. Here \in Hosts /\ Coherent(Here)
    BY <1>10, ReadySite DEF ComposeStop, Command
  <2>2. Serves("stop", task.was, Here, Stop(Here, Services))
    BY <2>1, StopCoherent DEF Serves, Shut, Services
  <2> QED
    BY <1>10, <2>2, CommandOn DEF ComposeStop
<1>11. CASE StopWordPress
  <2>1. Here \in Hosts /\ Coherent(Here)
    BY <1>11, ReadySite DEF StopWordPress, Command
  <2>2. Serves("stopwp", task.was, Here, Stop(Here, {"wp"}))
    BY <2>1, StopCoherent DEF Serves, Shut, Services
  <2> QED
    BY <1>11, <2>2, CommandOn DEF StopWordPress
<1>12. CASE StopDb \/ RemoveOwnedJobs
  BY <1>12, CommandOn DEF StopDb, RemoveOwnedJobs, Serves
<1>16. CASE ComposeDown
  BY <1>16, CommandOn DEF ComposeDown, Serves
<1>17. CASE CheckGone
  BY <1>17, CommandOn DEF CheckGone, Serves
<1>18. CASE RemoveDir
  <2> DEFINE after == [Here EXCEPT !.dir = "none"]
             partly == {[Here EXCEPT !.dir = IF @ = "none" THEN @ ELSE "bare"]}
  <2>1. Command("rmdir", TRUE, after, partly)
    BY <1>18 DEF RemoveDir
  <2> HIDE DEF after, partly
  <2>2. Serves("rmdir", task.was, Here, after)
    BY DEF Serves
  <2> QED
    BY <2>1, <2>2, CommandOn
<1>19. CASE RemoveBackups
  <2> DEFINE after == [Here EXCEPT !.backups = {}]
             partly == {[Here EXCEPT !.backups = bs] : bs \in SUBSET Here.backups}
  <2>1. Command("rmbackups", TRUE, after, partly)
    BY <1>19 DEF RemoveBackups
  <2> HIDE DEF after, partly
  <2>2. Serves("rmbackups", task.was, Here, after)
    BY DEF Serves
  <2> QED
    BY <2>1, <2>2, CommandOn
<1>13. CASE Publish
  <2>1. Here \in Hosts
    BY <1>13, ReadySite DEF Publish, Command
  <2>2. [Here EXCEPT !.backups = @ \cup {task.id}].svc = Here.svc
    BY <2>1 DEF Hosts
  <2>3. Serves("publish", task.was, Here, [Here EXCEPT !.backups = @ \cup {task.id}])
    BY <2>2 DEF Serves
  <2> QED
    BY <1>13, <2>3, CommandOn DEF Publish
<1>14. CASE VerifyBackup
  BY <1>14, CommandOn DEF VerifyBackup, Serves
<1>15. ASSUME NEW j \in Jobs, StartJob(j)
       PROVE  StaysOn(task')
  <2>1. task # NoTask /\ task \in Tasks /\ task.site \in Sites /\ Here \in Hosts
    BY <1>15 DEF StartJob, At, Inv, TypeOK, Tasks, Here
  <2>2. host' = [host EXCEPT ![task.site] = Launch(Here, j)] /\ task' = [task EXCEPT !.waiting = TRUE]
    BY <1>15, <2>1, NotAborted DEF StartJob
  <2>3. Launch(Here, j).svc = Here.svc
    BY <2>1 DEF Launch, Hosts
  <2>4. host'[task.site] = Launch(Here, j)
    BY <2>1, <2>2 DEF Inv, TypeOK
  <2>5. task'.todo = task.todo /\ task'.kind = task.kind /\ task'.was = task.was
    BY <2>1, <2>2 DEF Tasks
  <2> QED
    BY <2>3, <2>4, <2>5 DEF StaysOn
<1> QED
  BY <1>1, <1>2, <1>3, <1>4, <1>5, <1>6, <1>7, <1>8, <1>9, <1>10, <1>11, <1>12, <1>13, <1>14, <1>15,
     <1>16, <1>17, <1>18, <1>19 DEF DoStep

\* A job ends.
LEMMA JobEndsOn ==
    ASSUME Inv, ContentInv, task # NoTask, task.mode = "run", task'.mode = "run",
           NEW s \in Sites, NEW j \in Jobs, NEW ok \in BOOLEAN, JobEnds(s, j, ok)
    PROVE  StepsOn(task') \/ StaysOn(task')
<1> DEFINE h == IF ok THEN [host[s] EXCEPT !.jobs = @ \ {j},
                                           !.data = IF j = "import" THEN "whole" ELSE @]
                      ELSE Kill(host[s], {j})
<1>1. task \in Tasks /\ task.site \in Sites /\ host[s] \in Hosts
  BY DEF Inv, TypeOK, Tasks
<1>2. h.svc = host[s].svc
  <2>1. [host[s] EXCEPT !.jobs = @ \ {j}, !.data = IF j = "import" THEN "whole" ELSE @].svc = host[s].svc
    BY <1>1 DEF Hosts
  <2>2. Kill(host[s], {j}).svc = host[s].svc
    BY <1>1 DEF Kill, Hosts
  <2> QED
    BY <2>1, <2>2
<1>3. \/ Awaits(s, j) /\ (Proceed(h) \/ Abort(h))
      \/ host' = [host EXCEPT ![s] = h] /\ UNCHANGED task
  BY DEF JobEnds
<1> HIDE DEF h
<1>4. CASE Awaits(s, j) /\ Proceed(h)
  <2>1. task.site = s /\ Head(task.todo) = j /\ task.waiting
    BY <1>4 DEF Awaits
  <2>2. host'[s] = h /\ task' = [task EXCEPT !.todo = Tail(@), !.waiting = FALSE]
    BY <1>1, <1>4, <2>1 DEF Proceed, Inv, TypeOK
  <2>3. task'.todo = Tail(task.todo) /\ task'.kind = task.kind /\ task'.was = task.was
    BY <1>1, <2>2 DEF Tasks
  <2>4. task.todo # <<>>
    BY <2>1 DEF Inv, JobsAccounted
  <2>5. Serves(j, task.was, Here, h) /\ j # "inspect"
    BY <1>2, <2>1 DEF Serves, Here, Jobs, Helpers, CliJobs, Execs
  <2> QED
    BY <2>1, <2>2, <2>3, <2>4, <2>5 DEF StepsOn
<1>5. CASE host' = [host EXCEPT ![s] = h] /\ UNCHANGED task
  <2>1. host'[task.site].svc = Here.svc
    BY <1>1, <1>2, <1>5 DEF Here, Inv, TypeOK
  <2> QED
    BY <1>5, <2>1 DEF StaysOn
<1> QED
  BY <1>3, <1>4, <1>5, NotAborted

\* The request under way, as long as it succeeds.
LEMMA RequestProgress ==
    ASSUME Inv, ContentInv, task # NoTask, task.mode = "run", task'.mode = "run",
           \/ DoStep
           \/ \E s \in Sites, j \in Jobs, ok \in BOOLEAN : JobEnds(s, j, ok)
           \/ Abandon,
           NEW status, Progress(task, status, Here)
    PROVE  Progress(task', status, host'[task.site])
<1>1. StepsOn(task') \/ StaysOn(task')
  BY DoStepOn, JobEndsOn, NotAborted DEF Abandon
<1> QED
  BY <1>1, StepProgress, StayProgress

\* The last step is done: the status that the panel is going to show is true.
LEMMA ProgressEnds ==
    ASSUME NEW t, NEW status, NEW h, Progress(t, status, h), t.todo = <<>>,
           t.kind \in Kinds, t.was \in BOOLEAN, t.kind = "delete" => status = "deleting"
    PROVE  Shown(After(t.kind, status), h)
<1>1. Len(t.todo) = 0
  OBVIOUS
<1>2. CASE t.kind \in {"create", "start", "restore"}
  BY <1>1, <1>2 DEF Progress, After, Shown
<1>3. CASE t.kind \in {"stop", "prepare-restore"}
  BY <1>1, <1>3 DEF Progress, After, Shown
<1>4. CASE t.kind \in {"backup", "update", "delete"}
  BY <1>1, <1>4 DEF Progress, After, Shown
<1>5. CASE t.kind = "resources"
  BY <1>1, <1>5 DEF Progress, After, Shown
<1> QED
  BY <1>2, <1>3, <1>4, <1>5 DEF Kinds

\* A request has just begun.
LEMMA ProgressBegins ==
    ASSUME NEW t, NEW status, NEW h, NEW g, t.todo = Plan(t.kind, g), Shown(status, h)
    PROVE  Progress(t, status, h)
<1>1. /\ t.kind = "create" => Len(t.todo) = 6
      /\ t.kind \in {"start", "stop", "prepare-restore"} => Len(t.todo) = 3
      /\ t.kind = "restore" => Len(t.todo) = 6
      /\ t.kind = "resources" => Len(t.todo) = 6
  BY DEF Plan, CreatePlan, StartPlan, StopPlan, PrepareRestorePlan, RestorePlan, ResourcesPlan
<1> QED
  BY <1>1 DEF Progress

\* A site without an unsettled operation keeps its services as they are.
LEMMA ServicesKept ==
    ASSUME Inv, [Next]_vars, NEW s \in Sites, ~Pending(s)
    PROVE  host'[s].svc = host[s].svc
<1>0. host[s] \in Hosts
  BY DEF Inv, TypeOK
<1>1. CASE \/ DoStep
           \/ \E t \in Sites, j \in Jobs, ok \in BOOLEAN : JobEnds(t, j, ok)
           \/ Abandon
  BY <1>1, WorkerMoves DEF Moves
<1>2. CASE \/ \E req \in Requests, outcome \in Outcomes : Begin(req, outcome)
           \/ \E t \in Sites : Runtime(t)
           \/ \E outcome \in Outcomes : Conclude(outcome)
           \/ Disconnect \/ Crash \/ Serve
           \/ \E t \in Sites : Settle(t)
  BY <1>2 DEF Begin, Runtime, Conclude, Disconnect, Crash, Serve, Settle
<1>3. ASSUME NEW t \in Sites, NEW b \in Ids, DeleteBackup(t, b)
      PROVE  host'[s].svc = host[s].svc
  <2>1. host' = [host EXCEPT ![t] = [host[t] EXCEPT !.backups = @ \ {b}]] /\ host[t] \in Hosts
    BY <1>3 DEF DeleteBackup, Inv, TypeOK
  <2>2. [host[t] EXCEPT !.backups = @ \ {b}].svc = host[t].svc
    BY <2>1 DEF Hosts
  <2> QED
    BY <2>1, <2>2 DEF Inv, TypeOK
<1>4. CASE Boot
  <2>1. Kill(host[s], Helpers \cup CliJobs).svc = host[s].svc
    BY <1>0 DEF Kill, Hosts
  <2> QED
    BY <1>4, <2>1 DEF Boot
<1>5. CASE UNCHANGED vars
  BY <1>5 DEF vars
<1> QED
  BY <1>1, <1>2, <1>3, <1>4, <1>5 DEF Next

-----------------------------------------------------------------------------
(* The status shown: steps of the panel *)

\* The snapshot of a site tells the truth.
LEMMA SnapshotShown ==
    ASSUME NEW h
    PROVE  Shown(RuntimeStatus(h), h)
BY DEF RuntimeStatus, Shown, AllUp, Shut, Services

\* The copy of a handler that goes on.
LEMMA CopyGoesOn ==
    ASSUME NEW act, NEW s, NEW mem, NEW from, NEW safety, NEW todo,
           handler' = [act |-> act, site |-> s, mem |-> mem, from |-> from,
                       safety |-> safety, todo |-> todo],
           mem.op.state # "pending" => Shown(mem.status, host'[s]),
           todo \in {<<"save", "delete", "erase">>, <<"delete", "erase">>} =>
              mem.status = "deleting"
    PROVE  CopyShown'
<1>1. handler'.site = s /\ handler'.mem = mem /\ handler'.todo = todo
  OBVIOUS
<1>2. mem.op.state # "pending" => Shown(handler.mem.status, host[handler.site])'
  BY <1>1 DEF Shown, AllUp, Shut
<1> QED
  BY <1>1, <1>2 DEF CopyShown

\* The step after the first save of a deletion.
LEMMA BeforeDelete ==
    ASSUME NEW act, NEW todo, InOrder(act, todo),
           Tail(todo) \in {<<"save", "delete", "erase">>, <<"delete", "erase">>}
    PROVE  todo = <<"save", "delete", "erase">> /\ Head(todo) = "save"
BY DEF InOrder

\* A record that stays as it is.
LEMMA SiteKept ==
    ASSUME PanelInv, SitesShown, [Next]_vars, NEW s \in Sites, Known(s), ~Busy(store[s])
    PROVE  Shown(store[s].status, host'[s])
<1>1. ~Pending(s) /\ Inv
  BY DEF PanelInv, Agreement, SiteAgrees
<1>2. Shown(store[s].status, host[s])
  BY DEF SitesShown
<1> QED
  BY <1>1, <1>2, ServicesKept, ShownStays

\* One record at most is replaced.
LEMMA SitesSaved ==
    ASSUME PanelInv, SitesShown, [Next]_vars, NEW s \in Sites, NEW r,
           store' = [store EXCEPT ![s] = r],
           r \notin {Unborn, Erased} /\ r.op.state # "pending" => Shown(r.status, host'[s])
    PROVE  SitesShown'
<1>1. store'[s] = r /\ \A t \in Sites \ {s} : store'[t] = store[t]
  BY DEF PanelInv, Agreement
<1>2. ASSUME NEW t \in Sites, store'[t] \notin {Unborn, Erased}, store'[t].op.state # "pending"
      PROVE  Shown(store'[t].status, host'[t])
  <2>1. CASE t = s
    BY <1>1, <1>2, <2>1
  <2>2. CASE t # s
    BY <1>1, <1>2, <2>2, SiteKept DEF Known, Busy
  <2> QED
    BY <2>1, <2>2
<1> QED
  BY <1>2 DEF SitesShown, Known, Busy, Shown, AllUp, Shut

\* No record is replaced.
LEMMA SitesKept ==
    ASSUME PanelInv, SitesShown, [Next]_vars, store' = store
    PROVE  SitesShown'
<1>1. ASSUME NEW t \in Sites, store'[t] \notin {Unborn, Erased}, store'[t].op.state # "pending"
      PROVE  Shown(store'[t].status, host'[t])
  BY <1>1, SiteKept DEF Known, Busy
<1> QED
  BY <1>1 DEF SitesShown, Known, Busy, Shown, AllUp, Shut

\* A handler takes opsMu and reads the record.
LEMMA StartHandlerShows ==
    ASSUME PanelInv, StatusInv, NEW s \in Sites, NEW act \in Actions, NEW from \in Ids \cup {"none"},
           StartHandler(s, act, from)
    PROVE  StatusInv'
<1> DEFINE mem == Draft(act, store[s])
<1>1. Agreement /\ OpsFree /\ SiteAgrees(s) /\ UNCHANGED <<vars, store, call>> /\ host' = host
  BY DEF PanelInv, StartHandler, Agreement, vars
<1>2. call' = NoCall
  BY <1>1, IdleNoCall
<1>3. handler' = [act |-> act, site |-> s, mem |-> mem, from |-> from,
                  safety |-> "none", todo |-> Flow(act)]
  BY DEF StartHandler
<1>4. mem.op.state # "pending" => Shown(mem.status, host'[s])
  <2>1. CASE act = "create"
    BY <2>1 DEF Draft, NewSite, Shown
  <2>2. CASE act # "create"
    <3>1. Known(s) /\ ~Busy(store[s]) /\ IsRecord(store[s])
      BY <1>1, <2>2 DEF StartHandler, Permitted, SiteAgrees, Known
    <3>2. Shown(store[s].status, host'[s])
      BY <1>1, <3>1 DEF StatusInv, SitesShown
    <3>3. CASE act \in {"retry", "delete"}
      <4>1. mem.status \in {"creating", "deleting"}
        BY <3>1, <3>3 DEF Draft, IsRecord
      <4> HIDE DEF mem
      <4> QED
        BY <4>1 DEF Shown
    <3>4. CASE act \notin {"retry", "delete"}
      <4>1. mem = store[s]
        BY <2>2, <3>4 DEF Draft
      <4> QED
        BY <3>2, <4>1
    <3> QED
      BY <3>3, <3>4
  <2> QED
    BY <2>1, <2>2
<1>5. Flow(act) \in {<<"save", "delete", "erase">>, <<"delete", "erase">>} => mem.status = "deleting"
  <2>1. CASE act = "delete"
    <3>1. IsRecord(store[s])
      BY <1>1, <2>1 DEF StartHandler, SiteAgrees, Known
    <3> QED
      BY <2>1, <3>1 DEF Draft, IsRecord
  <2>2. CASE act # "delete"
    <3>1. Flow(act) \notin {<<"save", "delete", "erase">>, <<"delete", "erase">>}
      BY <2>2, ActionsAssumption DEF Flow
    <3> QED
      BY <3>1
  <2> QED
    BY <2>1, <2>2
<1> HIDE DEF mem
<1>6. CopyShown'
  BY <1>3, <1>4, <1>5, CopyGoesOn
<1>7. SitesShown' /\ CallShown'
  BY <1>1, <1>2, SitesKept DEF StatusInv, CallShown
<1> QED
  BY <1>6, <1>7 DEF StatusInv

\* A handler that is over, or leaves its record as it is.
LEMMA HandlerOverShows ==
    ASSUME PanelInv, StatusInv, UNCHANGED <<vars, store>>, call' = NoCall,
           handler' = NoHandler \/ handler' = handler
    PROVE  StatusInv'
<1>1. SitesShown' /\ CallShown'
  BY SitesKept DEF StatusInv, CallShown
<1>2. host' = host
  BY DEF vars
<1>3. CopyShown'
  BY <1>2 DEF StatusInv, CopyShown, Shown, AllUp, Shut
<1> QED
  BY <1>1, <1>3 DEF StatusInv

\* store.Put.
LEMMA SaveShows ==
    ASSUME PanelInv, StatusInv, Save
    PROVE  StatusInv'
<1>1. /\ Agreement /\ handler # NoHandler /\ call = NoCall /\ Head(handler.todo) = "save"
      /\ UNCHANGED <<vars, call>> /\ host' = host
  BY DEF PanelInv, Save, HandlerAt, vars
<1>2. PICK s \in Sites : s = handler.site
  BY <1>1, HandlerFacts
<1>3. CASE handler' = NoHandler /\ UNCHANGED store
  BY <1>1, <1>3, HandlerOverShows
<1>4. CASE store' = [store EXCEPT ![s] = handler.mem] /\ handler' = Done(handler)
  <2>1. handler.mem.op.state # "pending" => Shown(handler.mem.status, host'[s])
    BY <1>1, <1>2 DEF StatusInv, CopyShown
  <2>2. SitesShown'
    BY <1>1, <1>4, <2>1, SitesSaved DEF StatusInv
  <2>3. CopyShown'
    <3>1. CASE Tail(handler.todo) = <<>>
      BY <1>4, <3>1 DEF Done, CopyShown
    <3>2. CASE Tail(handler.todo) # <<>>
      <4>1. handler' = [act |-> handler.act, site |-> s, mem |-> handler.mem,
                        from |-> handler.from, safety |-> handler.safety, todo |-> Tail(handler.todo)]
        BY <1>1, <1>4, <1>2, <3>2 DEF Done, Agreement, HandlerSound
      <4>2. InOrder(handler.act, handler.todo)
        BY <1>1, HandlerFacts
      <4>3. Tail(handler.todo) \in {<<"save", "delete", "erase">>, <<"delete", "erase">>} =>
               handler.mem.status = "deleting"
        BY <1>1, <4>2, BeforeDelete DEF StatusInv, CopyShown
      <4> QED
        BY <2>1, <4>1, <4>3, CopyGoesOn
    <3> QED
      BY <3>1, <3>2
  <2> QED
    BY <1>1, <2>2, <2>3 DEF StatusInv, CallShown
<1> QED
  BY <1>2, <1>3, <1>4 DEF Save

\* store.Delete.
LEMMA EraseShows ==
    ASSUME PanelInv, StatusInv, Erase
    PROVE  StatusInv'
<1>1. /\ Agreement /\ handler # NoHandler /\ call' = NoCall /\ UNCHANGED vars /\ handler' = NoHandler
  BY DEF PanelInv, Erase, HandlerAt
<1>2. PICK s \in Sites : s = handler.site
  BY <1>1, HandlerFacts
<1>3. SitesShown'
  <2>1. CASE store' = store
    BY <1>1, <2>1, SitesKept DEF StatusInv
  <2>2. CASE store' = [store EXCEPT ![s] = Erased]
    BY <1>1, <2>2, SitesSaved DEF StatusInv
  <2> QED
    BY <1>2, <2>1, <2>2 DEF Erase
<1> QED
  BY <1>1, <1>3 DEF StatusInv, CopyShown, CallShown

\* After a failed call the copy is still marked.
LEMMA FailingShown ==
    ASSUME NEW h, h = [act |-> h.act, site |-> h.site, mem |-> h.mem, from |-> h.from,
                       safety |-> h.safety, todo |-> h.todo],
           IsRecord(h.mem), h.mem.op.state = "pending", handler' = Failing(h)
    PROVE  CopyShown'
<1>1. CASE Failing(h) = NoHandler
  BY <1>1 DEF CopyShown
<1>2. CASE Failing(h) # NoHandler
  <2>1. PICK r : /\ IsRecord(r) /\ r.op = h.mem.op
                 /\ Failing(h) = [act |-> h.act, site |-> h.site, mem |-> r, from |-> h.from,
                                  safety |-> h.safety, todo |-> <<"save">>]
    BY <1>2, FailingKeeps
  <2>2. <<"save">> # <<"save", "delete", "erase">> /\ <<"save">> # <<"delete", "erase">>
    OBVIOUS
  <2>3. r.op.state = "pending"
    BY <2>1
  <2> QED
    BY <2>1, <2>2, <2>3, CopyGoesOn
<1> QED
  BY <1>1, <1>2

\* callTracked: what was shown before is still so when the request is sent.
LEMMA CallTrackedShows ==
    ASSUME PanelInv, StatusInv, NEW kind \in PanelKinds, NEW id \in Ids \ issued, CallTracked(kind, id)
    PROVE  StatusInv'
<1>1. /\ Agreement /\ handler # NoHandler /\ call = NoCall /\ Head(handler.todo) = kind
      /\ UNCHANGED vars /\ host' = host
  BY DEF PanelInv, CallTracked, HandlerAt, vars
<1>2. PICK s \in Sites : s = handler.site
  BY <1>1, HandlerFacts
<1>3. IsRecord(handler.mem) /\ InOrder(handler.act, handler.todo) /\ CopyAgrees(handler)
  BY <1>1, <1>2, HandlerFacts, CopyFacts
<1>4. handler.todo # <<"save">>
  BY <1>1, <1>3 DEF InOrder, PanelKinds, BackupKinds
<1>5. Shown(handler.mem.status, host'[s])
  BY <1>1, <1>2, <1>3, <1>4 DEF CopyAgrees, StatusInv, CopyShown
<1> DEFINE op == [id |-> id, kind |-> kind, state |-> "pending"]
           r == [handler.mem EXCEPT !.op = op]
           safety == IF kind = "safety-backup" THEN id ELSE handler.safety
           h == [handler EXCEPT !.mem.op = op, !.safety = IF kind = "safety-backup" THEN id ELSE @]
<1>6. IsRecord(r) /\ r.op.state = "pending" /\ r.status = handler.mem.status
  BY <1>3 DEF IsRecord, Markers
<1>7. h = [act |-> handler.act, site |-> s, mem |-> r, from |-> handler.from,
           safety |-> safety, todo |-> handler.todo]
  <2>1. handler = [act |-> handler.act, site |-> handler.site, mem |-> handler.mem,
                   from |-> handler.from, safety |-> handler.safety, todo |-> handler.todo]
    BY <1>1 DEF Agreement, HandlerSound
  <2>2. h = [handler EXCEPT !.mem = r, !.safety = safety]
    BY <2>1
  <2> HIDE DEF r, safety, op, h
  <2> QED
    BY <1>2, <2>1, <2>2
<1>8. \/ /\ store' = [store EXCEPT ![h.site] = h.mem] /\ handler' = h
         /\ call' = [path |-> "tracked", site |-> h.site, phase |-> "sent"]
      \/ handler' = Failing(h) /\ UNCHANGED <<store, call>>
  BY DEF CallTracked
<1> HIDE DEF h, r, op, safety
<1>9. /\ h.act = handler.act /\ h.site = s /\ h.mem = r /\ h.from = handler.from /\ h.safety = safety
      /\ h.todo = handler.todo
  BY <1>7
<1>10. CASE /\ store' = [store EXCEPT ![s] = r] /\ handler' = h
            /\ call' = [path |-> "tracked", site |-> s, phase |-> "sent"]
  <2>1. SitesShown'
    BY <1>1, <1>6, <1>10, SitesSaved DEF StatusInv
  <2>2. handler.todo \in {<<"save", "delete", "erase">>, <<"delete", "erase">>} => r.status = "deleting"
    BY <1>1, <1>6 DEF StatusInv, CopyShown
  <2>3. CopyShown'
    BY <1>6, <1>7, <1>10, <2>2, CopyGoesOn
  <2>4. call'.path = "tracked" /\ call'.phase = "sent" /\ call'.site = s /\ handler'.mem = r
    BY <1>9, <1>10
  <2>5. Shown(handler.mem.status, host[call.site])'
    BY <1>5, <1>6, <2>4 DEF Shown, AllUp, Shut
  <2>6. CallShown'
    BY <2>4, <2>5 DEF CallShown
  <2> QED
    BY <2>1, <2>3, <2>6 DEF StatusInv
<1>11. CASE handler' = Failing(h) /\ UNCHANGED <<store, call>>
  <2>1. CopyShown'
    BY <1>6, <1>7, <1>9, <1>11, FailingShown
  <2> QED
    BY <1>1, <1>11, <2>1, SitesKept DEF StatusInv, CallShown
<1> QED
  BY <1>8, <1>9, <1>10, <1>11

\* The status of a confirmed operation.
LEMMA ConfirmedStatus ==
    ASSUME NEW kind \in PanelKinds, NEW r, IsRecord(r)
    PROVE  Confirmed(kind, r).status = After(WorkerKind(kind), r.status)
<1> DEFINE d == [r EXCEPT !.op.state = "succeeded"]
           op == [r.op EXCEPT !.state = "succeeded"]
<1>1. d = [status |-> r.status, op |-> op, backups |-> r.backups, health |-> r.health]
  BY DEF IsRecord
<1> HIDE DEF op
<1>2. CASE kind \in {"create", "start", "restore"}
  BY <1>1, <1>2 DEF Confirmed, After, WorkerKind, BackupKinds
<1>3. CASE kind \in {"stop", "restore-prepare"}
  BY <1>1, <1>3 DEF Confirmed, After, WorkerKind, BackupKinds
<1>4. CASE kind \in BackupKinds
  BY <1>1, <1>4 DEF Confirmed, After, WorkerKind, BackupKinds
<1>5. CASE kind \in {"resources", "delete", "update"}
  BY <1>1, <1>5 DEF Confirmed, After, WorkerKind, BackupKinds
<1> QED
  BY <1>2, <1>3, <1>4, <1>5 DEF PanelKinds

\* The answer to a tracked call, or the lack of one.
LEMMA AnsweredShows ==
    ASSUME PanelInv, StatusInv, Answered
    PROVE  StatusInv'
<1>1. /\ Agreement /\ handler # NoHandler /\ call # NoCall /\ call.path = "tracked"
      /\ UNCHANGED <<vars, store>> /\ host' = host /\ call' = NoCall
  BY DEF PanelInv, Answered, vars
<1>2. PICK s \in Sites : s = handler.site
  BY <1>1, HandlerFacts
<1>3. /\ IsRecord(handler.mem) /\ InOrder(handler.act, handler.todo)
      /\ handler.mem.op.state = "pending" /\ handler.mem.op.kind = Head(handler.todo)
      /\ Head(handler.todo) \in PanelKinds /\ call.site = s
  BY <1>1, <1>2, HandlerFacts, TrackedCall
<1>4. handler = [act |-> handler.act, site |-> handler.site, mem |-> handler.mem,
                 from |-> handler.from, safety |-> handler.safety, todo |-> handler.todo]
  BY <1>1 DEF Agreement, HandlerSound
<1>5. SitesShown' /\ CallShown'
  BY <1>1, SitesKept DEF StatusInv, CallShown
<1>6. CASE call.phase = "ok" /\ handler' = Done([handler EXCEPT !.mem = Confirmed(Head(handler.todo), @)])
  <2> DEFINE r == Confirmed(Head(handler.todo), handler.mem)
             h == [handler EXCEPT !.mem = Confirmed(Head(handler.todo), @)]
  <2>1. r.status = After(WorkerKind(handler.mem.op.kind), handler.mem.status)
    <3>1. \A k \in PanelKinds : Confirmed(k, handler.mem).status = After(WorkerKind(k), handler.mem.status)
      BY <1>3, ConfirmedStatus
    <3> QED
      BY <1>3, <3>1, Zenon
  <2>2. Shown(After(WorkerKind(handler.mem.op.kind), handler.mem.status), host[s])
    BY <1>1, <1>3, <1>6 DEF StatusInv, CallShown
  <2>3. h = [handler EXCEPT !.mem = r] /\ handler' = Done(h)
    BY <1>6
  <2> HIDE DEF r, h
  <2>4. Shown(r.status, host'[s])
    BY <1>1, <2>1, <2>2
  <2>5. h = [act |-> handler.act, site |-> s, mem |-> r, from |-> handler.from,
             safety |-> handler.safety, todo |-> handler.todo]
    BY <1>2, <1>4, <2>3
  <2>6. CASE Tail(handler.todo) = <<>>
    BY <1>5, <2>3, <2>5, <2>6 DEF Done, StatusInv, CopyShown
  <2>7. CASE Tail(handler.todo) # <<>>
    <3>1. handler' = [act |-> handler.act, site |-> s, mem |-> r, from |-> handler.from,
                      safety |-> handler.safety, todo |-> Tail(handler.todo)]
      <4>1. h.todo = handler.todo
        BY <2>5
      <4>2. handler' = [h EXCEPT !.todo = Tail(handler.todo)]
        BY <2>3, <2>7, <4>1 DEF Done
      <4> QED
        BY <2>5, <4>2
    <3>2. Tail(handler.todo) \notin {<<"save", "delete", "erase">>, <<"delete", "erase">>}
      BY <1>3, BeforeDelete DEF PanelKinds, BackupKinds
    <3> QED
      BY <1>5, <2>4, <3>1, <3>2, CopyGoesOn DEF StatusInv
  <2> QED
    BY <2>6, <2>7
<1>7. CASE handler' = Failing(handler)
  BY <1>3, <1>4, <1>5, <1>7, FailingShown DEF StatusInv
<1> QED
  BY <1>6, <1>7 DEF Answered

\* Removing a backup changes no status.
LEMMA DiscardedShows ==
    ASSUME PanelInv, StatusInv, Discarded
    PROVE  StatusInv'
<1>1. /\ Agreement /\ handler # NoHandler /\ call # NoCall /\ call.path = "discard"
      /\ UNCHANGED <<vars, store>> /\ host' = host /\ call' = NoCall
  BY DEF PanelInv, Discarded, vars
<1>2. PICK s \in Sites : s = handler.site
  BY <1>1, HandlerFacts
<1>3. /\ IsRecord(handler.mem) /\ InOrder(handler.act, handler.todo) /\ Head(handler.todo) = "discard"
  BY <1>1, <1>2, HandlerFacts DEF Agreement, CallSound
<1>4. handler = [act |-> handler.act, site |-> handler.site, mem |-> handler.mem,
                 from |-> handler.from, safety |-> handler.safety, todo |-> handler.todo]
  BY <1>1 DEF Agreement, HandlerSound
<1>5. SitesShown' /\ CallShown'
  BY <1>1, SitesKept DEF StatusInv, CallShown
<1>6. CASE handler' = NoHandler
  BY <1>5, <1>6 DEF StatusInv, CopyShown
<1>7. CASE handler' = Done([handler EXCEPT !.mem.backups = Without(@, handler.from)])
  <2> DEFINE bs == Without(handler.mem.backups, handler.from)
             r == [handler.mem EXCEPT !.backups = bs]
             h == [handler EXCEPT !.mem.backups = Without(@, handler.from)]
  <2>1. handler' = Done(h)
    BY <1>7
  <2>2. h = [handler EXCEPT !.mem = r]
    BY <1>4
  <2> HIDE DEF bs, h
  <2>3. r.status = handler.mem.status /\ r.op = handler.mem.op
    BY <1>3 DEF IsRecord
  <2> HIDE DEF r
  <2>4. h = [act |-> handler.act, site |-> s, mem |-> r, from |-> handler.from,
             safety |-> handler.safety, todo |-> handler.todo]
    BY <1>2, <1>4, <2>2
  <2>5. r.op.state # "pending" => Shown(r.status, host'[s])
    BY <1>1, <1>2, <2>3 DEF StatusInv, CopyShown
  <2>6. CASE Tail(handler.todo) = <<>>
    BY <1>5, <2>1, <2>4, <2>6 DEF Done, StatusInv, CopyShown
  <2>7. CASE Tail(handler.todo) # <<>>
    <3>1. handler' = [act |-> handler.act, site |-> s, mem |-> r, from |-> handler.from,
                      safety |-> handler.safety, todo |-> Tail(handler.todo)]
      BY <2>1, <2>4, <2>7 DEF Done
    <3>2. Tail(handler.todo) \notin {<<"save", "delete", "erase">>, <<"delete", "erase">>}
      BY <1>3, BeforeDelete
    <3> QED
      BY <1>5, <2>5, <3>1, <3>2, CopyGoesOn DEF StatusInv
  <2> QED
    BY <2>6, <2>7
<1> QED
  BY <1>6, <1>7 DEF Discarded

\* Neither does choosing one.
LEMMA PruneShows ==
    ASSUME PanelInv, StatusInv, Prune
    PROVE  StatusInv'
<1>1. /\ Agreement /\ handler # NoHandler /\ call' = NoCall /\ UNCHANGED <<vars, store>> /\ host' = host
  BY DEF PanelInv, Prune, HandlerAt, vars
<1>2. CASE handler' = NoHandler
  BY <1>1, <1>2, HandlerOverShows
<1>3. CASE handler' # NoHandler
  <2> DEFINE b == Scheduled(handler.mem)[1].id
  <2>1. handler' = [handler EXCEPT !.from = b, !.todo = <<"discard", "save", "prune">>]
    BY <1>3 DEF Prune
  <2> HIDE DEF b
  <2>2. handler' = [act |-> handler.act, site |-> handler.site, mem |-> handler.mem, from |-> b,
                    safety |-> handler.safety, todo |-> <<"discard", "save", "prune">>]
    BY <1>1, <2>1 DEF Agreement, HandlerSound
  <2>3. /\ <<"discard", "save", "prune">> # <<"save", "delete", "erase">>
        /\ <<"discard", "save", "prune">> # <<"delete", "erase">>
    OBVIOUS
  <2>4. handler.mem.op.state # "pending" => Shown(handler.mem.status, host'[handler.site])
    BY <1>1 DEF StatusInv, CopyShown
  <2>5. CopyShown'
    BY <2>2, <2>3, <2>4, CopyGoesOn
  <2> QED
    BY <1>1, <2>5, SitesKept DEF StatusInv, CallShown
<1> QED
  BY <1>2, <1>3

\* The record that reconcileRuntime writes.
LEMMA ReconciledShown ==
    ASSUME NEW r, NEW answer, IsRecord(r), NEW h, Shown(answer.status, h),
           Reconciled(r, answer) # Erased
    PROVE  Shown(Reconciled(r, answer).status, h)
<1> DEFINE op == IF Busy(r) THEN Resolved(r.op, answer.op) ELSE r.op
           status == CASE Busy(r) /\ op.kind = "create" -> "failed"
                       [] Busy(r) /\ op.kind # "create" -> answer.status
                       [] ~Busy(r) /\ r.status = "creating" -> "failed"
                       [] ~Busy(r) /\ r.status = "deleting" -> "unhealthy"
                       [] ~Busy(r) /\ r.status = "failed" -> "failed"
                       [] OTHER -> answer.status
           bs == IF Busy(r) THEN Recovered(r, answer.op) ELSE r.backups
<1>1. Reconciled(r, answer) =
         IF Busy(r) /\ op.kind = "delete" /\ op.state = "succeeded" THEN Erased
         ELSE [status |-> status, op |-> op, health |-> FALSE, backups |-> bs]
  BY DEF Reconciled
<1>2. status \in {"failed", "unhealthy", answer.status}
  OBVIOUS
<1> HIDE DEF op, status, bs
<1>3. Reconciled(r, answer).status = status
  BY <1>1
<1> QED
  BY <1>2, <1>3 DEF Shown

\* The answer of /runtime is applied to the record.
LEMMA ReconcileShows ==
    ASSUME PanelInv, StatusInv, Reconcile
    PROVE  StatusInv'
<1>1. /\ Agreement /\ sweep # {} /\ call # NoCall /\ UNCHANGED vars /\ host' = host /\ call' = NoCall
      /\ UNCHANGED handler
  BY DEF PanelInv, Reconcile, vars
<1>2. PICK s \in Sites : s = call.site
  BY <1>1, SweepFacts
<1>3. /\ handler = NoHandler /\ call.path = "runtime" /\ Known(s) /\ IsRecord(store[s])
  BY <1>1, <1>2, SweepFacts
<1>4. CopyShown' /\ CallShown'
  BY <1>1, <1>3 DEF CopyShown, CallShown
<1>5. SitesShown'
  <2>1. CASE UNCHANGED store
    BY <1>1, <2>1, SitesKept DEF StatusInv
  <2>2. CASE call.phase = "ok" /\ store' = [store EXCEPT ![s] = Reconciled(store[s], call.answer)]
    <3>1. Shown(call.answer.status, host[s])
      BY <1>1, <1>2, <1>3, <2>2 DEF StatusInv, CallShown
    <3>2. PICK r : r = Reconciled(store[s], call.answer)
      OBVIOUS
    <3>3. r # Erased => Shown(r.status, host'[s])
      BY <1>1, <1>3, <3>1, <3>2, ReconciledShown
    <3> QED
      BY <1>1, <2>2, <3>2, <3>3, SitesSaved DEF StatusInv
  <2>3. CASE store' = [store EXCEPT ![s] = [store[s] EXCEPT !.health = TRUE]]
    <3>1. PICK r : r = [store[s] EXCEPT !.health = TRUE]
      OBVIOUS
    <3>2. r.status = store[s].status /\ r.op = store[s].op
      BY <1>3, <3>1 DEF IsRecord
    <3>3. r.op.state # "pending" => Shown(r.status, host'[s])
      BY <1>1, <1>3, <3>2 DEF StatusInv, SitesShown, Busy
    <3> QED
      BY <1>1, <2>3, <3>1, <3>3, SitesSaved DEF StatusInv
  <2> QED
    BY <1>2, <2>1, <2>2, <2>3 DEF Reconcile
<1> QED
  BY <1>4, <1>5 DEF StatusInv

\* The panel starts a sweep, asks for something, or is started again.
LEMMA QuietShows ==
    ASSUME PanelInv, StatusInv, StartSweep \/ Discard \/ (\E s \in Sites : Probe(s)) \/ PanelRestart
    PROVE  StatusInv'
<1>1. UNCHANGED <<vars, store>> /\ host' = host /\ handler' \in {handler, NoHandler}
  BY DEF StartSweep, Discard, Probe, PanelRestart, vars
<1>2. SitesShown'
  BY <1>1, SitesKept DEF StatusInv
<1>3. CopyShown'
  BY <1>1 DEF StatusInv, CopyShown, Shown, AllUp, Shut
<1>4. CallShown'
  <2>1. CASE StartSweep
    <3>1. call' = NoCall
      BY <2>1, IdleNoCall DEF StartSweep, PanelInv
    <3> QED
      BY <3>1 DEF CallShown
  <2>2. CASE Discard
    <3>1. call'.path = "discard"
      BY <2>2 DEF Discard
    <3> QED
      BY <3>1 DEF CallShown
  <2>3. CASE \E s \in Sites : Probe(s)
    <3>1. call'.path = "runtime" /\ call'.phase = "sent"
      BY <2>3 DEF Probe
    <3> QED
      BY <3>1 DEF CallShown
  <2>4. CASE PanelRestart
    BY <2>4 DEF PanelRestart, CallShown
  <2> QED
    BY <2>1, <2>2, <2>3, <2>4
<1> QED
  BY <1>2, <1>3, <1>4 DEF StatusInv

-----------------------------------------------------------------------------
(* The status shown: steps of the worker *)

\* A step of the worker disturbs neither the records nor the handler's copy: while
\* either claims something, the site has no unsettled operation.
LEMMA WorkerShows ==
    ASSUME PanelInv, StatusInv, [Next]_vars, UNCHANGED <<store, handler>>, CallShown'
    PROVE  StatusInv'
<1>1. SitesShown'
  BY SitesKept DEF StatusInv
<1>2. CopyShown'
  <2>1. CASE handler = NoHandler
    BY <2>1 DEF CopyShown
  <2>2. CASE handler # NoHandler
    <3>1. Agreement /\ Inv /\ handler.site \in Sites
      BY <2>2, HandlerFacts DEF PanelInv
    <3>2. ASSUME handler.mem.op.state # "pending"
          PROVE  Shown(handler.mem.status, host'[handler.site])
      <4>1. call = NoCall \/ call.path # "tracked"
        BY <3>1, <3>2, TrackedCall
      <4>2. ~Pending(handler.site)
        BY <2>2, <3>1, <3>2, <4>1, CopyFacts DEF CopyAgrees
      <4>3. host'[handler.site].svc = host[handler.site].svc
        BY <3>1, <4>2, ServicesKept
      <4>4. Shown(handler.mem.status, host[handler.site])
        BY <2>2, <3>2 DEF StatusInv, CopyShown
      <4> QED
        BY <4>3, <4>4, ShownStays
    <3>3. handler.mem.op.state # "pending" => Shown(handler.mem.status, host[handler.site])'
      BY <3>2 DEF Shown, AllUp, Shut
    <3> QED
      BY <2>2, <3>3 DEF StatusInv, CopyShown
  <2> QED
    BY <2>1, <2>2
<1> QED
  BY <1>1, <1>2 DEF StatusInv

\* The call is as it was.
LEMMA CallStays ==
    ASSUME PanelInv, StatusInv, [Next]_vars, UNCHANGED <<handler, call>>,
           call # NoCall /\ call.path = "tracked" /\ call.phase = "received" /\ task'.mode = "run" =>
              Progress(task', handler.mem.status, host'[call.site])
    PROVE  CallShown'
<1>1. CASE call = NoCall
  BY <1>1 DEF CallShown
<1>2. CASE call # NoCall
  <2>1. Agreement /\ Inv /\ call.site \in Sites
    BY <1>2 DEF PanelInv, Agreement, CallSound, Calls, RuntimeReplies
  <2>2. ASSUME call.phase \in {"sent", "ok"}, call.path \in {"tracked", "runtime"},
               call.phase = "sent" => call.path = "tracked", NEW status, Shown(status, host[call.site])
        PROVE  Shown(status, host'[call.site])
    <3>1. ~Pending(call.site)
      BY <1>2, <2>1, <2>2 DEF Agreement, CallSound, SucceededReceipt, Pending
    <3>2. host'[call.site].svc = host[call.site].svc
      BY <2>1, <3>1, ServicesKept
    <3> QED
      BY <2>2, <3>2, ShownStays
  <2>3. PICK s, k : s = call.site /\ k = host'[s]
    OBVIOUS
  <2>4. /\ call.path = "tracked" /\ call.phase = "sent" => Shown(handler.mem.status, k)
        /\ call.path = "tracked" /\ call.phase = "received" /\ task'.mode = "run" =>
              Progress(task', handler.mem.status, k)
        /\ call.path = "tracked" /\ call.phase = "ok" =>
              Shown(After(WorkerKind(handler.mem.op.kind), handler.mem.status), k)
        /\ call.path = "runtime" /\ call.phase = "ok" => Shown(call.answer.status, k)
    BY <1>2, <2>2, <2>3 DEF StatusInv, CallShown
  <2>5. call' = call /\ handler' = handler /\ host[call.site]' = k
    BY <2>3
  <2> QED
    BY <2>4, <2>5 DEF CallShown, Shown, AllUp, Shut, Progress
<1> QED
  BY <1>1, <1>2

\* The call promises nothing any more.
LEMMA CallOver ==
    ASSUME \/ call'.phase \in {"busy", "error"}
           \/ call'.path = "discard"
           \/ call'.path = "runtime" /\ call'.phase = "received"
    PROVE  CallShown'
BY DEF CallShown

\* /runtime answers with what it sees.
LEMMA ReplyShown ==
    ASSUME NEW s, call' = RuntimeReply(s)
    PROVE  CallShown'
<1>1. PICK k, status : k = host'[s] /\ status = RuntimeStatus(k)
  OBVIOUS
<1>2. call' = [path |-> "runtime", site |-> s, phase |-> "ok",
               answer |-> [op |-> receipt'[s], status |-> status]]
  BY <1>1 DEF RuntimeReply
<1>3. call'.path = "runtime" /\ call'.site = s /\ call'.phase = "ok" /\ call'.answer.status = status
  BY <1>2
<1>4. Shown(status, k)
  BY <1>1, SnapshotShown
<1>5. Shown(call.answer.status, host[call.site])'
  BY <1>1, <1>3, <1>4 DEF Shown, AllUp, Shut
<1> QED
  BY <1>3, <1>5 DEF CallShown

\* The worker takes a tracked request, or fails to save its receipt.
LEMMA DeliverShows ==
    ASSUME PanelInv, StatusInv, [Next]_vars, NEW outcome \in Outcomes, Deliver(outcome)
    PROVE  StatusInv'
<1>1. /\ Agreement /\ call # NoCall /\ call.path = "tracked" /\ call.phase = "sent"
      /\ UNCHANGED <<store, handler>> /\ host' = host
  BY DEF PanelInv, Deliver, Sent, Begin
<1> DEFINE phase == IF outcome = "synced" THEN "received" ELSE "error"
<1>2. phase \in {"received", "error"} /\ call' = [call EXCEPT !.phase = phase]
      /\ (phase = "received" => outcome = "synced")
  BY DEF Deliver
<1> HIDE DEF phase
<1>3. call' # NoCall /\ call'.path = call.path /\ call'.site = call.site /\ call'.phase = phase
  BY <1>1, <1>2, CallPhase
<1>4. CallShown'
  <2>1. CASE phase = "error"
    BY <1>3, <2>1, CallOver
  <2>2. CASE phase = "received"
    <3>1. task' = StartedTask(TheRequest)
      BY <1>2, <2>2 DEF Deliver, Begin
    <3>2. PICK g : g = host[TheRequest.site]
      OBVIOUS
    <3>3. task'.todo = Plan(task'.kind, g)
      BY <3>1, <3>2 DEF StartedTask
    <3>4. Shown(handler.mem.status, host[call.site])
      BY <1>1 DEF StatusInv, CallShown
    <3>5. Progress(task', handler.mem.status, host[call.site])
      BY <3>3, <3>4, ProgressBegins
    <3>6. Progress(task, handler.mem.status, host[call.site])'
      BY <1>1, <1>3, <3>5 DEF Progress, Shown, AllUp, Shut
    <3> QED
      BY <1>1, <1>3, <2>2, <3>6 DEF CallShown
  <2> QED
    BY <1>2, <2>1, <2>2
<1> QED
  BY <1>1, <1>4, WorkerShows

\* A call is refused or lost.
LEMMA RefuseShows ==
    ASSUME PanelInv, StatusInv, [Next]_vars, Refuse \/ LoseCall
    PROVE  StatusInv'
<1>1. Agreement /\ call # NoCall /\ UNCHANGED <<store, handler>>
  BY DEF PanelInv, Refuse, LoseCall
<1>2. PICK phase \in {"busy", "error"} :
         \/ call.phase = "sent" /\ call' = [call EXCEPT !.phase = phase]
         \/ call' = [path |-> call.path, site |-> call.site, phase |-> phase]
  <2>1. CASE Refuse
    BY <2>1 DEF Refuse
  <2>2. CASE LoseCall
    BY <2>2 DEF LoseCall
  <2> QED
    BY <2>1, <2>2
<1>3. call'.phase = phase
  BY <1>1, <1>2, CallPhase
<1>4. CallShown'
  BY <1>2, <1>3, CallOver
<1> QED
  BY <1>1, <1>4, WorkerShows

\* A backup is removed, or /runtime is called.
LEMMA OtherCallShows ==
    ASSUME PanelInv, StatusInv, [Next]_vars, DeliverDiscard \/ DeliverRuntime \/ DeliverRecovery
    PROVE  StatusInv'
<1>1. /\ Agreement /\ call # NoCall /\ UNCHANGED <<store, handler>> /\ call.phase = "sent"
  BY DEF PanelInv, DeliverDiscard, DeliverRuntime, DeliverRecovery, Sent
<1>2. CallShown'
  <2>1. CASE DeliverDiscard
    <3>1. call.path = "discard" /\ call' = [call EXCEPT !.phase = "ok"]
      BY <2>1 DEF DeliverDiscard, Sent
    <3>2. call'.path = "discard"
      BY <1>1, <3>1, CallPhase
    <3> QED
      BY <3>2, CallOver
  <2>2. CASE DeliverRuntime
    BY <2>2, ReplyShown DEF DeliverRuntime
  <2>3. CASE DeliverRecovery
    <3>1. call.path = "runtime" /\ call' = [call EXCEPT !.phase = "received"]
      BY <2>3 DEF DeliverRecovery, Sent
    <3>2. call'.path = "runtime" /\ call'.phase = "received"
      BY <1>1, <3>1, CallPhase
    <3> QED
      BY <3>2, CallOver
  <2> QED
    BY <2>1, <2>2, <2>3
<1> QED
  BY <1>1, <1>2, WorkerShows

\* The worker answers with an error if the request is over.
LEMMA FinishShows ==
    ASSUME PanelInv, StatusInv, [Next]_vars, UNCHANGED <<store, handler>>, Finish("error"),
           call # NoCall /\ call.path = "tracked" /\ call.phase = "received" /\ task' # NoTask
              /\ task'.mode = "run" => Progress(task', handler.mem.status, host'[call.site])
    PROVE  StatusInv'
<1>1. Agreement
  BY DEF PanelInv
<1>2. CASE call # NoCall /\ call.phase = "received" /\ task' = NoTask
  <2>1. call' = [call EXCEPT !.phase = "error"]
    BY <1>2 DEF Finish
  <2>2. call'.phase = "error"
    BY <1>1, <1>2, <2>1, CallPhase
  <2>3. CallShown'
    BY <2>2, CallOver
  <2> QED
    BY <2>3, WorkerShows
<1>3. CASE ~(call # NoCall /\ call.phase = "received" /\ task' = NoTask)
  <2>1. call' = call
    BY <1>3 DEF Finish
  <2>2. CallShown'
    BY <1>3, <2>1, CallStays
  <2> QED
    BY <2>2, WorkerShows
<1> QED
  BY <1>2, <1>3

\* A step of the request the worker executes, and the death of the worker.
LEMMA WorkerStepShows ==
    ASSUME PanelInv, StatusInv, [Next]_vars, WorkerStep \/ WorkerCrash
    PROVE  StatusInv'
<1>1. Agreement /\ Inv /\ ContentInv /\ UNCHANGED <<store, handler>> /\ Finish("error")
  BY DEF PanelInv, WorkerStep, WorkerCrash
<1>2. ASSUME call # NoCall, call.path = "tracked", call.phase = "received", task' # NoTask,
             task'.mode = "run"
      PROVE  Progress(task', handler.mem.status, host'[call.site])
  <2>1. WorkerStep
    BY <1>2 DEF WorkerCrash, Crash
  <2>2. task # NoTask /\ task.site = call.site
    BY <1>1, <1>2 DEF Agreement, CallSound
  <2>3. task.mode = "run"
    <3>1. Moves
      BY <1>1, <2>1, WorkerMoves DEF WorkerStep
    <3> QED
      BY <1>2, <2>2, <3>1 DEF Moves
  <2>4. Progress(task, handler.mem.status, Here)
    BY <1>2, <2>2, <2>3 DEF StatusInv, CallShown, Here
  <2> QED
    BY <1>1, <1>2, <2>1, <2>2, <2>3, <2>4, RequestProgress DEF WorkerStep
<1> QED
  BY <1>1, <1>2, FinishShows

\* The worker gives up on a request whose context is done, or starts again.
LEMMA WorkerRestartShows ==
    ASSUME PanelInv, StatusInv, [Next]_vars, WorkerTimeout \/ WorkerRestart
    PROVE  StatusInv'
<1>1. Agreement /\ Inv /\ UNCHANGED <<store, handler, call>>
  BY DEF PanelInv, WorkerTimeout, WorkerRestart, panelVars
<1>2. ASSUME call # NoCall, call.path = "tracked", call.phase = "received", task'.mode = "run"
      PROVE  Progress(task', handler.mem.status, host'[call.site])
  <2>1. task # NoTask /\ task.site = call.site
    BY <1>1, <1>2 DEF Agreement, CallSound
  <2>2. WorkerTimeout
    BY <2>1 DEF WorkerRestart, Boot, Settle, Serve, PanelInv, Attended
  <2>3. task' = [task EXCEPT !.live = FALSE] /\ host' = host /\ task \in Tasks
    BY <1>1, <2>1, <2>2, TaskPending DEF WorkerTimeout, Disconnect
  <2>4. /\ task'.mode = task.mode /\ task'.todo = task.todo /\ task'.kind = task.kind
        /\ task'.was = task.was
    BY <2>3 DEF Tasks
  <2>5. StaysOn(task')
    BY <2>3, <2>4 DEF StaysOn, Here
  <2>6. Progress(task, handler.mem.status, Here)
    BY <1>2, <2>1, <2>4 DEF StatusInv, CallShown, Here
  <2> QED
    BY <2>1, <2>5, <2>6, StayProgress
<1>3. CallShown'
  BY <1>1, <1>2, CallStays
<1> QED
  BY <1>1, <1>3, WorkerShows

\* The request is done: what it was for is so.
LEMMA WorkerConcludesShows ==
    ASSUME PanelInv, StatusInv, [Next]_vars, NEW outcome \in Outcomes, WorkerConcludes(outcome)
    PROVE  StatusInv'
<1>1. /\ Agreement /\ Inv /\ UNCHANGED <<store, handler>>
      /\ task # NoTask /\ task.todo = <<>> /\ task' = NoTask /\ host' = host
  BY DEF PanelInv, WorkerConcludes, Conclude
<1>2. CASE ~(call # NoCall /\ call.phase = "received")
  <2>1. call' = call
    BY <1>2 DEF WorkerConcludes, Finish
  <2>2. CallShown'
    BY <1>1, <1>2, <2>1, CallStays
  <2> QED
    BY <1>1, <2>2, WorkerShows
<1>3. CASE call # NoCall /\ call.phase = "received" /\ outcome = "synced" /\ task.mode = "recover"
  <2>1. call' = RuntimeReply(call.site)
    BY <1>3 DEF WorkerConcludes
  <2> QED
    BY <1>1, <2>1, ReplyShown, WorkerShows
<1>4. CASE call # NoCall /\ call.phase = "received" /\ ~(outcome = "synced" /\ task.mode = "recover")
  <2> DEFINE phase == IF task.mode = "run" /\ outcome = "synced" THEN "ok" ELSE "error"
  <2>1. Finish(phase)
    BY <1>4 DEF WorkerConcludes
  <2>2. phase \in {"ok", "error"} /\ (phase = "ok" => task.mode = "run")
    OBVIOUS
  <2> HIDE DEF phase
  <2>3. call' = [call EXCEPT !.phase = phase]
    BY <1>1, <1>4, <2>1 DEF Finish
  <2>4. call' # NoCall /\ call'.path = call.path /\ call'.site = call.site /\ call'.phase = phase
    BY <1>1, <1>4, <2>2, <2>3, CallPhase
  <2>5. CASE phase = "error"
    BY <1>1, <2>4, <2>5, CallOver, WorkerShows
  <2>6. CASE phase = "ok"
    <3>1. task.mode = "run" /\ task.site = call.site /\ call.path = "tracked"
      BY <1>1, <1>4, <2>2, <2>6 DEF Agreement, CallSound, Calls, RuntimeReplies
    <3>2. /\ handler # NoHandler /\ call.site \in Sites /\ store[call.site] = handler.mem
          /\ handler.mem.op.kind = Head(handler.todo) /\ SiteAgrees(call.site)
      BY <1>1, <1>4, <3>1, TrackedCall DEF Agreement
    <3>3. /\ task \in Tasks /\ Pending(call.site)
          /\ receipt[call.site] = [id |-> task.id, kind |-> task.kind, state |-> "pending"]
      BY <1>1, <3>1, TaskPending
    <3>4. task.kind = WorkerKind(handler.mem.op.kind)
      BY <3>2, <3>3 DEF SiteAgrees
    <3>5. task.kind = "delete" => handler.mem.status = "deleting"
      <4>1. task.kind = "delete" => Head(handler.todo) = "delete"
        BY <3>2, <3>4 DEF WorkerKind
      <4>2. InOrder(handler.act, handler.todo)
        BY <1>1, <3>2, HandlerFacts
      <4> QED
        BY <3>2, <4>1, <4>2 DEF InOrder, StatusInv, CopyShown
    <3>6. Progress(task, handler.mem.status, host[call.site])
      BY <1>4, <3>1 DEF StatusInv, CallShown
    <3>7. task.kind \in Kinds /\ task.was \in BOOLEAN
      BY <3>3 DEF Tasks
    <3>8. Shown(After(WorkerKind(handler.mem.op.kind), handler.mem.status), host[call.site])
      BY <1>1, <3>4, <3>5, <3>6, <3>7, ProgressEnds
    <3>9. Shown(After(WorkerKind(handler.mem.op.kind), handler.mem.status), host[call.site])'
      BY <1>1, <2>4, <3>8 DEF Shown, AllUp, Shut, After, WorkerKind
    <3>10. CallShown'
      BY <2>4, <2>6, <3>1, <3>9 DEF CallShown
    <3> QED
      BY <1>1, <3>10, WorkerShows
  <2> QED
    BY <2>2, <2>5, <2>6
<1> QED
  BY <1>2, <1>3, <1>4

\* Every step keeps the statuses true.
LEMMA StatusNext ==
    ASSUME PanelInv, StatusInv, [PanelNext]_allVars
    PROVE  StatusInv'
<1>0. [Next]_vars
  BY PanelNextSound
<1>1. CASE UNCHANGED allVars
  <2>1. UNCHANGED <<store, handler, call>> /\ UNCHANGED <<task, host>>
    BY <1>1 DEF allVars, panelVars, vars
  <2>2. CallShown'
    BY <1>0, <2>1, CallStays DEF StatusInv, CallShown
  <2> QED
    BY <1>0, <2>1, <2>2, WorkerShows
<1>2. CASE \E s \in Sites, act \in Actions, from \in Ids \cup {"none"} : StartHandler(s, act, from)
  BY <1>2, StartHandlerShows
<1>3. CASE HandlerStep
  BY <1>3, SaveShows, EraseShows, AnsweredShows, QuietShows, DiscardedShows, PruneShows,
     CallTrackedShows DEF HandlerStep
<1>4. CASE StartSweep \/ SweepStep \/ PanelRestart
  BY <1>4, ReconcileShows, QuietShows DEF SweepStep
<1>5. CASE Reception \/ LoseCall
  BY <1>0, <1>5, DeliverShows, RefuseShows, OtherCallShows DEF Reception
<1>6. CASE WorkerStep \/ WorkerCrash \/ WorkerTimeout \/ WorkerRestart
  BY <1>0, <1>6, WorkerStepShows, WorkerRestartShows
<1>7. CASE \E outcome \in Outcomes : WorkerConcludes(outcome)
  BY <1>0, <1>7, WorkerConcludesShows
<1> QED
  BY <1>1, <1>2, <1>3, <1>4, <1>5, <1>6, <1>7 DEF PanelNext

\* A site shown as running is running, and one shown as stopped is not served,
\* unless an operation of the site is marked as under way: through lost answers,
\* failing saves and restarts of either process, no status outlives its truth.
THEOREM ShownStatusIsRealHolds == PanelSpec => []ShownStatusIsReal
<1>1. PanelInit => StatusInv
  <2> SUFFICES ASSUME PanelInit PROVE StatusInv
    OBVIOUS
  <2>1. \A s \in Sites : ~Known(s)
    BY DEF PanelInit, Known
  <2> QED
    BY <2>1 DEF PanelInit, StatusInv, SitesShown, CopyShown, CallShown
<1>2. PanelInv /\ StatusInv /\ [PanelNext]_allVars => StatusInv'
  BY StatusNext
<1>3. StatusInv => ShownStatusIsReal
  BY DEF StatusInv, SitesShown, Shown, AllUp, Shut, ShownStatusIsReal
<1> QED
  BY <1>1, <1>2, <1>3, PanelSafety, PTL DEF PanelSpec

-----------------------------------------------------------------------------
(* The lists of backups: what Among computes *)

\* Every set of naturals that is not empty has a least member.
LEMMA Least ==
    ASSUME NEW T, T \subseteq Nat, T # {}
    PROVE  \E x \in T : \A y \in T : ~(y < x)
<1> DEFINE R == OpToRel(<, Nat)
<1>1. IsWellFoundedOn(R, Nat)
  BY NatLessThanWellFounded
<1> HIDE DEF R
<1>2. \E x \in T : \A y \in T : ~ (<<y, x>> \in R)
  BY <1>1, WFMin
<1>3. \A x, y \in Nat : y < x => <<y, x>> \in R
  BY DEF R, OpToRel
<1> QED
  BY <1>2, <1>3

\* Induction.
LEMMA Induction ==
    ASSUME NEW T, 0 \in T, \A n \in Nat : n \in T => n + 1 \in T
    PROVE  \A n \in Nat : n \in T
<1> SUFFICES ASSUME NEW n \in Nat, n \notin T PROVE FALSE
  OBVIOUS
<1> DEFINE U == {k \in Nat : k \notin T}
<1>1. PICK m \in U : \A k \in U : ~(k < m)
  BY Least
<1>2. m # 0 /\ m \in Nat /\ m - 1 \in Nat
  BY <1>1
<1>3. m - 1 \in T
  BY <1>1, <1>2
<1>4. m - 1 + 1 = m
  BY <1>2
<1> QED
  BY <1>1, <1>2, <1>3, <1>4

\* The backups of a list.
Entries(list) == {list[k] : k \in DOMAIN list}

\* A backup is added at the end.
LEMMA EntriesAppend ==
    ASSUME NEW S, NEW list \in Seq(S), NEW b \in S
    PROVE  /\ Append(list, b) \in Seq(S) /\ Append(list, b) # <<>>
           /\ Entries(Append(list, b)) = Entries(list) \cup {b}
           /\ Append(list, b)[Len(Append(list, b))] = b
<1> DEFINE a == Append(list, b)
           n == Len(list)
<1>1. n \in Nat /\ DOMAIN list = 1..n
  OBVIOUS
<1>2. a \in Seq(S) /\ Len(a) = n + 1 /\ DOMAIN a = 1..(n + 1) /\ a[n + 1] = b
  OBVIOUS
<1>3. \A k \in 1..n : a[k] = list[k]
  OBVIOUS
<1>4. 1..(n + 1) = (1..n) \cup {n + 1}
  BY <1>1
<1> HIDE DEF a, n
<1>5. Entries(a) = Entries(list) \cup {b}
  BY <1>1, <1>2, <1>3, <1>4 DEF Entries
<1>6. a # <<>>
  BY <1>1, <1>2
<1> QED
  BY <1>1, <1>2, <1>5, <1>6 DEF a, n

\* The equation of the function that Among builds, up to m.
Filters(g, list, chosen, m) ==
    g = [n \in 0..m |-> IF n = 0 THEN <<>>
                        ELSE IF list[n] \in chosen THEN Append(g[n - 1], list[n])
                        ELSE g[n - 1]]

\* It has a solution.
LEMMA FilterExists ==
    ASSUME NEW list, NEW chosen, NEW m \in Nat
    PROVE  \E g : Filters(g, list, chosen, m)
<1> DEFINE T == {n \in Nat : \E g : Filters(g, list, chosen, n)}
<1>1. 0 \in T
  <2> DEFINE g == [n \in 0..0 |-> <<>>]
  <2>1. Filters(g, list, chosen, 0)
    BY DEF Filters
  <2> QED
    BY <2>1
<1>2. ASSUME NEW n \in Nat, n \in T
      PROVE  n + 1 \in T
  <2>1. PICK g : Filters(g, list, chosen, n)
    BY <1>2
  <2> DEFINE k == [i \in 0..(n + 1) |-> IF i = 0 THEN <<>>
                                         ELSE IF list[i] \in chosen THEN Append(g[i - 1], list[i])
                                         ELSE g[i - 1]]
  <2>2. \A i \in 0..n : k[i] = g[i]
    <3>1. \A i \in 0..n : g[i] = IF i = 0 THEN <<>>
                                 ELSE IF list[i] \in chosen THEN Append(g[i - 1], list[i])
                                 ELSE g[i - 1]
      BY <2>1 DEF Filters
    <3> QED
      BY <3>1
  <2>3. \A i \in 0..(n + 1) : i # 0 => i - 1 \in 0..n
    OBVIOUS
  <2>4. \A i \in 0..(n + 1) : i # 0 => k[i - 1] = g[i - 1]
    BY <2>2, <2>3
  <2>5. Filters(k, list, chosen, n + 1)
    BY <2>4 DEF Filters
  <2> HIDE DEF k
  <2> QED
    BY <2>5
<1> HIDE DEF T
<1>3. m \in T
  BY <1>1, <1>2, Induction
<1> QED
  BY <1>3 DEF T

\* Among keeps the chosen backups of a list, and nothing else.
LEMMA AmongEntries ==
    ASSUME NEW S, NEW list \in Seq(S), NEW chosen
    PROVE  /\ Among(list, chosen) \in Seq(S)
           /\ Entries(Among(list, chosen)) = Entries(list) \cap chosen
<1> DEFINE m == Len(list)
<1>1. m \in Nat /\ DOMAIN list = 1..m
  OBVIOUS
<1>2. PICK g : Filters(g, list, chosen, m) /\ Among(list, chosen) = g[m]
  <2> DEFINE F == CHOOSE g : g = [n \in 0..Len(list) |-> IF n = 0 THEN <<>>
                        ELSE IF list[n] \in chosen THEN Append(g[n - 1], list[n])
                        ELSE g[n - 1]]
  <2>1. \E g : Filters(g, list, chosen, m)
    BY <1>1, FilterExists
  <2>2. Filters(F, list, chosen, m)
    BY <2>1 DEF Filters
  <2>3. Among(list, chosen) = F[m]
    BY DEF Among
  <2> QED
    BY <2>2, <2>3
<1> HIDE DEF m
<1>3. \A n \in 0..m : g[n] = IF n = 0 THEN <<>>
                             ELSE IF list[n] \in chosen THEN Append(g[n - 1], list[n])
                             ELSE g[n - 1]
  BY <1>2 DEF Filters
<1> DEFINE Good(n) == /\ g[n] \in Seq(S)
                      /\ Entries(g[n]) = {list[k] : k \in 1..n} \cap chosen
           T == {n \in Nat : n <= m => Good(n)}
<1>4. 0 \in T
  <2>1. g[0] = <<>>
    BY <1>1, <1>3
  <2>2. {list[k] : k \in 1..0} = {} /\ Entries(<<>>) = {}
    BY DEF Entries
  <2>3. g[0] \in Seq(S) /\ Entries(g[0]) = {list[k] : k \in 1..0} \cap chosen
    BY <2>1, <2>2
  <2>4. Good(0)
    BY <2>3
  <2> HIDE DEF Good
  <2> QED
    BY <2>4
<1>5. ASSUME NEW n \in Nat, n \in T
      PROVE  n + 1 \in T
  <2> SUFFICES ASSUME n + 1 <= m PROVE Good(n + 1)
    OBVIOUS
  <2>1. Good(n)
    BY <1>1, <1>5
  <2>2. n + 1 \in 0..m /\ n + 1 # 0 /\ (n + 1) - 1 = n /\ n + 1 \in 1..m
    BY <1>1
  <2>3. g[n + 1] = IF list[n + 1] \in chosen THEN Append(g[n], list[n + 1]) ELSE g[n]
    BY <1>3, <2>2
  <2>4. list[n + 1] \in S
    BY <1>1, <2>2
  <2>5. {list[k] : k \in 1..(n + 1)} = {list[k] : k \in 1..n} \cup {list[n + 1]}
    <3>1. 1..(n + 1) = (1..n) \cup {n + 1}
      OBVIOUS
    <3> QED
      BY <3>1
  <2> HIDE DEF T
  <2>6. CASE list[n + 1] \in chosen
    <3>1. g[n + 1] = Append(g[n], list[n + 1]) /\ g[n + 1] \in Seq(S)
      BY <2>1, <2>3, <2>4, <2>6
    <3>2. Entries(g[n + 1]) = Entries(g[n]) \cup {list[n + 1]}
      BY <2>1, <2>4, <3>1, EntriesAppend
    <3> QED
      BY <2>1, <2>5, <2>6, <3>1, <3>2
  <2>7. CASE list[n + 1] \notin chosen
    BY <2>1, <2>3, <2>5, <2>7
  <2> QED
    BY <2>6, <2>7
<1>6. m \in T
  <2> HIDE DEF T
  <2> QED
    BY <1>1, <1>4, <1>5, Induction
<1>7. Good(m)
  BY <1>1, <1>6
<1>8. {list[k] : k \in 1..m} = Entries(list)
  BY <1>1 DEF Entries
<1> QED
  BY <1>2, <1>7, <1>8

-----------------------------------------------------------------------------
(* The lists of backups: what is to be preserved *)

\* A list of backups next to the marker op, when ids are issued, the receipt is rc
\* and p is published: what is listed was issued, the backup of a pending operation
\* is not listed yet, and the backup of the last receipt is, once the record knows
\* how the operation ended or is about another one.
Sound(list, op, ids, rc, p) ==
    /\ list \in Seq(Backups)
    /\ \A b \in Entries(list) : b.id \in ids
    /\ op.state = "pending" => \A b \in Entries(list) : b.id # op.id
    /\ /\ rc.kind = "backup" /\ rc.state = "succeeded" /\ rc.id \in p
       /\ op.state # "pending" \/ op.id # rc.id
       => /\ \E b \in Entries(list) : b.id = rc.id
          /\ op.id = rc.id => [id |-> rc.id, source |-> Source(op.kind)] \in Entries(list)

\* The records of sites.json; a site that was never created has no backup to list.
SitesListed ==
    \A s \in Sites :
        /\ Known(s) => Sound(store[s].backups, store[s].op, issued, receipt[s], host[s].backups)
        /\ store[s] = Unborn => receipt[s].state # "succeeded"

\* The last of a list is a published safety backup.
Secured(list, p) ==
    /\ list # <<>>
    /\ list[Len(list)].source = "safety" /\ list[Len(list)].id \in p

\* An entry that retention may remove.
Prunable(list, id) ==
    /\ [id |-> id, source |-> "scheduled"] \in Entries(list)
    /\ Len(Among(list, {b \in Backups : b.source = "scheduled"})) > Retention

\* The handler's copy: it has its safety backup before what that is for; what is
\* about to be pruned is listed, and a scheduled backup too many.
CopyListed ==
    handler # NoHandler =>
        /\ Sound(handler.mem.backups, handler.mem.op, issued, receipt[handler.site],
                 host[handler.site].backups)
        /\ handler.todo \in SecuredTodos =>
              Secured(handler.mem.backups, host[handler.site].backups)
        /\ handler.todo = <<"prune">> => store[handler.site].backups = handler.mem.backups
        /\ handler.todo = <<"discard", "save", "prune">> /\ (call = NoCall \/ call.phase = "sent") =>
              /\ store[handler.site].backups = handler.mem.backups
              /\ Prunable(handler.mem.backups, handler.from)
        /\ handler.mem.op.state = "pending" /\ call = NoCall =>
              handler.mem.op.kind \notin {"update", "restore"}

\* What the answer to a call means for the lists.
CallListed ==
    call # NoCall /\ call.phase = "ok" =>
        /\ call.path = "tracked" /\ handler.mem.op.kind \in BackupKinds =>
              handler.mem.op.id \in host[call.site].backups
        /\ call.path = "discard" => handler.from \notin host[call.site].backups

\* What is executed: a backup that is done is published, and an update or a restore
\* has its safety backup.
TaskListed ==
    task # NoTask /\ task.mode = "run" =>
        /\ task.kind = "backup" /\ task.todo = <<>> => task.id \in Here.backups
        /\ task.kind \in {"update", "restore"} =>
              Secured(store[task.site].backups, Here.backups)

ListInv == SitesListed /\ CopyListed /\ CallListed /\ TaskListed

-----------------------------------------------------------------------------
(* The lists of backups: what the worker does to the published ones *)

\* The effects that leave the backups alone.
LEMMA BackupsSame ==
    ASSUME NEW h \in Hosts, NEW xs, NEW js
    PROVE  /\ Kill(h, js).backups = h.backups
           /\ Stop(h, xs).backups = h.backups
           /\ Up(h, xs).backups = h.backups
           /\ Recreate(h).backups = h.backups
           /\ Down(h).backups = h.backups
           /\ Configure(h).backups = h.backups
<1>1. \A ks : Kill(h, ks).backups = h.backups /\ Kill(h, ks) \in Hosts
  <2> TAKE ks
  <2> QED
    BY KillType DEF Kill, Hosts
<1>2. Stop(h, xs).backups = h.backups
  <2>1. PICK k \in Hosts : k.backups = h.backups /\ k = IF "db" \in xs THEN Kill(h, Execs) ELSE h
    BY <1>1
  <2>2. Stop(h, xs) = [k EXCEPT !.svc = [x \in Services |->
            IF x \in xs /\ h.svc[x] = "running" THEN "stopped" ELSE h.svc[x]]]
    BY <2>1 DEF Stop
  <2> QED
    BY <2>1, <2>2 DEF Hosts
<1>3. Up(h, xs).backups = h.backups
  <2>1. PICK k \in Hosts :
          /\ k.backups = h.backups
          /\ k = IF "db" \in xs /\ (h.svc["db"] # "running" \/ "db" \in h.stale)
                 THEN Kill(h, Execs) ELSE h
    BY <1>1
  <2>2. Up(h, xs) = [k EXCEPT !.svc = [x \in Services |-> IF x \in xs THEN "running" ELSE h.svc[x]],
                              !.stale = @ \ xs,
                              !.data = IF @ = "none" THEN "whole" ELSE @]
    BY <2>1 DEF Up
  <2> QED
    BY <2>1, <2>2 DEF Hosts
<1>4. PICK k \in Hosts : k.backups = h.backups /\ k = Kill(h, Execs)
  BY <1>1
<1>5. Recreate(h).backups = h.backups
  BY <1>4 DEF Recreate, Hosts
<1>6. Down(h).backups = h.backups
  BY <1>4 DEF Down, Hosts
<1>7. Configure(h).backups = h.backups
  BY DEF Configure, Hosts
<1> QED
  BY <1>1, <1>2, <1>3, <1>5, <1>6, <1>7

\* No backup of the site is lost.
Grows(s) == host[s].backups \subseteq host'[s].backups

\* One site changes, and keeps its backups.
LEMMA SiteGrows ==
    ASSUME Inv, NEW t \in Sites, NEW h, host' = [host EXCEPT ![t] = h],
           host[t].backups \subseteq h.backups
    PROVE  \A s \in Sites : Grows(s)
BY DEF Inv, TypeOK, Grows

\* A command that keeps the backups, however it ends.
LEMMA CommandGrows ==
    ASSUME Inv, NEW step, NEW possible, NEW after, NEW partly,
           Command(step, possible, after, partly), Here.backups \subseteq after.backups,
           \A h \in partly : Here.backups \subseteq h.backups
    PROVE  \A s \in Sites : Grows(s)
<1>1. task # NoTask /\ task.site \in Sites
  BY TaskPending DEF Command, At
<1>2. ASSUME NEW h, Proceed(h) \/ Abort(h), Here.backups \subseteq h.backups
      PROVE  \A s \in Sites : Grows(s)
  BY <1>1, <1>2, SiteGrows DEF Proceed, Abort, Here
<1>3. PICK h : (Proceed(h) \/ Abort(h)) /\ Here.backups \subseteq h.backups
  BY DEF Command
<1> QED
  BY <1>2, <1>3

\* Only the last step of a deletion removes backups.
LEMMA DoStepGrows ==
    ASSUME Inv, ContentInv, DoStep
    PROVE  \/ \A s \in Sites : Grows(s)
           \/ /\ task # NoTask /\ task.kind = "delete"
              /\ \A s \in Sites : s # task.site => Grows(s)
<1>1. CASE Admit \/ Inspect
  <2>1. task # NoTask /\ task.site \in Sites
    BY <1>1, TaskPending DEF Admit, Inspect, At
  <2>2. host' = host \/ host' = [host EXCEPT ![task.site] = Here]
    BY <1>1 DEF Admit, Inspect, Proceed, Abort
  <2> QED
    BY <2>1, <2>2, SiteGrows DEF Here, Grows
<1>2. CASE Conf \/ CloseTool \/ CheckGone \/ VerifyBackup
  BY <1>2, CommandGrows DEF Conf, CloseTool, CheckGone, VerifyBackup
<1>3. ASSUME task # NoTask
      PROVE  Here \in Hosts
  BY <1>3, TaskPending DEF Here, Inv, TypeOK
<1>21. CASE MkDir
  <2> DEFINE after == [Here EXCEPT !.dir = IF @ = "none" THEN "bare" ELSE @]
             partly == {}
  <2>1. Command("mkdir", TRUE, after, partly)
    BY <1>21 DEF MkDir
  <2>2. Here \in Hosts
    BY <1>3, <2>1 DEF Command, At
  <2>3. Here.backups \subseteq after.backups /\ \A h \in partly : Here.backups \subseteq h.backups
    BY <2>2 DEF Hosts
  <2> HIDE DEF after, partly
  <2> QED
    BY <2>1, <2>3, CommandGrows
<1>22. CASE Config
  <2> DEFINE after == Configure(Here)
             partly == {}
  <2>1. Command("config", TRUE, after, partly)
    BY <1>22 DEF Config
  <2>2. Here \in Hosts
    BY <1>3, <2>1 DEF Command, At
  <2>3. Here.backups \subseteq after.backups /\ \A h \in partly : Here.backups \subseteq h.backups
    BY <2>2, BackupsSame
  <2> HIDE DEF after, partly
  <2> QED
    BY <2>1, <2>3, CommandGrows
<1>23. CASE Route
  <2> DEFINE after == [Here EXCEPT !.route = TRUE]
             partly == {}
  <2>1. Command("route", TRUE, after, partly)
    BY <1>23 DEF Route
  <2>2. Here \in Hosts
    BY <1>3, <2>1 DEF Command, At
  <2>3. Here.backups \subseteq after.backups /\ \A h \in partly : Here.backups \subseteq h.backups
    BY <2>2 DEF Hosts
  <2> HIDE DEF after, partly
  <2> QED
    BY <2>1, <2>3, CommandGrows
<1>24. CASE Unroute
  <2> DEFINE after == [Here EXCEPT !.route = FALSE]
             partly == {}
  <2>1. Command("unroute", TRUE, after, partly)
    BY <1>24 DEF Unroute
  <2>2. Here \in Hosts
    BY <1>3, <2>1 DEF Command, At
  <2>3. Here.backups \subseteq after.backups /\ \A h \in partly : Here.backups \subseteq h.backups
    BY <2>2 DEF Hosts
  <2> HIDE DEF after, partly
  <2> QED
    BY <2>1, <2>3, CommandGrows
<1>25. CASE Publish
  <2> DEFINE after == [Here EXCEPT !.backups = @ \cup {task.id}]
  <2>1. Command("publish", task.id \notin Here.backups, after, {})
    BY <1>25 DEF Publish
  <2>2. Here \in Hosts
    BY <1>3, <2>1 DEF Command, At
  <2>3. Here.backups \subseteq after.backups
    BY <2>2 DEF Hosts
  <2> HIDE DEF after
  <2> QED
    BY <2>1, <2>3, CommandGrows
<1>26. CASE ComposeUp
  <2> DEFINE after == [Up(Here, Services) EXCEPT !.ack = TRUE]
             partly == {[Up(Here, {"db"}) EXCEPT !.ack = TRUE]}
  <2>1. Command("up", HasConfig, after, partly)
    BY <1>26 DEF ComposeUp
  <2>2. Here \in Hosts
    BY <1>3, <2>1 DEF Command, At
  <2>3. Here.backups \subseteq after.backups /\ \A h \in partly : Here.backups \subseteq h.backups
    <3>1. ASSUME NEW k \in Hosts
          PROVE  [k EXCEPT !.ack = TRUE].backups = k.backups
      BY DEF Hosts
    <3>2. \A xs \in SUBSET Services : Up(Here, xs) \in Hosts /\ Up(Here, xs).backups = Here.backups
      BY <2>2, UpType, BackupsSame
    <3>3. Services \in SUBSET Services /\ {"db"} \in SUBSET Services
      BY DEF Services
    <3> QED
      BY <3>1, <3>2, <3>3
  <2> HIDE DEF after, partly
  <2> QED
    BY <2>1, <2>3, CommandGrows
<1>27. CASE UpDb
  <2> DEFINE after == Up(Here, {"db"})
  <2>1. Command("updb", HasConfig, after, {})
    BY <1>27 DEF UpDb
  <2>2. Here \in Hosts
    BY <1>3, <2>1 DEF Command, At
  <2>3. Here.backups \subseteq after.backups
    BY <2>2, BackupsSame
  <2> HIDE DEF after
  <2> QED
    BY <2>1, <2>3, CommandGrows
<1>28. CASE UpWordPress
  <2> DEFINE after == Up(Here, Services)
             partly == {Up(Here, {"db"})}
  <2>1. Command("upwp", HasConfig, after, partly)
    BY <1>28 DEF UpWordPress
  <2>2. Here \in Hosts
    BY <1>3, <2>1 DEF Command, At
  <2>3. Here.backups \subseteq after.backups /\ \A h \in partly : Here.backups \subseteq h.backups
    BY <2>2, BackupsSame
  <2> HIDE DEF after, partly
  <2> QED
    BY <2>1, <2>3, CommandGrows
<1>29. CASE RecreateServices
  <2> DEFINE after == IF task.was THEN Up(Here, Services) ELSE Recreate(Here)
             partly == IF task.was THEN {Up(Here, {"db"})} ELSE {}
  <2>1. Command("recreate", HasConfig, after, partly)
    BY <1>29 DEF RecreateServices
  <2>2. Here \in Hosts
    BY <1>3, <2>1 DEF Command, At
  <2>3. Here.backups \subseteq after.backups /\ \A h \in partly : Here.backups \subseteq h.backups
    BY <2>2, BackupsSame
  <2> HIDE DEF after, partly
  <2> QED
    BY <2>1, <2>3, CommandGrows
<1>30. CASE ComposeStop
  <2> DEFINE after == Stop(Here, Services)
             partly == {Stop(Here, {"wp"})}
  <2>1. Command("stop", HasConfig, after, partly)
    BY <1>30 DEF ComposeStop
  <2>2. Here \in Hosts
    BY <1>3, <2>1 DEF Command, At
  <2>3. Here.backups \subseteq after.backups /\ \A h \in partly : Here.backups \subseteq h.backups
    BY <2>2, BackupsSame
  <2> HIDE DEF after, partly
  <2> QED
    BY <2>1, <2>3, CommandGrows
<1>31. CASE StopWordPress
  <2> DEFINE after == Stop(Here, {"wp"})
  <2>1. Command("stopwp", task.mode = "run" => HasConfig, after, {})
    BY <1>31 DEF StopWordPress
  <2>2. Here \in Hosts
    BY <1>3, <2>1 DEF Command, At
  <2>3. Here.backups \subseteq after.backups
    BY <2>2, BackupsSame
  <2> HIDE DEF after
  <2> QED
    BY <2>1, <2>3, CommandGrows
<1>32. CASE StopDb
  <2> DEFINE after == Stop(Here, {"db"})
             partly == {}
  <2>1. Command("stopdb", TRUE, after, partly)
    BY <1>32 DEF StopDb
  <2>2. Here \in Hosts
    BY <1>3, <2>1 DEF Command, At
  <2>3. Here.backups \subseteq after.backups /\ \A h \in partly : Here.backups \subseteq h.backups
    BY <2>2, BackupsSame
  <2> HIDE DEF after, partly
  <2> QED
    BY <2>1, <2>3, CommandGrows
<1>33. CASE RemoveOwnedJobs
  <2> DEFINE after == Kill(Here, Helpers \cup CliJobs)
             partly == {}
  <2>1. Command("rmjobs", TRUE, after, partly)
    BY <1>33 DEF RemoveOwnedJobs
  <2>2. Here \in Hosts
    BY <1>3, <2>1 DEF Command, At
  <2>3. Here.backups \subseteq after.backups /\ \A h \in partly : Here.backups \subseteq h.backups
    BY <2>2, BackupsSame
  <2> HIDE DEF after, partly
  <2> QED
    BY <2>1, <2>3, CommandGrows
<1>34. CASE ComposeDown
  <2> DEFINE after == Down(Here)
             partly == {Stop(Here, Services), [Down(Here) EXCEPT !.data = Here.data]}
  <2>1. Command("down", HasConfig, after, partly)
    BY <1>34 DEF ComposeDown
  <2>2. Here \in Hosts
    BY <1>3, <2>1 DEF Command, At
  <2>3. Here.backups \subseteq after.backups /\ \A h \in partly : Here.backups \subseteq h.backups
    <3>1. ASSUME NEW k \in Hosts, NEW d
          PROVE  [k EXCEPT !.data = d].backups = k.backups
      BY DEF Hosts
    <3> QED
      BY <2>2, <3>1, DownType, BackupsSame
  <2> HIDE DEF after, partly
  <2> QED
    BY <2>1, <2>3, CommandGrows
<1>35. CASE RemoveDir
  <2> DEFINE after == [Here EXCEPT !.dir = "none"]
             partly == {[Here EXCEPT !.dir = IF @ = "none" THEN @ ELSE "bare"]}
  <2>1. Command("rmdir", TRUE, after, partly)
    BY <1>35 DEF RemoveDir
  <2>2. Here \in Hosts
    BY <1>3, <2>1 DEF Command, At
  <2>3. Here.backups \subseteq after.backups /\ \A h \in partly : Here.backups \subseteq h.backups
    BY <2>2 DEF Hosts
  <2> HIDE DEF after, partly
  <2> QED
    BY <2>1, <2>3, CommandGrows
<1>10. CASE RemoveBackups
  <2>1. At("rmbackups") /\ task # NoTask /\ task.site \in Sites
    BY <1>10, TaskPending DEF RemoveBackups, Command, At
  <2>2. task.kind = "delete"
    BY <2>1, RunStep DEF Running, RestorePlace, ResourcesPlace, PlainSteps
  <2>3. PICK k : host' = [host EXCEPT ![task.site] = k]
    BY <1>10 DEF RemoveBackups, Command, Proceed, Abort
  <2>4. \A s \in Sites : s # task.site => Grows(s)
    BY <2>3 DEF Inv, TypeOK, Grows
  <2> QED
    BY <2>1, <2>2, <2>4
<1>11. ASSUME NEW j \in Jobs, StartJob(j)
       PROVE  \A s \in Sites : Grows(s)
  <2>1. task # NoTask /\ task.site \in Sites
    BY <1>11, TaskPending DEF StartJob, At
  <2>2. Launch(Here, j).backups = Here.backups
    BY <1>3, <2>1 DEF Launch, Hosts
  <2>3. \/ host' = [host EXCEPT ![task.site] = Launch(Here, j)]
        \/ host' = [host EXCEPT ![task.site] = Here]
    BY <1>11 DEF StartJob, Abort
  <2> QED
    BY <2>1, <2>2, <2>3, SiteGrows DEF Here
<1> QED
  BY <1>1, <1>2, <1>10, <1>11,
     <1>21, <1>22, <1>23, <1>24, <1>25, <1>26, <1>27, <1>28, <1>29, <1>30, <1>31, <1>32, <1>33, <1>34, <1>35
     DEF DoStep

\* Jobs that end keep them.
LEMMA JobEndsGrows ==
    ASSUME Inv, NEW t \in Sites, NEW j \in Jobs, NEW ok \in BOOLEAN, JobEnds(t, j, ok)
    PROVE  \A s \in Sites : Grows(s)
<1> DEFINE h == IF ok THEN [host[t] EXCEPT !.jobs = @ \ {j},
                                           !.data = IF j = "import" THEN "whole" ELSE @]
                      ELSE Kill(host[t], {j})
<1>1. host[t] \in Hosts
  BY DEF Inv, TypeOK
<1>2. h.backups = host[t].backups
  <2>1. [host[t] EXCEPT !.jobs = @ \ {j}, !.data = IF j = "import" THEN "whole" ELSE @].backups = host[t].backups
    BY <1>1 DEF Hosts
  <2>2. Kill(host[t], {j}).backups = host[t].backups
    BY <1>1, BackupsSame
  <2> QED
    BY <2>1, <2>2
<1>3. host' = [host EXCEPT ![t] = h]
  BY DEF JobEnds, Proceed, Abort, Awaits
<1> HIDE DEF h
<1> QED
  BY <1>2, <1>3, SiteGrows

\* What the worker does to the receipt of a site.
LEMMA ReceiptChanges ==
    ASSUME Inv, [Next]_vars, NEW s \in Sites
    PROVE  \/ receipt'[s] = receipt[s]
           \/ ~Pending(s) /\ receipt'[s].state = "pending"
           \/ Pending(s) /\ receipt'[s].id = receipt[s].id
<1>1. CASE \/ DoStep
           \/ \E t \in Sites, j \in Jobs, ok \in BOOLEAN : JobEnds(t, j, ok)
           \/ Abandon
  BY <1>1, WorkerMoves DEF Moves
<1>2. CASE \/ \E t \in Sites : Runtime(t)
           \/ \E t \in Sites, b \in Ids : DeleteBackup(t, b)
           \/ Disconnect \/ Crash \/ Boot \/ Serve
           \/ \E t \in Sites : Settle(t)
  BY <1>2 DEF Runtime, DeleteBackup, Disconnect, Crash, Boot, Serve, Settle
<1>3. ASSUME NEW req \in Requests, NEW outcome \in Outcomes, Begin(req, outcome)
      PROVE  receipt'[s] = receipt[s] \/ (~Pending(s) /\ receipt'[s].state = "pending")
  <2>1. PICK r : /\ r.state = "pending"
                 /\ receipt' = [receipt EXCEPT ![req.site] = IF outcome = "lost" THEN @ ELSE r]
    BY <1>3 DEF Begin, SaveReceipt
  <2>2. ~Pending(req.site) /\ req.site \in Sites
    BY <1>3 DEF Begin, Admissible, Pending, Requests
  <2> QED
    BY <2>1, <2>2 DEF Inv, TypeOK
<1>4. ASSUME NEW outcome \in Outcomes, Conclude(outcome)
      PROVE  receipt'[s] = receipt[s] \/ (Pending(s) /\ receipt'[s].id = receipt[s].id)
  <2>1. PICK r : /\ r.id = task.id
                 /\ receipt' = [receipt EXCEPT ![task.site] = IF outcome = "lost" THEN @ ELSE r]
    BY <1>4 DEF Conclude, SaveReceipt
  <2>2. /\ task.site \in Sites /\ Pending(task.site)
        /\ receipt[task.site] = [id |-> task.id, kind |-> task.kind, state |-> "pending"]
    BY <1>4, TaskPending DEF Conclude
  <2>3. receipt[task.site].id = task.id
    BY <2>2
  <2> QED
    BY <2>1, <2>2, <2>3 DEF Inv, TypeOK
<1>5. CASE UNCHANGED vars
  BY <1>5 DEF vars
<1> QED
  BY <1>1, <1>2, <1>3, <1>4, <1>5 DEF Next

\* A site without an unsettled operation gets no backup.
LEMMA NoneAdded ==
    ASSUME Inv, [Next]_vars, NEW s \in Sites, ~Pending(s)
    PROVE  host'[s].backups \subseteq host[s].backups
<1>0. host[s] \in Hosts
  BY DEF Inv, TypeOK
<1>1. CASE \/ DoStep
           \/ \E t \in Sites, j \in Jobs, ok \in BOOLEAN : JobEnds(t, j, ok)
           \/ Abandon
  BY <1>1, WorkerMoves DEF Moves
<1>2. CASE \/ \E req \in Requests, outcome \in Outcomes : Begin(req, outcome)
           \/ \E t \in Sites : Runtime(t)
           \/ \E outcome \in Outcomes : Conclude(outcome)
           \/ Disconnect \/ Crash \/ Serve
           \/ \E t \in Sites : Settle(t)
  BY <1>2 DEF Begin, Runtime, Conclude, Disconnect, Crash, Serve, Settle
<1>3. ASSUME NEW t \in Sites, NEW b \in Ids, DeleteBackup(t, b)
      PROVE  host'[s].backups \subseteq host[s].backups
  <2>1. host' = [host EXCEPT ![t] = [host[t] EXCEPT !.backups = @ \ {b}]] /\ host[t] \in Hosts
    BY <1>3 DEF DeleteBackup, Inv, TypeOK
  <2>2. [host[t] EXCEPT !.backups = @ \ {b}].backups \subseteq host[t].backups
    BY <2>1 DEF Hosts
  <2> QED
    BY <2>1, <2>2 DEF Inv, TypeOK
<1>4. CASE Boot
  BY <1>0, <1>4, BackupsSame DEF Boot
<1>5. CASE UNCHANGED vars
  BY <1>5 DEF vars
<1> QED
  BY <1>1, <1>2, <1>3, <1>4, <1>5 DEF Next

\* A step of the whole system takes a backup away only for a deletion, or because it
\* was asked to discard that one.
LEMMA Loses ==
    ASSUME PanelInv, [PanelNext]_allVars, NEW s \in Sites
    PROVE  \/ Grows(s)
           \/ Pending(s) /\ receipt[s].kind = "delete"
           \/ DeliverDiscard /\ s = call.site
<1>0. Inv /\ ContentInv /\ host[s] \in Hosts
  BY DEF PanelInv, Inv, TypeOK
<1>1. CASE WorkerStep
  <2>1. CASE DoStep
    <3>1. CASE ~Grows(s)
      <4>1. task # NoTask /\ task.kind = "delete" /\ s = task.site
        BY <1>0, <2>1, <3>1, DoStepGrows
      <4>2. Pending(task.site)
            /\ receipt[task.site] = [id |-> task.id, kind |-> task.kind, state |-> "pending"]
        BY <1>0, <4>1, TaskPending
      <4> QED
        BY <4>1, <4>2
    <3> QED
      BY <3>1
  <2>2. CASE \E t \in Sites, j \in Jobs, ok \in BOOLEAN : JobEnds(t, j, ok)
    BY <1>0, <2>2, JobEndsGrows
  <2>3. CASE Abandon
    <3>1. host' = [host EXCEPT ![task.site] = Here] /\ task.site \in Sites
      BY <1>0, <2>3, TaskPending DEF Abandon, Abort
    <3> QED
      BY <1>0, <3>1, SiteGrows DEF Here
  <2> QED
    BY <1>1, <2>1, <2>2, <2>3 DEF WorkerStep
<1>2. CASE DeliverDiscard
  <2>1. DeleteBackup(call.site, handler.from) /\ call.site \in Sites
    BY <1>2 DEF DeliverDiscard, Sent, PanelInv, Agreement, CallSound, Calls, RuntimeReplies
  <2>2. s # call.site => host'[s] = host[s]
    BY <1>0, <2>1 DEF DeleteBackup, Inv, TypeOK
  <2> QED
    BY <1>2, <2>2 DEF Grows
<1>3. CASE WorkerRestart
  <2>1. CASE Boot
    BY <1>0, <2>1, BackupsSame DEF Boot, Grows
  <2>2. CASE ~Boot
    BY <1>3, <2>2 DEF WorkerRestart, Settle, Serve, Grows
  <2> QED
    BY <2>1, <2>2
<1>4. CASE \/ \E t \in Sites, act \in Actions, from \in Ids \cup {"none"} : StartHandler(t, act, from)
           \/ StartSweep \/ SweepStep \/ LoseCall \/ PanelRestart
  BY <1>4 DEF StartHandler, StartSweep, SweepStep, Reconcile, Probe, LoseCall, PanelRestart, vars, Grows
<1>5. CASE HandlerStep
  BY <1>5 DEF HandlerStep, Save, Erase, Answered, Discard, Discarded, Prune, CallTracked, vars, Grows
<1>6. CASE Reception /\ ~DeliverDiscard
  BY <1>6 DEF Reception, Deliver, Begin, Refuse, DeliverRuntime, DeliverRecovery, Runtime, vars, Grows
<1>7. CASE WorkerCrash \/ WorkerTimeout \/ \E outcome \in Outcomes : WorkerConcludes(outcome)
  BY <1>7 DEF WorkerCrash, Crash, WorkerTimeout, Disconnect, WorkerConcludes, Conclude, Grows
<1>8. CASE UNCHANGED allVars
  BY <1>8 DEF allVars, vars, Grows
<1> QED
  BY <1>1, <1>2, <1>3, <1>4, <1>5, <1>6, <1>7, <1>8 DEF PanelNext

\* The last step of a backup is to publish it.
LEMMA BackupLast ==
    ASSUME NEW g, NEW todo \in Seq(Steps), todo # <<>>, Tail(todo) = <<>>,
           IsEnd(todo, Plan("backup", g))
    PROVE  Head(todo) = "publish"
<1>1. PICK plan : plan = Plan("backup", g) /\ Len(plan) = 4 /\ plan[4] = "publish"
  BY DEF Plan, BackupPlan
<1>2. Len(todo) = 1
  <2>1. Len(Tail(todo)) = Len(todo) - 1 /\ Len(todo) \in Nat
    OBVIOUS
  <2>2. ASSUME NEW rest, rest = <<>>
        PROVE  Len(rest) = 0
    BY <2>2
  <2>3. Len(Tail(todo)) = 0
    BY <2>2, Zenon
  <2> QED
    BY <2>1, <2>3
<1>3. PICK n \in 1..Len(plan) : Len(todo) = n /\ Head(todo) = plan[Len(plan) - n + 1]
  BY <1>1, EndHead
<1>4. n = 1 /\ Head(todo) = plan[4 - 1 + 1]
  BY <1>1, <1>2, <1>3
<1> QED
  BY <1>1, <1>4

\* A backup whose steps are done is published.
LEMMA BackupDone ==
    ASSUME Inv, ContentInv, task # NoTask, task.mode = "run", task'.mode = "run",
           task.kind = "backup", task'.todo = <<>>,
           \/ DoStep
           \/ \E s \in Sites, j \in Jobs, ok \in BOOLEAN : JobEnds(s, j, ok)
           \/ Abandon,
           task.todo = <<>> => task.id \in Here.backups,
           Grows(task.site)
    PROVE  task.id \in host'[task.site].backups
<1>1. StepsOn(task') \/ StaysOn(task')
  BY DoStepOn, JobEndsOn, NotAborted DEF Abandon
<1>2. CASE StaysOn(task')
  BY <1>2 DEF StaysOn, Grows, Here
<1>3. CASE StepsOn(task')
  <2>1. /\ task.todo # <<>> /\ Tail(task.todo) = <<>> /\ task.todo \in Seq(Steps)
        /\ task \in Tasks /\ task.site \in Sites /\ Here \in Hosts
    BY <1>3 DEF StepsOn, Inv, TypeOK, Tasks, Here
  <2>2. PICK g \in Hosts : IsEnd(task.todo, Plan(task.kind, g))
    BY DEF ContentInv, TaskSound
  <2>3. Head(task.todo) = "publish"
    BY <2>1, <2>2, BackupLast
  <2>4. CASE DoStep
    <3>1. Publish
      <4>1. ASSUME NEW step, At(step)
            PROVE  step = "publish"
        BY <2>3, <4>1 DEF At
      <4>2. ~(Admit \/ Inspect)
        BY <4>1 DEF Admit, Inspect
      <4>3. ~(Conf \/ CloseTool \/ MkDir \/ Config \/ Route \/ Unroute)
        BY <4>1 DEF Conf, CloseTool, MkDir, Config, Route, Unroute, Command
      <4>4. ~(ComposeUp \/ UpDb \/ UpWordPress \/ RecreateServices \/ ComposeStop)
        BY <4>1 DEF ComposeUp, UpDb, UpWordPress, RecreateServices, ComposeStop, Command
      <4>5. ~(StopWordPress \/ StopDb \/ RemoveOwnedJobs \/ ComposeDown \/ CheckGone)
        BY <4>1 DEF StopWordPress, StopDb, RemoveOwnedJobs, ComposeDown, CheckGone, Command
      <4>6. ~(RemoveDir \/ RemoveBackups \/ VerifyBackup)
        BY <4>1 DEF RemoveDir, RemoveBackups, VerifyBackup, Command
      <4>7. \A j \in Jobs : ~StartJob(j)
        BY <4>1 DEF StartJob, Jobs, Helpers, CliJobs, Execs
      <4> QED
        BY <2>4, <4>2, <4>3, <4>4, <4>5, <4>6, <4>7 DEF DoStep
    <3>2. Proceed([Here EXCEPT !.backups = @ \cup {task.id}])
      BY <3>1, NotAborted DEF Publish, Command
    <3>3. host'[task.site] = [Here EXCEPT !.backups = @ \cup {task.id}]
      BY <2>1, <3>2 DEF Proceed, Inv, TypeOK
    <3> QED
      BY <2>1, <3>3 DEF Hosts
  <2>5. ASSUME NEW s \in Sites, NEW j \in Jobs, NEW ok \in BOOLEAN, JobEnds(s, j, ok)
        PROVE  FALSE
    <3>1. Awaits(s, j) \/ task' = task
      BY <2>5 DEF JobEnds
    <3>2. task' # task
      BY <2>1
    <3> QED
      BY <2>3, <3>1, <3>2 DEF Awaits, Jobs, Helpers, CliJobs, Execs
  <2>6. ~Abandon
    BY NotAborted DEF Abandon
  <2> QED
    BY <2>4, <2>5, <2>6
<1> QED
  BY <1>1, <1>2, <1>3

-----------------------------------------------------------------------------
(* The lists of backups: what a step leaves as it is *)

\* A list next to a receipt that says nothing new about it.
LEMMA SoundStays ==
    ASSUME NEW list, NEW op, NEW ids, NEW more, NEW rc, NEW now, NEW p, NEW q,
           Sound(list, op, ids, rc, p), ids \subseteq more,
           now.state = "succeeded" /\ now.id \in q =>
              (now = rc /\ now.id \in p) \/ (op.state = "pending" /\ op.id = now.id)
    PROVE  Sound(list, op, more, now, q)
BY DEF Sound

\* The worker settles only what is marked.
LEMMA ListStays ==
    ASSUME Inv, [Next]_vars, NEW s \in Sites, NEW list, NEW op,
           Sound(list, op, issued, receipt[s], host[s].backups), issued \subseteq issued',
           Pending(s) => op.state = "pending" /\ op.id = receipt[s].id
    PROVE  Sound(list, op, issued', receipt'[s], host'[s].backups)
<1>1. receipt'[s].state = "succeeded" /\ receipt'[s].id \in host'[s].backups =>
         \/ receipt'[s] = receipt[s] /\ receipt'[s].id \in host[s].backups
         \/ op.state = "pending" /\ op.id = receipt'[s].id
  BY ReceiptChanges, NoneAdded DEF Pending
<1> QED
  BY <1>1, SoundStays

\* A record in sites.json.
LEMMA SiteListStays ==
    ASSUME PanelInv, SitesListed, [Next]_vars, issued \subseteq issued', NEW s \in Sites
    PROVE  /\ Known(s) => Sound(store[s].backups, store[s].op, issued', receipt'[s], host'[s].backups)
           /\ store[s] = Unborn => receipt'[s].state # "succeeded"
<1>1. Inv /\ (Pending(s) => Known(s) /\ store[s].op.state = "pending" /\ store[s].op.id = receipt[s].id)
  BY DEF PanelInv, Agreement, SiteAgrees, Busy
<1>2. Known(s) => Sound(store[s].backups, store[s].op, issued', receipt'[s], host'[s].backups)
  BY <1>1, ListStays DEF SitesListed
<1>3. store[s] = Unborn => receipt'[s].state # "succeeded"
  BY <1>1, ReceiptChanges DEF SitesListed, Known
<1> QED
  BY <1>2, <1>3

\* No record is replaced.
LEMMA SitesListKept ==
    ASSUME PanelInv, SitesListed, [Next]_vars, issued \subseteq issued', store' = store
    PROVE  SitesListed'
BY SiteListStays DEF SitesListed, Known

\* One is.
LEMMA SitesListSaved ==
    ASSUME PanelInv, SitesListed, [Next]_vars, issued \subseteq issued', NEW s \in Sites, NEW r,
           store' = [store EXCEPT ![s] = r], r # Unborn,
           r # Erased => Sound(r.backups, r.op, issued', receipt'[s], host'[s].backups)
    PROVE  SitesListed'
<1>1. store'[s] = r /\ \A t \in Sites \ {s} : store'[t] = store[t]
  BY DEF PanelInv, Agreement
<1>2. ASSUME NEW t \in Sites
      PROVE  /\ Known(t)' => Sound(store[t].backups, store[t].op, issued, receipt[t], host[t].backups)'
             /\ store'[t] = Unborn => receipt'[t].state # "succeeded"
  <2>1. CASE t = s
    BY <1>1, <2>1 DEF Known
  <2>2. CASE t # s
    BY <1>1, <2>2, SiteListStays DEF Known
  <2> QED
    BY <2>1, <2>2
<1> QED
  BY <1>2 DEF SitesListed

\* The copy of a handler that goes on.
LEMMA CopyMade ==
    ASSUME NEW act, NEW s, NEW mem, NEW from, NEW safety, NEW todo,
           handler' = [act |-> act, site |-> s, mem |-> mem, from |-> from,
                       safety |-> safety, todo |-> todo],
           Sound(mem.backups, mem.op, issued', receipt'[s], host'[s].backups),
           todo \in SecuredTodos => Secured(mem.backups, host'[s].backups),
           todo = <<"prune">> => store'[s].backups = mem.backups,
           todo = <<"discard", "save", "prune">> =>
              store'[s].backups = mem.backups /\ Prunable(mem.backups, from),
           mem.op.state = "pending" /\ call' = NoCall => mem.op.kind \notin {"update", "restore"}
    PROVE  CopyListed'
<1>1. /\ handler'.site = s /\ handler'.mem = mem /\ handler'.from = from /\ handler'.todo = todo
  OBVIOUS
<1> QED
  BY <1>1 DEF CopyListed

\* The marker of the copy of a site that is not settled.
LEMMA CopyPending ==
    ASSUME PanelInv, handler # NoHandler, Pending(handler.site)
    PROVE  /\ handler.mem.op.state = "pending" /\ handler.mem.op.id = receipt[handler.site].id
           /\ receipt[handler.site].kind = WorkerKind(handler.mem.op.kind)
           /\ \/ call # NoCall /\ call.path = "tracked"
              \/ handler.todo = <<"save">>
<1>1. handler.site \in Sites /\ SiteAgrees(handler.site) /\ Agreement
  BY HandlerFacts DEF PanelInv
<1>2. /\ Known(handler.site) /\ Busy(store[handler.site])
      /\ store[handler.site].op.id = receipt[handler.site].id
      /\ receipt[handler.site].kind = WorkerKind(store[handler.site].op.kind)
  BY <1>1 DEF SiteAgrees
<1>3. CASE call # NoCall /\ call.path = "tracked"
  <2>1. store[handler.site] = handler.mem
    BY <1>1, <1>3, TrackedCall
  <2> QED
    BY <1>2, <1>3, <2>1 DEF Busy
<1>4. CASE ~(call # NoCall /\ call.path = "tracked")
  <2>1. CopyAgrees(handler)
    BY <1>1, <1>4, CopyFacts
  <2> QED
    BY <1>2, <2>1 DEF CopyAgrees
<1> QED
  BY <1>3, <1>4

\* A handler with its safety backup waits for nothing that removes backups.
LEMMA SecuredStays ==
    ASSUME PanelInv, [PanelNext]_allVars, handler # NoHandler, handler.todo \in SecuredTodos
    PROVE  Grows(handler.site)
<1>1. Agreement /\ handler.site \in Sites /\ InOrder(handler.act, handler.todo)
  BY HandlerFacts DEF PanelInv
<1>2. Head(handler.todo) \in {"save", "update", "restore"}
  BY <1>1 DEF InOrder
<1>3. ~DeliverDiscard
  BY <1>1, <1>2 DEF DeliverDiscard, Sent, Agreement, CallSound
<1>4. ~(Pending(handler.site) /\ receipt[handler.site].kind = "delete")
  <2> SUFFICES ASSUME Pending(handler.site), receipt[handler.site].kind = "delete"
               PROVE  FALSE
    OBVIOUS
  <2>1. handler.mem.op.kind = "delete"
    BY CopyPending DEF WorkerKind
  <2>2. call # NoCall /\ call.path = "tracked"
    BY CopyPending DEF SecuredTodos
  <2>3. handler.mem.op.kind = Head(handler.todo)
    BY <1>1, <2>2, TrackedCall
  <2> QED
    BY <1>2, <2>1, <2>3
<1> QED
  BY <1>1, <1>3, <1>4, Loses

\* The copy of a handler that waits.
LEMMA CopyStays ==
    ASSUME PanelInv, ListInv, [PanelNext]_allVars, UNCHANGED <<store, handler, issued>>,
           call' = call \/ (call # NoCall /\ call' # NoCall /\ call'.phase # "sent")
    PROVE  CopyListed'
<1>1. CASE handler = NoHandler
  BY <1>1 DEF CopyListed
<1>2. CASE handler # NoHandler
  <2>1. PICK s \in Sites : s = handler.site
    BY <1>2, HandlerFacts DEF PanelInv
  <2>2. Inv /\ [Next]_vars
    BY PanelNextSound DEF PanelInv
  <2>3. Pending(s) => handler.mem.op.state = "pending" /\ handler.mem.op.id = receipt[s].id
    BY <1>2, <2>1, CopyPending
  <2>4. Sound(handler.mem.backups, handler.mem.op, issued', receipt'[s], host'[s].backups)
    BY <1>2, <2>1, <2>2, <2>3, ListStays DEF ListInv, CopyListed
  <2>5. handler.todo \in SecuredTodos => Secured(handler.mem.backups, host'[s].backups)
    BY <1>2, <2>1, SecuredStays DEF ListInv, CopyListed, Secured, Grows
  <2>6. store' = store /\ handler' = handler /\ issued' = issued
    OBVIOUS
  <2> QED
    BY <1>2, <2>1, <2>4, <2>5, <2>6 DEF ListInv, CopyListed
<1> QED
  BY <1>1, <1>2

\* The request under way, while the panel works.
LEMMA TaskStays ==
    ASSUME PanelInv, TaskListed, UNCHANGED vars,
           \A s \in Sites : Pending(s) /\ receipt[s].kind \in {"update", "restore"} =>
                               store'[s].backups = store[s].backups
    PROVE  TaskListed'
<1>1. task' = task /\ host' = host
  BY DEF vars
<1>2. CASE task # NoTask
  <2>1. /\ task.site \in Sites /\ Pending(task.site)
        /\ receipt[task.site] = [id |-> task.id, kind |-> task.kind, state |-> "pending"]
    BY <1>2, TaskPending DEF PanelInv
  <2>2. task.kind \in {"update", "restore"} => store'[task.site].backups = store[task.site].backups
    BY <2>1
  <2> QED
    BY <1>1, <2>2 DEF TaskListed, Here
<1> QED
  BY <1>1, <1>2 DEF TaskListed

\* An update or a restore is called the same on both sides.
LEMMA SameKind ==
    ASSUME NEW kind, WorkerKind(kind) \in {"update", "restore"}
    PROVE  kind = WorkerKind(kind)
BY DEF WorkerKind

\* A handler that is not about to end with a save, and has nothing at the worker.
LEMMA AtRest ==
    ASSUME PanelInv, handler # NoHandler, call = NoCall \/ call.path # "tracked",
           handler.todo # <<"save">>
    PROVE  ~Pending(handler.site) /\ handler.mem.op.state # "pending"
BY CopyFacts DEF CopyAgrees, PanelInv

\* The panel's own steps.
LEMMA PanelLists ==
    ASSUME PanelInv, ListInv, UNCHANGED vars, SitesListed', CopyListed', CallListed',
           \A s \in Sites : Pending(s) /\ receipt[s].kind \in {"update", "restore"} =>
                               store'[s].backups = store[s].backups
    PROVE  ListInv'
BY TaskStays DEF ListInv

\* A handler that is over.
LEMMA HandlerOverLists ==
    ASSUME PanelInv, ListInv, UNCHANGED <<vars, store>>, issued \subseteq issued',
           handler' = NoHandler, call' = NoCall
    PROVE  ListInv'
<1>1. SitesListed'
  BY SitesListKept DEF ListInv
<1>2. CopyListed' /\ CallListed'
  BY DEF CopyListed, CallListed
<1> QED
  BY <1>1, <1>2, PanelLists

\* A handler takes opsMu and reads the record.
LEMMA StartHandlerLists ==
    ASSUME PanelInv, ListInv, NEW s \in Sites, NEW act \in Actions, NEW from \in Ids \cup {"none"},
           StartHandler(s, act, from)
    PROVE  ListInv'
<1> DEFINE mem == Draft(act, store[s])
<1>1. /\ Agreement /\ OpsFree /\ SiteAgrees(s) /\ UNCHANGED <<vars, store, issued, call>>
      /\ UNCHANGED <<host, receipt>>
  BY DEF PanelInv, StartHandler, Agreement, vars
<1>2. call' = NoCall
  BY <1>1, IdleNoCall
<1>3. handler' = [act |-> act, site |-> s, mem |-> mem, from |-> from,
                  safety |-> "none", todo |-> Flow(act)]
  BY DEF StartHandler
<1>4. /\ Sound(mem.backups, mem.op, issued', receipt'[s], host'[s].backups)
      /\ mem.op.state # "pending"
  <2>1. CASE act = "create"
    <3>1. store[s] = Unborn /\ mem = NewSite
      BY <2>1 DEF StartHandler, Draft
    <3>2. receipt'[s].state # "succeeded"
      BY <1>1, <3>1 DEF ListInv, SitesListed
    <3>3. NewSite.backups = <<>> /\ NewSite.op = NoMarker /\ NoMarker.state = "none"
      BY DEF NewSite, NoMarker
    <3>4. Entries(<<>>) = {} /\ <<>> \in Seq(Backups)
      BY DEF Entries
    <3> HIDE DEF mem
    <3> QED
      BY <3>1, <3>2, <3>3, <3>4 DEF Sound
  <2>2. CASE act # "create"
    <3>1. Known(s) /\ ~Busy(store[s]) /\ IsRecord(store[s])
      BY <1>1, <2>2 DEF StartHandler, Permitted, SiteAgrees, Known
    <3>2. mem.op = store[s].op /\ mem.backups = store[s].backups
      BY <2>2, <3>1 DEF Draft, IsRecord
    <3> HIDE DEF mem
    <3>3. Sound(store[s].backups, store[s].op, issued', receipt'[s], host'[s].backups)
      BY <1>1, <3>1 DEF ListInv, SitesListed
    <3> QED
      BY <3>1, <3>2, <3>3 DEF Busy
  <2> QED
    BY <2>1, <2>2
<1> HIDE DEF mem
<1>5. Flow(act) \notin SecuredTodos \cup {<<"prune">>, <<"discard", "save", "prune">>}
  BY ActionsAssumption DEF Flow, SecuredTodos
<1>6. CopyListed'
  BY <1>3, <1>4, <1>5, CopyMade
<1>7. SitesListed' /\ CallListed'
  BY <1>1, <1>2, SitesListKept DEF ListInv, CallListed
<1> QED
  BY <1>1, <1>6, <1>7, PanelLists

\* store.Put.
LEMMA SaveLists ==
    ASSUME PanelInv, ListInv, Save
    PROVE  ListInv'
<1>1. /\ Agreement /\ handler # NoHandler /\ call = NoCall /\ Head(handler.todo) = "save"
      /\ UNCHANGED <<vars, issued, call>> /\ UNCHANGED <<host, receipt>>
  BY DEF PanelInv, Save, HandlerAt, vars
<1>2. PICK s \in Sites : s = handler.site
  BY <1>1, HandlerFacts
<1>3. CASE handler' = NoHandler /\ UNCHANGED store
  BY <1>1, <1>3, HandlerOverLists
<1>4. CASE store' = [store EXCEPT ![s] = handler.mem] /\ handler' = Done(handler)
  <2>1. IsRecord(handler.mem) /\ handler.mem \notin {Unborn, Erased} /\ InOrder(handler.act, handler.todo)
    BY <1>1, HandlerFacts, RecordKnown
  <2>2. Sound(handler.mem.backups, handler.mem.op, issued', receipt'[s], host'[s].backups)
    BY <1>1, <1>2 DEF ListInv, CopyListed
  <2>3. SitesListed'
    BY <1>1, <1>4, <2>1, <2>2, SitesListSaved DEF ListInv
  <2>4. store'[s] = handler.mem /\ \A t \in Sites \ {s} : store'[t] = store[t]
    BY <1>1, <1>4 DEF Agreement
  <2>5. CopyListed'
    <3>1. CASE Tail(handler.todo) = <<>>
      BY <1>4, <3>1 DEF Done, CopyListed
    <3>2. CASE Tail(handler.todo) # <<>>
      <4>1. handler' = [act |-> handler.act, site |-> s, mem |-> handler.mem,
                        from |-> handler.from, safety |-> handler.safety, todo |-> Tail(handler.todo)]
        BY <1>1, <1>4, <1>2, <3>2 DEF Done, Agreement, HandlerSound
      <4>2. /\ Tail(handler.todo) \in SecuredTodos => handler.todo \in SecuredTodos
            /\ Tail(handler.todo) # <<"discard", "save", "prune">>
            /\ handler.todo # <<"save">>
        BY <1>1, <2>1, <3>2 DEF InOrder
      <4>3. Tail(handler.todo) \in SecuredTodos => Secured(handler.mem.backups, host'[s].backups)
        BY <1>1, <1>2, <4>2 DEF ListInv, CopyListed
      <4>4. handler.mem.op.state # "pending"
        BY <1>1, <4>2, AtRest
      <4>5. store'[s].backups = handler.mem.backups
        BY <2>4
      <4> QED
        BY <2>2, <4>1, <4>2, <4>3, <4>4, <4>5, CopyMade
    <3> QED
      BY <3>1, <3>2
  <2>6. ASSUME NEW t \in Sites, Pending(t), receipt[t].kind \in {"update", "restore"}
        PROVE  store'[t].backups = store[t].backups
    <3>1. CASE t = s
      <4>1. /\ handler.mem.op.state = "pending" /\ receipt[s].kind = WorkerKind(handler.mem.op.kind)
        BY <1>1, <1>2, <2>6, <3>1, CopyPending
      <4>2. handler.mem.op.kind \in {"update", "restore"}
        BY <2>6, <3>1, <4>1, SameKind
      <4> QED
        BY <1>1, <4>1, <4>2 DEF ListInv, CopyListed
    <3>2. CASE t # s
      BY <2>4, <3>2
    <3> QED
      BY <3>1, <3>2
  <2> QED
    BY <1>1, <2>3, <2>5, <2>6, PanelLists DEF CallListed
<1> QED
  BY <1>2, <1>3, <1>4 DEF Save

\* store.Delete.
LEMMA EraseLists ==
    ASSUME PanelInv, ListInv, Erase
    PROVE  ListInv'
<1>1. /\ Agreement /\ handler # NoHandler /\ call = NoCall /\ UNCHANGED <<vars, issued, call>>
      /\ handler' = NoHandler /\ Head(handler.todo) = "erase"
  BY DEF PanelInv, Erase, HandlerAt
<1>2. PICK s \in Sites : s = handler.site
  BY <1>1, HandlerFacts
<1>3. CASE UNCHANGED store
  BY <1>1, <1>3, HandlerOverLists
<1>4. CASE store' = [store EXCEPT ![s] = Erased]
  <2>1. SitesListed'
    BY <1>1, <1>4, SitesListSaved DEF ListInv, Unborn, Erased
  <2>2. CopyListed' /\ CallListed'
    BY <1>1 DEF CopyListed, CallListed
  <2>3. \A t \in Sites \ {s} : store'[t] = store[t]
    BY <1>1, <1>4 DEF Agreement
  <2>4. handler.todo # <<"save">>
    BY <1>1, HandlerFacts DEF InOrder
  <2>5. ~Pending(s)
    BY <1>1, <1>2, <2>4, AtRest
  <2> QED
    BY <1>1, <2>1, <2>2, <2>3, <2>5, PanelLists
<1> QED
  BY <1>2, <1>3, <1>4 DEF Erase

\* After a failed call the copy keeps its list, and what it marks is no update and
\* no restore.
LEMMA FailingListed ==
    ASSUME NEW h, h = [act |-> h.act, site |-> h.site, mem |-> h.mem, from |-> h.from,
                       safety |-> h.safety, todo |-> h.todo],
           IsRecord(h.mem), h.mem.op.kind = Head(h.todo), h.todo \in Todos(h.act),
           Sound(h.mem.backups, h.mem.op, issued', receipt'[h.site], host'[h.site].backups),
           handler' = Failing(h)
    PROVE  CopyListed'
<1>1. CASE Failing(h) = NoHandler
  BY <1>1 DEF CopyListed
<1>2. CASE Failing(h) # NoHandler
  <2>1. PICK r : /\ IsRecord(r) /\ r.op = h.mem.op /\ r.backups = h.mem.backups
                 /\ Failing(h) = [act |-> h.act, site |-> h.site, mem |-> r, from |-> h.from,
                                  safety |-> h.safety, todo |-> <<"save">>]
    BY <1>2, FailingKeeps
  <2>2. h.act \in {"create", "retry", "start", "stop", "delete"}
    BY <1>2, FailingKeeps
  <2>3. h.mem.op.kind \notin {"update", "restore"}
    <3>1. InOrder(h.act, h.todo)
      BY HandlersInOrder
    <3>2. Head(h.todo) \in {"update", "restore"} => h.act \in {"update", "restore"}
      BY <3>1 DEF InOrder
    <3> QED
      BY <2>2, <3>2
  <2>4. <<"save">> \notin SecuredTodos \cup {<<"prune">>, <<"discard", "save", "prune">>}
    BY DEF SecuredTodos
  <2> QED
    BY <2>1, <2>3, <2>4, CopyMade
<1> QED
  BY <1>1, <1>2

\* A list next to a new marker.
LEMMA SoundMarked ==
    ASSUME NEW list, NEW op, NEW ids, NEW rc, NEW p, Sound(list, op, ids, rc, p),
           op.state # "pending", NEW id, id \notin ids, rc.id # id, NEW new, new.id = id
    PROVE  Sound(list, new, ids \cup {id}, rc, p)
BY DEF Sound

\* callTracked: the marker is a fresh one.
LEMMA CallTrackedLists ==
    ASSUME PanelInv, ListInv, NEW kind \in PanelKinds, NEW id \in Ids \ issued, CallTracked(kind, id)
    PROVE  ListInv'
<1>1. /\ Agreement /\ handler # NoHandler /\ call = NoCall /\ Head(handler.todo) = kind
      /\ UNCHANGED vars /\ UNCHANGED <<host, receipt>> /\ issued' = issued \cup {id}
  BY DEF PanelInv, CallTracked, HandlerAt, vars
<1>2. PICK s \in Sites : s = handler.site
  BY <1>1, HandlerFacts
<1>3. IsRecord(handler.mem) /\ InOrder(handler.act, handler.todo) /\ handler.todo \in Todos(handler.act)
  BY <1>1, <1>2, HandlerFacts
<1>4. handler.todo # <<"save">>
  BY <1>1, <1>3 DEF InOrder, PanelKinds, BackupKinds
<1>5. ~Pending(s) /\ handler.mem.op.state # "pending"
  BY <1>1, <1>2, <1>4, AtRest
<1>6. receipt[s].id # id
  BY <1>1, NoneAssumption DEF Agreement, SiteAgrees
<1> DEFINE op == [id |-> id, kind |-> kind, state |-> "pending"]
           r == [handler.mem EXCEPT !.op = op]
           safety == IF kind = "safety-backup" THEN id ELSE handler.safety
           h == [handler EXCEPT !.mem.op = op, !.safety = IF kind = "safety-backup" THEN id ELSE @]
<1>7. IsRecord(r) /\ r.op.id = id /\ r.op.kind = kind /\ r.backups = handler.mem.backups
  BY <1>3 DEF IsRecord, Markers
<1>8. h = [act |-> handler.act, site |-> s, mem |-> r, from |-> handler.from,
           safety |-> safety, todo |-> handler.todo]
  <2>1. handler = [act |-> handler.act, site |-> handler.site, mem |-> handler.mem,
                   from |-> handler.from, safety |-> handler.safety, todo |-> handler.todo]
    BY <1>1 DEF Agreement, HandlerSound
  <2>2. h = [handler EXCEPT !.mem = r, !.safety = safety]
    BY <2>1
  <2> HIDE DEF r, safety, op, h
  <2> QED
    BY <1>2, <2>1, <2>2
<1>9. \/ /\ store' = [store EXCEPT ![h.site] = h.mem] /\ handler' = h
         /\ call' = [path |-> "tracked", site |-> h.site, phase |-> "sent"]
      \/ handler' = Failing(h) /\ UNCHANGED <<store, call>>
  BY DEF CallTracked
<1> HIDE DEF h, r, op, safety
<1>10. /\ h.act = handler.act /\ h.site = s /\ h.mem = r /\ h.from = handler.from /\ h.safety = safety
       /\ h.todo = handler.todo
  BY <1>8
<1>11. Sound(r.backups, r.op, issued', receipt'[s], host'[s].backups)
  <2>1. Sound(handler.mem.backups, handler.mem.op, issued, receipt[s], host[s].backups)
    BY <1>1, <1>2 DEF ListInv, CopyListed
  <2>2. Sound(handler.mem.backups, r.op, issued \cup {id}, receipt[s], host[s].backups)
    BY <1>5, <1>6, <1>7, <2>1, SoundMarked
  <2> QED
    BY <1>1, <1>7, <2>2
<1>12. CASE /\ store' = [store EXCEPT ![s] = r] /\ handler' = h
            /\ call' = [path |-> "tracked", site |-> s, phase |-> "sent"]
  <2>1. r # Unborn
    BY <1>7, RecordKnown
  <2>2. SitesListed'
    BY <1>1, <1>11, <1>12, <2>1, SitesListSaved DEF ListInv
  <2>3. store'[s] = r /\ \A t \in Sites \ {s} : store'[t] = store[t]
    BY <1>1, <1>12 DEF Agreement
  <2>4. /\ handler.todo \in SecuredTodos => Secured(r.backups, host'[s].backups)
        /\ handler.todo = <<"discard", "save", "prune">> => Prunable(r.backups, handler.from)
    BY <1>1, <1>2, <1>7 DEF ListInv, CopyListed
  <2>5. call' # NoCall /\ call'.phase = "sent"
    BY <1>12 DEF NoCall
  <2>6. CopyListed'
    BY <1>8, <1>11, <1>12, <2>3, <2>4, <2>5, CopyMade
  <2>7. CallListed'
    BY <2>5 DEF CallListed
  <2> QED
    BY <1>1, <1>5, <2>2, <2>3, <2>6, <2>7, PanelLists
<1>13. CASE handler' = Failing(h) /\ UNCHANGED <<store, call>>
  <2>1. CopyListed'
    BY <1>1, <1>3, <1>7, <1>8, <1>10, <1>11, <1>13, FailingListed
  <2>2. SitesListed' /\ CallListed'
    BY <1>1, <1>13, SitesListKept DEF ListInv, CallListed
  <2> QED
    BY <1>1, <1>13, <2>1, <2>2, PanelLists
<1> QED
  BY <1>9, <1>10, <1>12, <1>13

\* The list of a confirmed operation.
LEMMA ConfirmedList ==
    ASSUME NEW kind \in PanelKinds, NEW r, IsRecord(r)
    PROVE  Confirmed(kind, r).backups =
              IF kind \in BackupKinds
              THEN Append(r.backups, [id |-> r.op.id, source |-> Source(kind)])
              ELSE r.backups
<1> DEFINE d == [r EXCEPT !.op.state = "succeeded"]
           op == [r.op EXCEPT !.state = "succeeded"]
<1>1. d = [status |-> r.status, op |-> op, backups |-> r.backups, health |-> r.health]
  BY DEF IsRecord
<1> HIDE DEF op
<1>2. CASE kind \in {"create", "start", "restore"}
  BY <1>1, <1>2 DEF Confirmed, BackupKinds
<1>3. CASE kind \in {"stop", "restore-prepare"}
  BY <1>1, <1>3 DEF Confirmed, BackupKinds
<1>4. CASE kind \in BackupKinds
  BY <1>1, <1>4 DEF Confirmed, BackupKinds
<1>5. CASE kind \in {"resources", "delete", "update"}
  BY <1>1, <1>5 DEF Confirmed, BackupKinds
<1> QED
  BY <1>2, <1>3, <1>4, <1>5 DEF PanelKinds

\* It is sound next to the receipt that confirms the operation, and ends with the
\* safety backup if the operation was one.
LEMMA ConfirmedSound ==
    ASSUME NEW list, NEW op, NEW new, NEW ids, NEW p, NEW kind \in PanelKinds, NEW now,
           Sound(list, op, ids, SucceededReceipt(op), p), op.kind = kind, op.id \in Ids, op.id \in ids,
           new.id = op.id, new.kind = op.kind, new.state = "succeeded",
           kind \in BackupKinds => now = Append(list, [id |-> op.id, source |-> Source(kind)]),
           kind \notin BackupKinds => now = list
    PROVE  /\ Sound(now, new, ids, SucceededReceipt(op), p)
           /\ kind = "safety-backup" /\ op.id \in p => Secured(now, p)
<1>1. CASE kind \in BackupKinds
  <2> DEFINE b == [id |-> op.id, source |-> Source(kind)]
  <2>1. b \in Backups /\ b.id = op.id /\ b.source = Source(kind)
    BY DEF Backups, Source
  <2>2. now = Append(list, b) /\ list \in Seq(Backups)
    BY <1>1 DEF Sound
  <2>3. b = [id |-> op.id, source |-> Source(new.kind)]
    OBVIOUS
  <2> HIDE DEF b
  <2>4. /\ now \in Seq(Backups) /\ now # <<>> /\ Entries(now) = Entries(list) \cup {b}
        /\ now[Len(now)] = b
    BY <2>1, <2>2, EntriesAppend
  <2>5. SucceededReceipt(op).id = op.id
    BY DEF SucceededReceipt
  <2>6. Sound(now, new, ids, SucceededReceipt(op), p)
    BY <2>1, <2>3, <2>4, <2>5 DEF Sound
  <2>7. kind = "safety-backup" /\ op.id \in p => Secured(now, p)
    BY <2>1, <2>4 DEF Secured, Source
  <2> QED
    BY <2>6, <2>7
<1>2. CASE kind \notin BackupKinds
  <2>1. SucceededReceipt(op).kind # "backup"
    BY <1>2 DEF SucceededReceipt, WorkerKind, PanelKinds
  <2> QED
    BY <1>2, <2>1 DEF Sound, BackupKinds
<1> QED
  BY <1>1, <1>2

\* The answer to a tracked call, or the lack of one.
LEMMA AnsweredLists ==
    ASSUME PanelInv, ListInv, Answered
    PROVE  ListInv'
<1>1. /\ Agreement /\ handler # NoHandler /\ call # NoCall /\ call.path = "tracked"
      /\ UNCHANGED <<vars, store, issued>> /\ UNCHANGED <<host, receipt>> /\ call' = NoCall
  BY DEF PanelInv, Answered, vars
<1>2. PICK s \in Sites : s = handler.site
  BY <1>1, HandlerFacts
<1>3. /\ IsRecord(handler.mem) /\ InOrder(handler.act, handler.todo)
      /\ handler.todo \in Todos(handler.act)
      /\ handler.mem.op.state = "pending" /\ handler.mem.op.kind = Head(handler.todo)
      /\ Head(handler.todo) \in PanelKinds /\ call.site = s
      /\ handler.mem.op.id \in Ids /\ handler.mem.op.id \in issued \cup {"none"}
  BY <1>1, <1>2, HandlerFacts, TrackedCall
<1>4. handler = [act |-> handler.act, site |-> handler.site, mem |-> handler.mem,
                 from |-> handler.from, safety |-> handler.safety, todo |-> handler.todo]
  BY <1>1 DEF Agreement, HandlerSound
<1>5. SitesListed' /\ CallListed'
  BY <1>1, SitesListKept DEF ListInv, CallListed
<1>6. Sound(handler.mem.backups, handler.mem.op, issued, receipt[s], host[s].backups)
  BY <1>1, <1>2 DEF ListInv, CopyListed
<1>7. CASE call.phase = "ok" /\ handler' = Done([handler EXCEPT !.mem = Confirmed(Head(handler.todo), @)])
  <2> DEFINE kind == Head(handler.todo)
             r == Confirmed(kind, handler.mem)
             h == [handler EXCEPT !.mem = Confirmed(Head(handler.todo), @)]
  <2>1. /\ r.op.id = handler.mem.op.id /\ r.op.kind = handler.mem.op.kind
        /\ r.op.state = "succeeded"
    <3>1. \A k : /\ Confirmed(k, handler.mem).op.id = handler.mem.op.id
                 /\ Confirmed(k, handler.mem).op.kind = handler.mem.op.kind
                 /\ Confirmed(k, handler.mem).op.state = "succeeded"
      BY <1>3, ConfirmedFacts
    <3> QED
      BY <3>1, Zenon
  <2>2. r.backups = IF kind \in BackupKinds
                    THEN Append(handler.mem.backups, [id |-> handler.mem.op.id, source |-> Source(kind)])
                    ELSE handler.mem.backups
    <3>1. \A k \in PanelKinds : Confirmed(k, handler.mem).backups =
                    IF k \in BackupKinds
                    THEN Append(handler.mem.backups, [id |-> handler.mem.op.id, source |-> Source(k)])
                    ELSE handler.mem.backups
      BY <1>3, ConfirmedList
    <3> QED
      BY <1>3, <3>1, Zenon
  <2>3. receipt[s] = SucceededReceipt(handler.mem.op)
    BY <1>1, <1>3, <1>7 DEF Agreement, CallSound
  <2>4. h = [handler EXCEPT !.mem = r] /\ handler' = Done(h)
    BY <1>7
  <2>5. /\ kind \in PanelKinds /\ handler.mem.op.kind = kind /\ handler.mem.op.id \in issued
        /\ kind = Head(handler.todo)
    BY <1>3, NoneAssumption
  <2> HIDE DEF r, h, kind
  <2>6. Sound(handler.mem.backups, handler.mem.op, issued, SucceededReceipt(handler.mem.op), host[s].backups)
    BY <1>6, <2>3
  <2>7. /\ Sound(r.backups, r.op, issued, SucceededReceipt(handler.mem.op), host[s].backups)
        /\ kind = "safety-backup" /\ handler.mem.op.id \in host[s].backups =>
              Secured(r.backups, host[s].backups)
    <3>1. PICK list, op, new, now, p : /\ list = handler.mem.backups /\ op = handler.mem.op
                                       /\ new = r.op /\ now = r.backups /\ p = host[s].backups
      OBVIOUS
    <3>2. /\ kind \in BackupKinds => now = Append(list, [id |-> op.id, source |-> Source(kind)])
          /\ kind \notin BackupKinds => now = list
      BY <2>2, <3>1
    <3>3. /\ Sound(list, op, issued, SucceededReceipt(op), p) /\ op.kind = kind /\ op.id \in Ids
          /\ op.id \in issued /\ new.id = op.id /\ new.kind = op.kind /\ new.state = "succeeded"
      BY <1>3, <2>1, <2>5, <2>6, <3>1
    <3>4. /\ Sound(now, new, issued, SucceededReceipt(op), p)
          /\ kind = "safety-backup" /\ op.id \in p => Secured(now, p)
      BY <2>5, <3>2, <3>3, ConfirmedSound
    <3> QED
      BY <3>1, <3>4
  <2>8. h = [act |-> handler.act, site |-> s, mem |-> r, from |-> handler.from,
             safety |-> handler.safety, todo |-> handler.todo]
    BY <1>2, <1>4, <2>4
  <2>9. CASE Tail(handler.todo) = <<>>
    BY <1>1, <1>5, <2>4, <2>8, <2>9, HandlerOverLists DEF Done
  <2>10. CASE Tail(handler.todo) # <<>>
    <3>1. handler' = [act |-> handler.act, site |-> s, mem |-> r, from |-> handler.from,
                      safety |-> handler.safety, todo |-> Tail(handler.todo)]
      <4>1. h.todo = handler.todo
        BY <2>8
      <4>2. handler' = [h EXCEPT !.todo = Tail(handler.todo)]
        BY <2>4, <2>10, <4>1 DEF Done
      <4> QED
        BY <2>8, <4>2
    <3>2. /\ Tail(handler.todo) # <<"discard", "save", "prune">>
          /\ Tail(handler.todo) # <<"prune">>
          /\ Tail(handler.todo) \in SecuredTodos =>
                handler.todo \in SecuredTodos \/ kind = "safety-backup"
          /\ handler.todo \in SecuredTodos => kind \notin BackupKinds
      BY <1>3, <2>5 DEF InOrder, PanelKinds, BackupKinds
    <3>3. kind = "safety-backup" => handler.mem.op.id \in host[s].backups
      BY <1>1, <1>3, <1>7, <2>5 DEF ListInv, CallListed, BackupKinds
    <3>4. handler.todo \in SecuredTodos => Secured(r.backups, host[s].backups)
      BY <1>1, <1>2, <2>2, <3>2 DEF ListInv, CopyListed
    <3>5. Tail(handler.todo) \in SecuredTodos => Secured(r.backups, host'[s].backups)
      BY <1>1, <2>7, <3>2, <3>3, <3>4
    <3>6. Sound(r.backups, r.op, issued', receipt'[s], host'[s].backups)
      BY <1>1, <2>3, <2>7
    <3>7. CopyListed'
      BY <2>1, <3>1, <3>2, <3>5, <3>6, CopyMade
    <3> QED
      BY <1>1, <1>5, <3>7, PanelLists
  <2> QED
    BY <2>9, <2>10
<1>8. CASE handler' = Failing(handler)
  <2>1. CopyListed'
    BY <1>1, <1>2, <1>3, <1>4, <1>6, <1>8, FailingListed
  <2> QED
    BY <1>1, <1>5, <2>1, PanelLists
<1> QED
  BY <1>7, <1>8 DEF Answered

\* The handler asks for a backup to be removed.
LEMMA DiscardLists ==
    ASSUME PanelInv, ListInv, Discard
    PROVE  ListInv'
<1>1. /\ Agreement /\ handler # NoHandler /\ call = NoCall /\ Head(handler.todo) = "discard"
      /\ UNCHANGED <<vars, store, issued, handler>> /\ UNCHANGED <<host, receipt>>
      /\ call' = [path |-> "discard", site |-> handler.site, phase |-> "sent"]
  BY DEF PanelInv, Discard, HandlerAt, vars
<1>2. call' # NoCall /\ call'.phase = "sent"
  BY <1>1 DEF NoCall
<1>3. SitesListed' /\ CallListed'
  BY <1>1, <1>2, SitesListKept DEF ListInv, CallListed
<1>4. CopyListed'
  BY <1>1, <1>2 DEF ListInv, CopyListed
<1> QED
  BY <1>1, <1>3, <1>4, PanelLists

\* The backup is gone, and leaves the list.
LEMMA DiscardedLists ==
    ASSUME PanelInv, ListInv, Discarded
    PROVE  ListInv'
<1>1. /\ Agreement /\ handler # NoHandler /\ call # NoCall /\ call.path = "discard"
      /\ UNCHANGED <<vars, store, issued>> /\ UNCHANGED <<host, receipt>> /\ call' = NoCall
  BY DEF PanelInv, Discarded, vars
<1>2. PICK s \in Sites : s = handler.site /\ s = call.site
  BY <1>1, HandlerFacts DEF Agreement, CallSound
<1>3. IsRecord(handler.mem) /\ InOrder(handler.act, handler.todo) /\ Head(handler.todo) = "discard"
  BY <1>1, <1>2, HandlerFacts DEF Agreement, CallSound
<1>4. handler = [act |-> handler.act, site |-> handler.site, mem |-> handler.mem,
                 from |-> handler.from, safety |-> handler.safety, todo |-> handler.todo]
  BY <1>1 DEF Agreement, HandlerSound
<1>5. SitesListed' /\ CallListed'
  BY <1>1, SitesListKept DEF ListInv, CallListed
<1>6. CASE handler' = NoHandler
  BY <1>1, <1>6, HandlerOverLists
<1>7. CASE /\ call.phase = "ok"
           /\ handler' = Done([handler EXCEPT !.mem.backups = Without(@, handler.from)])
  <2> DEFINE bs == Without(handler.mem.backups, handler.from)
             r == [handler.mem EXCEPT !.backups = bs]
             h == [handler EXCEPT !.mem.backups = Without(@, handler.from)]
  <2>1. handler' = Done(h)
    BY <1>7
  <2>2. h = [handler EXCEPT !.mem = r]
    BY <1>4
  <2>3. PICK list, keep : /\ list = handler.mem.backups /\ keep = {b \in Backups : b.id # handler.from}
                          /\ bs = Among(list, keep)
    BY DEF Without
  <2> HIDE DEF bs, h
  <2>4. r.op = handler.mem.op /\ r.backups = bs
    BY <1>3 DEF IsRecord
  <2> HIDE DEF r
  <2>5. h = [act |-> handler.act, site |-> s, mem |-> r, from |-> handler.from,
             safety |-> handler.safety, todo |-> handler.todo]
    BY <1>2, <1>4, <2>2
  <2>6. handler.mem.op.state # "pending"
    <3>1. handler.todo # <<"save">>
      BY <1>3 DEF InOrder
    <3> QED
      BY <1>1, <3>1, AtRest
  <2>7. Sound(bs, handler.mem.op, issued', receipt'[s], host'[s].backups)
    <3>1. Sound(list, handler.mem.op, issued, receipt[s], host[s].backups)
      BY <1>1, <1>2, <2>3 DEF ListInv, CopyListed
    <3>2. list \in Seq(Backups) /\ \A b \in Entries(list) : b \in Backups
      BY <3>1 DEF Sound, Entries
    <3>3. bs \in Seq(Backups) /\ Entries(bs) = Entries(list) \cap keep
      BY <2>3, <3>2, AmongEntries
    <3>4. handler.from \notin host[s].backups
      BY <1>1, <1>2, <1>7 DEF ListInv, CallListed
    <3>5. \A b \in Entries(list) : b.id \in host[s].backups => b \in Entries(bs)
      BY <2>3, <3>2, <3>3, <3>4
    <3>6. ASSUME NEW rc, NEW src, rc.id \in host[s].backups
          PROVE  [id |-> rc.id, source |-> src] \in Entries(list) =>
                    [id |-> rc.id, source |-> src] \in Entries(bs)
      BY <3>5, <3>6
    <3>7. Sound(bs, handler.mem.op, issued, receipt[s], host[s].backups)
      BY <2>6, <3>1, <3>3, <3>5, <3>6 DEF Sound
    <3> QED
      BY <1>1, <3>7
  <2>8. CASE Tail(handler.todo) = <<>>
    BY <1>1, <2>1, <2>5, <2>8, HandlerOverLists DEF Done
  <2>9. CASE Tail(handler.todo) # <<>>
    <3>1. handler' = [act |-> handler.act, site |-> s, mem |-> r, from |-> handler.from,
                      safety |-> handler.safety, todo |-> Tail(handler.todo)]
      BY <2>1, <2>5, <2>9 DEF Done
    <3>2. Tail(handler.todo) \notin SecuredTodos \cup {<<"prune">>, <<"discard", "save", "prune">>}
      BY <1>3 DEF InOrder
    <3>3. CopyListed'
      BY <2>4, <2>6, <2>7, <3>1, <3>2, CopyMade
    <3> QED
      BY <1>1, <1>5, <3>3, PanelLists
  <2> QED
    BY <2>8, <2>9
<1> QED
  BY <1>6, <1>7 DEF Discarded

\* What is pruned next is a scheduled backup that is listed.
LEMMA PruneLists ==
    ASSUME PanelInv, ListInv, Prune
    PROVE  ListInv'
<1>1. /\ Agreement /\ handler # NoHandler /\ call = NoCall /\ call' = NoCall
      /\ UNCHANGED <<vars, store, issued>> /\ UNCHANGED <<host, receipt>> /\ Head(handler.todo) = "prune"
  BY DEF PanelInv, Prune, HandlerAt, vars
<1>2. CASE handler' = NoHandler
  BY <1>1, <1>2, HandlerOverLists
<1>3. CASE handler' # NoHandler
  <2> DEFINE old == Scheduled(handler.mem)
  <2>1. /\ handler' = [handler EXCEPT !.from = old[1].id, !.todo = <<"discard", "save", "prune">>]
        /\ ~(Len(old) <= Retention)
    BY <1>3 DEF Prune
  <2>2. PICK list, chosen : /\ list = handler.mem.backups
                            /\ chosen = {b \in Backups : b.source = "scheduled"}
                            /\ old = Among(list, chosen)
    BY DEF Scheduled
  <2> HIDE DEF old
  <2>3. PICK s \in Sites : s = handler.site
    BY <1>1, HandlerFacts
  <2>4. handler' = [act |-> handler.act, site |-> s, mem |-> handler.mem, from |-> old[1].id,
                    safety |-> handler.safety, todo |-> <<"discard", "save", "prune">>]
    BY <1>1, <2>1, <2>3 DEF Agreement, HandlerSound
  <2>5. handler.act = "scheduled" /\ handler.todo \in Todos(handler.act)
        /\ InOrder(handler.act, handler.todo)
    BY <1>1, HandlerFacts DEF InOrder
  <2>6. handler.todo = <<"prune">>
    BY <1>1, <2>5 DEF Todos
  <2>7. Sound(list, handler.mem.op, issued', receipt'[s], host'[s].backups)
    BY <1>1, <2>2, <2>3 DEF ListInv, CopyListed
  <2>8. store'[s].backups = handler.mem.backups
    BY <1>1, <2>3, <2>6 DEF ListInv, CopyListed
  <2>9. Prunable(handler.mem.backups, old[1].id)
    <3>1. old \in Seq(Backups) /\ Entries(old) = Entries(list) \cap chosen
      BY <2>2, <2>7, AmongEntries DEF Sound
    <3>2. Len(old) \in Nat /\ Len(old) > Retention /\ Retention \in Nat /\ Retention >= 1
      BY <2>1, <3>1, RetentionAssumption
    <3>3. 1 \in DOMAIN old
      BY <3>1, <3>2
    <3>4. old[1] \in Entries(list) /\ old[1] \in Backups /\ old[1].source = "scheduled"
      BY <2>2, <3>1, <3>3 DEF Entries
    <3>5. old[1] = [id |-> old[1].id, source |-> "scheduled"]
      BY <3>4 DEF Backups
    <3> QED
      BY <2>2, <3>2, <3>4, <3>5 DEF Prunable
  <2>10. handler.mem.op.state # "pending"
    BY <1>1, <2>6, AtRest
  <2>11. <<"discard", "save", "prune">> \notin SecuredTodos
    BY DEF SecuredTodos
  <2>12. CopyListed'
    BY <2>2, <2>4, <2>7, <2>8, <2>9, <2>10, <2>11, CopyMade
  <2>13. SitesListed' /\ CallListed'
    BY <1>1, SitesListKept DEF ListInv, CallListed
  <2> QED
    BY <1>1, <2>12, <2>13, PanelLists
<1> QED
  BY <1>2, <1>3

\* A sweep begins, asks for something, or the panel is started again.
LEMMA QuietLists ==
    ASSUME PanelInv, ListInv, StartSweep \/ (\E s \in Sites : Probe(s)) \/ PanelRestart
    PROVE  ListInv'
<1>1. UNCHANGED <<vars, store, issued>> /\ handler' = NoHandler
  BY DEF StartSweep, Probe, PanelRestart, OpsFree, PanelInv, Agreement, SweepSound
<1>2. CallListed'
  <2>1. CASE StartSweep
    <3>1. call' = NoCall
      BY <2>1, IdleNoCall DEF StartSweep, PanelInv
    <3> QED
      BY <3>1 DEF CallListed
  <2>2. CASE \E s \in Sites : Probe(s)
    <3>1. call'.phase = "sent"
      BY <2>2 DEF Probe
    <3> QED
      BY <3>1 DEF CallListed
  <2>3. CASE PanelRestart
    BY <2>3 DEF PanelRestart, CallListed
  <2> QED
    BY <2>1, <2>2, <2>3
<1>3. SitesListed' /\ CopyListed'
  BY <1>1, SitesListKept DEF ListInv, CopyListed
<1> QED
  BY <1>1, <1>2, <1>3, PanelLists

\* The list reconcileRuntime writes: a backup whose answer was lost is on it.
LEMMA ReconciledList ==
    ASSUME NEW r, NEW answer, NEW ids, NEW p, IsRecord(r),
           Sound(r.backups, r.op, ids, answer.op, p), r.op.id \in ids \cup {"none"},
           answer.op \in Receipts \cup {NoReceipt}, answer.op.state # "pending",
           Busy(r) /\ answer.op.id = r.op.id => answer.op.kind = WorkerKind(r.op.kind),
           Reconciled(r, answer) # Erased
    PROVE  Sound(Reconciled(r, answer).backups, Reconciled(r, answer).op, ids, answer.op, p)
<1> DEFINE op == IF Busy(r) THEN Resolved(r.op, answer.op) ELSE r.op
           status == CASE Busy(r) /\ op.kind = "create" -> "failed"
                       [] Busy(r) /\ op.kind # "create" -> answer.status
                       [] ~Busy(r) /\ r.status = "creating" -> "failed"
                       [] ~Busy(r) /\ r.status = "deleting" -> "unhealthy"
                       [] ~Busy(r) /\ r.status = "failed" -> "failed"
                       [] OTHER -> answer.status
           bs == IF Busy(r) THEN Recovered(r, answer.op) ELSE r.backups
<1>1. Reconciled(r, answer) = [status |-> status, op |-> op, health |-> FALSE, backups |-> bs]
  BY DEF Reconciled
<1>2. CASE ~Busy(r)
  <2>1. op = r.op /\ bs = r.backups
    BY <1>2
  <2> HIDE DEF op, status, bs
  <2>2. Reconciled(r, answer).op = op /\ Reconciled(r, answer).backups = bs
    BY <1>1
  <2> QED
    BY <2>1, <2>2
<1>3. CASE Busy(r)
  <2>1. op = Resolved(r.op, answer.op) /\ bs = Recovered(r, answer.op)
    BY <1>3
  <2> HIDE DEF op, status, bs
  <2>2. Reconciled(r, answer).op = op /\ Reconciled(r, answer).backups = bs
    BY <1>1
  <2>3. r.op \in Markers /\ r.op.state = "pending"
    BY <1>3 DEF Busy, IsRecord, NoMarker
  <2>4. op.id = r.op.id /\ op.kind = r.op.kind /\ op.state # "pending"
    BY <1>3, <2>1, <2>3, ResolvedFacts
  <2>5. PICK rc, list : rc = answer.op /\ list = r.backups
    OBVIOUS
  <2>6. Sound(list, r.op, ids, rc, p) /\ list \in Seq(Backups)
    BY <2>5 DEF Sound
  <2>7. CASE rc.id = r.op.id /\ rc.kind = "backup" /\ rc.state = "succeeded"
    <3>1. rc.id \notin Listed(r)
      BY <2>3, <2>5, <2>6, <2>7 DEF Sound, Entries, Listed
    <3> DEFINE b == [id |-> rc.id, source |-> Source(r.op.kind)]
    <3>2. bs = Append(list, b)
      BY <2>1, <2>5, <2>7, <3>1 DEF Recovered
    <3>3. b \in Backups /\ b.id = rc.id /\ b.id \in ids
      BY <2>3, <2>7, NoneAssumption DEF Backups, Source, Markers
    <3>4. b = [id |-> rc.id, source |-> Source(op.kind)]
      BY <2>4
    <3> HIDE DEF b
    <3>5. bs \in Seq(Backups) /\ Entries(bs) = Entries(list) \cup {b}
      BY <2>6, <3>2, <3>3, EntriesAppend
    <3>6. Sound(bs, op, ids, rc, p)
      BY <2>4, <2>6, <3>3, <3>4, <3>5 DEF Sound
    <3> QED
      BY <2>2, <2>5, <3>6
  <2>8. CASE ~(rc.id = r.op.id /\ rc.kind = "backup" /\ rc.state = "succeeded")
    <3>1. bs = list
      BY <2>1, <2>5, <2>8 DEF Recovered
    <3>2. Sound(bs, op, ids, rc, p)
      BY <2>4, <2>6, <2>8, <3>1 DEF Sound
    <3> QED
      BY <2>2, <2>5, <3>2
  <2> QED
    BY <2>7, <2>8
<1> QED
  BY <1>2, <1>3

\* The answer of /runtime is applied to the record.
LEMMA ReconcileLists ==
    ASSUME PanelInv, ListInv, Reconcile
    PROVE  ListInv'
<1>1. /\ Agreement /\ sweep # {} /\ call # NoCall /\ UNCHANGED <<vars, issued, handler>>
      /\ UNCHANGED <<receipt, host>> /\ call' = NoCall
  BY DEF PanelInv, Reconcile, vars
<1>2. PICK s \in Sites : s = call.site
  BY <1>1, SweepFacts
<1>3. /\ handler = NoHandler /\ call.path = "runtime" /\ Known(s) /\ SiteAgrees(s)
      /\ IsRecord(store[s]) /\ store[s].op.id \in issued \cup {"none"}
  BY <1>1, <1>2, SweepFacts
<1>4. CopyListed' /\ CallListed'
  BY <1>1, <1>3 DEF CopyListed, CallListed
<1>5. CASE UNCHANGED store
  BY <1>1, <1>3, <1>5, HandlerOverLists
<1>6. Sound(store[s].backups, store[s].op, issued, receipt[s], host[s].backups)
  BY <1>3 DEF ListInv, SitesListed
<1>7. ASSUME NEW r, store' = [store EXCEPT ![s] = r], r # Unborn,
             r # Erased => Sound(r.backups, r.op, issued, receipt[s], host[s].backups),
             Pending(s) => r.backups = store[s].backups
      PROVE  ListInv'
  <2>1. SitesListed'
    BY <1>1, <1>7, SitesListSaved DEF ListInv
  <2>2. store'[s] = r /\ \A t \in Sites \ {s} : store'[t] = store[t]
    BY <1>1, <1>7 DEF Agreement
  <2> QED
    BY <1>1, <1>4, <1>7, <2>1, <2>2, PanelLists
<1>8. CASE call.phase = "ok" /\ store' = [store EXCEPT ![s] = Reconciled(store[s], call.answer)]
  <2>1. /\ call.answer.op = receipt[s] /\ ~Pending(s)
        /\ call.answer.status \in {"running", "stopped", "unhealthy"}
    BY <1>1, <1>2, <1>3, <1>8 DEF Agreement, CallSound
  <2>2. /\ receipt[s].state # "pending" /\ receipt[s] \in Receipts \cup {NoReceipt}
        /\ Busy(store[s]) /\ receipt[s].id = store[s].op.id => receipt[s].kind = WorkerKind(store[s].op.kind)
        /\ store[s].op.state = "succeeded" => receipt[s] = SucceededReceipt(store[s].op)
    BY <1>3, <2>1 DEF SiteAgrees, Pending, PanelInv, Inv, TypeOK
  <2>3. PICK r, old, answer : /\ r = Reconciled(old, answer) /\ old = store[s] /\ answer = call.answer
    OBVIOUS
  <2>4. r # Erased => Sound(r.backups, r.op, issued, receipt[s], host[s].backups)
    BY <1>3, <1>6, <2>1, <2>2, <2>3, ReconciledList
  <2>5. r # Unborn
    <3>1. r = Erased \/ IsRecord(r)
      BY <1>3, <2>1, <2>2, <2>3, ReconciledFacts
    <3> QED
      BY <3>1, RecordKnown DEF Erased, Unborn
  <2> QED
    BY <1>7, <1>8, <2>1, <2>3, <2>4, <2>5
<1>9. CASE store' = [store EXCEPT ![s] = [store[s] EXCEPT !.health = TRUE]]
  <2>1. PICK r : r = [store[s] EXCEPT !.health = TRUE]
    OBVIOUS
  <2>2. IsRecord(r) /\ r.op = store[s].op /\ r.backups = store[s].backups
    BY <1>3, <2>1 DEF IsRecord
  <2>3. r # Unborn
    BY <2>2, RecordKnown
  <2> QED
    BY <1>6, <1>7, <1>9, <2>1, <2>2, <2>3
<1> QED
  BY <1>2, <1>5, <1>8, <1>9 DEF Reconcile

-----------------------------------------------------------------------------
(* The lists of backups: steps of the worker *)

\* A step of the worker or of the network, while the panel waits or is idle.
LEMMA WorkerLists ==
    ASSUME PanelInv, ListInv, [PanelNext]_allVars, UNCHANGED <<store, handler, issued>>,
           call' = call \/ (call # NoCall /\ call' # NoCall /\ call'.phase # "sent"),
           CallListed', TaskListed'
    PROVE  ListInv'
<1>1. SitesListed'
  BY PanelNextSound, SitesListKept DEF ListInv
<1>2. CopyListed'
  BY CopyStays
<1> QED
  BY <1>1, <1>2 DEF ListInv

\* The call is as it was.
LEMMA CallListStays ==
    ASSUME PanelInv, ListInv, [PanelNext]_allVars, UNCHANGED <<handler, call>>
    PROVE  CallListed'
<1>1. CASE call = NoCall \/ call.phase # "ok"
  BY <1>1 DEF CallListed
<1>2. CASE call # NoCall /\ call.phase = "ok"
  <2>1. Agreement /\ Inv /\ [Next]_vars
    BY PanelNextSound DEF PanelInv
  <2>2. PICK s \in Sites : s = call.site
    BY <1>2, <2>1 DEF Agreement, CallSound, Calls, RuntimeReplies
  <2>3. CASE call.path = "tracked"
    <3>1. ~Pending(s)
      BY <1>2, <2>1, <2>2, <2>3 DEF Agreement, CallSound, SucceededReceipt, Pending
    <3>2. Grows(s)
      BY <1>2, <2>2, <3>1, Loses DEF DeliverDiscard, Sent
    <3> QED
      BY <1>2, <2>2, <2>3, <3>2 DEF ListInv, CallListed, Grows
  <2>4. CASE call.path = "discard"
    <3>1. handler # NoHandler /\ s = handler.site /\ Head(handler.todo) = "discard"
      BY <1>2, <2>1, <2>2, <2>4 DEF Agreement, CallSound
    <3>2. handler.todo # <<"save">>
      BY <2>1, <3>1, HandlerFacts DEF InOrder
    <3>3. ~Pending(s)
      BY <2>4, <3>1, <3>2, AtRest
    <3>4. host'[s].backups \subseteq host[s].backups
      BY <2>1, <3>3, NoneAdded
    <3> QED
      BY <1>2, <2>2, <2>4, <3>4 DEF ListInv, CallListed
  <2>5. CASE call.path = "runtime"
    BY <2>5 DEF CallListed
  <2>6. call.path \in {"tracked", "discard", "runtime"}
    BY <1>2, <2>1 DEF Agreement, CallSound, Calls, RuntimeReplies
  <2> QED
    BY <2>3, <2>4, <2>5, <2>6
<1> QED
  BY <1>1, <1>2

\* The request goes on.
LEMMA TaskGoesOn ==
    ASSUME PanelInv, ListInv, [PanelNext]_allVars, store' = store, receipt' = receipt,
           task # NoTask, task' # NoTask, task.mode = "run", task'.site = task.site,
           task'.kind = "backup" /\ task'.todo = <<>> => task.id \in host'[task.site].backups
    PROVE  TaskListed'
<1>1. /\ task.site \in Sites /\ Pending(task.site)
      /\ receipt[task.site] = [id |-> task.id, kind |-> task.kind, state |-> "pending"]
  BY TaskPending DEF PanelInv
<1>2. receipt'[task'.site] = [id |-> task'.id, kind |-> task'.kind, state |-> "pending"]
  BY PanelNextSound DEF PanelInv, Inv, ReceiptBeforeEffects
<1>3. task'.id = task.id /\ task'.kind = task.kind
  BY <1>1, <1>2
<1>4. ~DeliverDiscard
  BY DEF DeliverDiscard, DeleteBackup, Free
<1>5. task.kind # "delete" => Grows(task.site)
  BY <1>1, <1>4, Loses
<1>6. task.kind \in {"update", "restore"} =>
         Secured(store[task.site].backups, host'[task.site].backups)
  BY <1>5 DEF ListInv, TaskListed, Secured, Grows, Here
<1> QED
  BY <1>3, <1>6 DEF TaskListed, Here

\* The worker takes a tracked request, or fails to save its receipt.
LEMMA DeliverLists ==
    ASSUME PanelInv, ListInv, [PanelNext]_allVars, NEW outcome \in Outcomes, Deliver(outcome)
    PROVE  ListInv'
<1>1. /\ Agreement /\ call # NoCall /\ call.path = "tracked" /\ call.phase = "sent"
      /\ UNCHANGED <<store, handler, issued>> /\ host' = host
  BY DEF PanelInv, Deliver, Sent, Begin
<1> DEFINE phase == IF outcome = "synced" THEN "received" ELSE "error"
<1>2. phase \in {"received", "error"} /\ call' = [call EXCEPT !.phase = phase]
  BY DEF Deliver
<1> HIDE DEF phase
<1>3. call' # NoCall /\ call'.phase = phase
  BY <1>1, <1>2, CallPhase
<1>4. CallListed'
  BY <1>2, <1>3 DEF CallListed
<1>5. TaskListed'
  <2>1. CASE task' = NoTask
    BY <2>1 DEF TaskListed
  <2>2. CASE task' # NoTask
    <3>1. task' = StartedTask(TheRequest)
      BY <2>2 DEF Deliver, Begin
    <3>2. PICK s, kind, g : /\ s = call.site /\ kind = WorkerKind(Head(handler.todo))
                            /\ g = host[TheRequest.site]
      OBVIOUS
    <3>3. task'.site = s /\ task'.kind = kind /\ task'.todo = Plan(kind, g)
      BY <3>1, <3>2 DEF StartedTask, TheRequest
    <3>4. kind = "backup" => task'.todo # <<>>
      BY <3>3 DEF Plan, BackupPlan
    <3>5. ASSUME kind \in {"update", "restore"}
          PROVE  Secured(store[s].backups, host[s].backups)
      <4>1. handler # NoHandler /\ s = handler.site /\ store[s] = handler.mem
        BY <1>1, <3>2, TrackedCall
      <4>2. Head(handler.todo) \in {"update", "restore"}
        BY <3>2, <3>5, SameKind
      <4>3. handler.todo \in SecuredTodos
        BY <1>1, <4>1, <4>2, HandlerFacts DEF InOrder
      <4> QED
        BY <4>1, <4>3 DEF ListInv, CopyListed
    <3> QED
      BY <1>1, <3>3, <3>4, <3>5 DEF TaskListed, Here
  <2> QED
    BY <2>1, <2>2
<1> QED
  BY <1>1, <1>2, <1>3, <1>4, <1>5, WorkerLists

\* A call is refused or lost.
LEMMA RefuseLists ==
    ASSUME PanelInv, ListInv, [PanelNext]_allVars, Refuse \/ LoseCall
    PROVE  ListInv'
<1>1. Agreement /\ call # NoCall /\ UNCHANGED <<vars, store, handler, issued>>
  BY DEF PanelInv, Refuse, LoseCall
<1>2. PICK phase \in {"busy", "error"} :
         \/ call.phase = "sent" /\ call' = [call EXCEPT !.phase = phase]
         \/ call' = [path |-> call.path, site |-> call.site, phase |-> phase]
  <2>1. CASE Refuse
    BY <2>1 DEF Refuse
  <2>2. CASE LoseCall
    BY <2>2 DEF LoseCall
  <2> QED
    BY <2>1, <2>2
<1>3. call' # NoCall /\ call'.phase = phase
  BY <1>1, <1>2, CallPhase
<1>4. CallListed'
  BY <1>2, <1>3 DEF CallListed
<1>5. TaskListed'
  BY <1>1, TaskStays DEF ListInv
<1> QED
  BY <1>1, <1>2, <1>3, <1>4, <1>5, WorkerLists

\* A backup is removed, or /runtime is called.
LEMMA OtherCallLists ==
    ASSUME PanelInv, ListInv, [PanelNext]_allVars, DeliverDiscard \/ DeliverRuntime \/ DeliverRecovery
    PROVE  ListInv'
<1>1. /\ Agreement /\ call # NoCall /\ UNCHANGED <<store, handler, issued>> /\ call.phase = "sent"
      /\ task = NoTask
  BY DEF PanelInv, DeliverDiscard, DeliverRuntime, DeliverRecovery, Sent, Free, DeleteBackup, Runtime
<1>2. TaskListed'
  <2>1. CASE task' = NoTask
    BY <2>1 DEF TaskListed
  <2>2. CASE task' # NoTask
    <3>1. task'.mode = "recover"
      BY <1>1, <2>2 DEF DeliverDiscard, DeliverRuntime, DeliverRecovery, DeleteBackup, Runtime, Recovery, vars
    <3> QED
      BY <3>1 DEF TaskListed
  <2> QED
    BY <2>1, <2>2
<1>3. CASE DeliverDiscard
  <2>1. call.path = "discard" /\ call' = [call EXCEPT !.phase = "ok"]
    BY <1>3 DEF DeliverDiscard, Sent
  <2>2. call' # NoCall /\ call'.path = "discard" /\ call'.phase = "ok" /\ call'.site = call.site
    BY <1>1, <2>1, CallPhase
  <2>3. call.site \in Sites
    BY <1>1, <2>1 DEF Agreement, CallSound, Calls, RuntimeReplies
  <2>4. handler.from \notin host'[call.site].backups
    <3>1. /\ host' = [host EXCEPT ![call.site] = [host[call.site] EXCEPT !.backups = @ \ {handler.from}]]
          /\ host[call.site] \in Hosts
      BY <1>3, <2>3 DEF DeliverDiscard, DeleteBackup, PanelInv, Inv, TypeOK
    <3>2. handler.from \notin [host[call.site] EXCEPT !.backups = @ \ {handler.from}].backups
      BY <3>1 DEF Hosts
    <3> QED
      BY <2>3, <3>1, <3>2 DEF PanelInv, Inv, TypeOK
  <2>5. CallListed'
    BY <1>1, <2>2, <2>4 DEF CallListed
  <2> QED
    BY <1>1, <1>2, <2>2, <2>5, WorkerLists
<1>4. CASE DeliverRuntime
  <2>1. call' = RuntimeReply(call.site)
    BY <1>4 DEF DeliverRuntime
  <2>2. call' # NoCall /\ call'.path = "runtime" /\ call'.phase = "ok"
    BY <2>1 DEF RuntimeReply, NoCall
  <2> QED
    BY <1>1, <1>2, <2>2, WorkerLists DEF CallListed
<1>5. CASE DeliverRecovery
  <2>1. call' = [call EXCEPT !.phase = "received"]
    BY <1>5 DEF DeliverRecovery
  <2>2. call' # NoCall /\ call'.phase = "received"
    BY <1>1, <2>1, CallPhase
  <2> QED
    BY <1>1, <1>2, <2>2, WorkerLists DEF CallListed
<1> QED
  BY <1>3, <1>4, <1>5

\* A step of the request the worker executes, and the death of the worker.
LEMMA WorkerStepLists ==
    ASSUME PanelInv, ListInv, [PanelNext]_allVars, WorkerStep \/ WorkerCrash
    PROVE  ListInv'
<1>1. Agreement /\ Inv /\ ContentInv /\ UNCHANGED <<store, handler, issued>> /\ Finish("error")
  BY DEF PanelInv, WorkerStep, WorkerCrash
<1>2. TaskListed'
  <2>1. CASE task' = NoTask \/ task'.mode # "run"
    BY <2>1 DEF TaskListed
  <2>2. CASE task' # NoTask /\ task'.mode = "run"
    <3>1. /\ WorkerStep
          /\ \/ DoStep
             \/ \E s \in Sites, j \in Jobs, ok \in BOOLEAN : JobEnds(s, j, ok)
             \/ Abandon
      BY <2>2 DEF WorkerCrash, Crash, WorkerStep
    <3>2. Moves
      BY <1>1, <3>1, WorkerMoves
    <3>3. task # NoTask /\ task.mode = "run" /\ task'.site = task.site /\ receipt' = receipt
      BY <2>2, <3>2 DEF Moves
    <3>4. ASSUME task'.kind = "backup", task'.todo = <<>>
          PROVE  task.id \in host'[task.site].backups
      <4>1. /\ task.site \in Sites /\ Pending(task.site)
            /\ receipt[task.site] = [id |-> task.id, kind |-> task.kind, state |-> "pending"]
        BY <1>1, <3>3, TaskPending
      <4>2. receipt'[task'.site] = [id |-> task'.id, kind |-> task'.kind, state |-> "pending"]
        BY <2>2, PanelNextSound DEF PanelInv, Inv, ReceiptBeforeEffects
      <4>3. task.kind = "backup"
        BY <3>3, <3>4, <4>1, <4>2
      <4>4. ~DeliverDiscard
        BY <3>3 DEF DeliverDiscard, DeleteBackup, Free
      <4>5. Grows(task.site)
        BY <4>1, <4>3, <4>4, Loses
      <4>6. task.todo = <<>> => task.id \in Here.backups
        BY <3>3, <4>3 DEF ListInv, TaskListed
      <4> QED
        BY <1>1, <2>2, <3>1, <3>3, <3>4, <4>3, <4>5, <4>6, BackupDone
    <3> QED
      BY <1>1, <2>2, <3>3, <3>4, TaskGoesOn
  <2> QED
    BY <2>1, <2>2
<1>3. CASE call # NoCall /\ call.phase = "received" /\ task' = NoTask
  <2>1. call' = [call EXCEPT !.phase = "error"]
    BY <1>1, <1>3 DEF Finish
  <2>2. call' # NoCall /\ call'.phase = "error"
    BY <1>1, <1>3, <2>1, CallPhase
  <2>3. CallListed'
    BY <2>2 DEF CallListed
  <2> QED
    BY <1>1, <1>2, <1>3, <2>2, <2>3, WorkerLists
<1>4. CASE ~(call # NoCall /\ call.phase = "received" /\ task' = NoTask)
  <2>1. call' = call
    BY <1>1, <1>4 DEF Finish
  <2> QED
    BY <1>1, <1>2, <2>1, CallListStays, WorkerLists
<1> QED
  BY <1>3, <1>4

\* The worker gives up on a request whose context is done, or starts again.
LEMMA WorkerRestartLists ==
    ASSUME PanelInv, ListInv, [PanelNext]_allVars, WorkerTimeout \/ WorkerRestart
    PROVE  ListInv'
<1>1. Inv /\ UNCHANGED <<store, handler, issued, call>>
  BY DEF PanelInv, WorkerTimeout, WorkerRestart, panelVars
<1>2. TaskListed'
  <2>1. CASE WorkerTimeout
    <3>1. /\ task # NoTask /\ task' = [task EXCEPT !.live = FALSE] /\ UNCHANGED <<receipt, host>>
          /\ task \in Tasks
      BY <1>1, <2>1, TaskPending DEF WorkerTimeout, Disconnect
    <3>2. /\ task'.site = task.site /\ task'.mode = task.mode /\ task'.todo = task.todo
          /\ task'.kind = task.kind /\ task'.id = task.id
      BY <3>1 DEF Tasks
    <3> QED
      BY <1>1, <3>1, <3>2 DEF ListInv, TaskListed, Here
  <2>2. CASE WorkerRestart
    <3>1. task = NoTask
      BY <2>2 DEF WorkerRestart, Boot, Settle, Serve, PanelInv, Attended
    <3>2. task' = NoTask \/ task'.mode = "startup"
      BY <2>2, <3>1 DEF WorkerRestart, Boot, Settle, Serve, Recovery
    <3> QED
      BY <3>2 DEF TaskListed
  <2> QED
    BY <2>1, <2>2
<1> QED
  BY <1>1, <1>2, CallListStays, WorkerLists

\* The request is done: a backup that is confirmed is published.
LEMMA WorkerConcludesLists ==
    ASSUME PanelInv, ListInv, [PanelNext]_allVars, NEW outcome \in Outcomes, WorkerConcludes(outcome)
    PROVE  ListInv'
<1>1. /\ Agreement /\ Inv /\ UNCHANGED <<store, handler, issued>>
      /\ task # NoTask /\ task.todo = <<>> /\ task' = NoTask /\ host' = host
  BY DEF PanelInv, WorkerConcludes, Conclude
<1>2. TaskListed'
  BY <1>1 DEF TaskListed
<1>3. CASE ~(call # NoCall /\ call.phase = "received")
  <2>1. call' = call
    BY <1>3 DEF WorkerConcludes, Finish
  <2> QED
    BY <1>1, <1>2, <2>1, CallListStays, WorkerLists
<1>4. CASE call # NoCall /\ call.phase = "received" /\ outcome = "synced" /\ task.mode = "recover"
  <2>1. call' = RuntimeReply(call.site)
    BY <1>4 DEF WorkerConcludes
  <2>2. call' # NoCall /\ call'.path = "runtime" /\ call'.phase = "ok"
    BY <2>1 DEF RuntimeReply, NoCall
  <2> QED
    BY <1>1, <1>2, <1>4, <2>2, WorkerLists DEF CallListed
<1>5. CASE call # NoCall /\ call.phase = "received" /\ ~(outcome = "synced" /\ task.mode = "recover")
  <2> DEFINE phase == IF task.mode = "run" /\ outcome = "synced" THEN "ok" ELSE "error"
  <2>1. Finish(phase)
    BY <1>5 DEF WorkerConcludes
  <2>2. phase \in {"ok", "error"} /\ (phase = "ok" => task.mode = "run")
    OBVIOUS
  <2> HIDE DEF phase
  <2>3. call' = [call EXCEPT !.phase = phase]
    BY <1>1, <1>5, <2>1 DEF Finish
  <2>4. call' # NoCall /\ call'.path = call.path /\ call'.site = call.site /\ call'.phase = phase
    BY <1>1, <1>5, <2>2, <2>3, CallPhase
  <2>5. CallListed'
    <3>1. CASE phase = "error"
      BY <2>4, <3>1 DEF CallListed
    <3>2. CASE phase = "ok"
      <4>1. task.mode = "run" /\ task.site = call.site /\ call.path = "tracked"
        BY <1>1, <1>5, <2>2, <3>2 DEF Agreement, CallSound, Calls, RuntimeReplies
      <4>2. /\ handler # NoHandler /\ call.site \in Sites /\ store[call.site] = handler.mem
            /\ SiteAgrees(call.site)
        BY <1>1, <1>5, <4>1, TrackedCall DEF Agreement
      <4>3. /\ Pending(call.site)
            /\ receipt[call.site] = [id |-> task.id, kind |-> task.kind, state |-> "pending"]
        BY <1>1, <4>1, TaskPending
      <4>4. task.kind = WorkerKind(handler.mem.op.kind) /\ task.id = handler.mem.op.id
        BY <4>2, <4>3 DEF SiteAgrees
      <4>5. handler.mem.op.kind \in BackupKinds => task.kind = "backup"
        BY <4>4 DEF WorkerKind, BackupKinds
      <4>6. handler.mem.op.kind \in BackupKinds => handler.mem.op.id \in host[call.site].backups
        BY <1>1, <4>1, <4>4, <4>5 DEF ListInv, TaskListed, Here
      <4> QED
        BY <1>1, <2>4, <4>1, <4>6 DEF CallListed
    <3> QED
      BY <2>2, <3>1, <3>2
  <2> QED
    BY <1>1, <1>2, <1>5, <2>2, <2>4, <2>5, WorkerLists
<1> QED
  BY <1>3, <1>4, <1>5

\* Every step keeps the lists.
LEMMA ListNext ==
    ASSUME PanelInv, ListInv, [PanelNext]_allVars
    PROVE  ListInv'
<1>1. CASE UNCHANGED allVars
  <2>1. UNCHANGED <<store, handler, issued, call>> /\ UNCHANGED vars
    BY <1>1 DEF allVars, panelVars
  <2>2. TaskListed'
    BY <2>1, TaskStays DEF ListInv
  <2> QED
    BY <2>1, <2>2, CallListStays, WorkerLists
<1>2. CASE \E s \in Sites, act \in Actions, from \in Ids \cup {"none"} : StartHandler(s, act, from)
  BY <1>2, StartHandlerLists
<1>3. CASE HandlerStep
  BY <1>3, SaveLists, EraseLists, AnsweredLists, DiscardLists, DiscardedLists, PruneLists,
     CallTrackedLists DEF HandlerStep
<1>4. CASE StartSweep \/ SweepStep \/ PanelRestart
  BY <1>4, ReconcileLists, QuietLists DEF SweepStep
<1>5. CASE Reception \/ LoseCall
  BY <1>5, DeliverLists, RefuseLists, OtherCallLists DEF Reception
<1>6. CASE WorkerStep \/ WorkerCrash \/ WorkerTimeout \/ WorkerRestart
  BY <1>6, WorkerStepLists, WorkerRestartLists
<1>7. CASE \E outcome \in Outcomes : WorkerConcludes(outcome)
  BY <1>7, WorkerConcludesLists
<1> QED
  BY <1>1, <1>2, <1>3, <1>4, <1>5, <1>6, <1>7 DEF PanelNext

\* A new installation lists nothing.
LEMMA ListInit ==
    ASSUME PanelInit
    PROVE  ListInv
<1>1. \A s \in Sites : ~Known(s) /\ receipt[s].state # "succeeded"
  BY DEF PanelInit, Known, Init, NoReceipt
<1> QED
  BY <1>1 DEF PanelInit, Init, ListInv, SitesListed, CopyListed, CallListed, TaskListed

\* At every moment every list of backups agrees with the worker's receipts and with
\* what is published.
THEOREM ListsSafety == PanelSpec => [](PanelInv /\ ListInv)
<1>1. PanelInit => ListInv
  BY ListInit
<1>2. PanelInv /\ ListInv /\ [PanelNext]_allVars => ListInv'
  BY ListNext
<1> QED
  BY <1>1, <1>2, PanelSafety, PTL DEF PanelSpec

\* A backup the worker confirmed is listed, under the source of the operation that
\* made it, as soon as the record of its site is not marked as pending: neither a lost
\* answer, nor a failed save, nor a restart of either process makes the panel forget
\* it or take a safety backup for one that retention removes.
THEOREM BackupRecordedHolds == PanelSpec => []BackupRecorded
<1>1. ListInv => BackupRecorded
  <2> SUFFICES ASSUME ListInv, NEW s \in Sites, Known(s), receipt[s].kind = "backup",
                      receipt[s].state = "succeeded", receipt[s].id \in host[s].backups,
                      ~Busy(store[s])
               PROVE  /\ receipt[s].id \in Listed(store[s])
                      /\ store[s].op.id = receipt[s].id =>
                           \E k \in DOMAIN store[s].backups :
                              store[s].backups[k] = [id |-> receipt[s].id,
                                                     source |-> Source(store[s].op.kind)]
    BY DEF BackupRecorded
  <2>1. Sound(store[s].backups, store[s].op, issued, receipt[s], host[s].backups)
    BY DEF ListInv, SitesListed
  <2>2. PICK list, rc, op : list = store[s].backups /\ rc = receipt[s] /\ op = store[s].op
    OBVIOUS
  <2>3. /\ \E b \in Entries(list) : b.id = rc.id
        /\ op.id = rc.id => [id |-> rc.id, source |-> Source(op.kind)] \in Entries(list)
    BY <2>1, <2>2 DEF Sound, Busy
  <2>4. rc.id \in Listed(store[s])
    BY <2>2, <2>3 DEF Listed, Entries
  <2>5. op.id = rc.id =>
           \E k \in DOMAIN list : list[k] = [id |-> rc.id, source |-> Source(op.kind)]
    BY <2>3 DEF Entries
  <2> QED
    BY <2>2, <2>4, <2>5
<1> QED
  BY <1>1, ListsSafety, PTL

\* While the worker executes an update or a restore, the latest backup in sites.json is
\* a safety backup, and is published: the old content is never at risk without one.
THEOREM SafetyFirstHolds == PanelSpec => []SafetyFirst
<1>1. ListInv => SafetyFirst
  BY DEF ListInv, TaskListed, Secured, Here, SafetyFirst
<1> QED
  BY <1>1, ListsSafety, PTL

\* While a scheduled backup is made and old ones are pruned, the only backups that
\* disappear are scheduled ones that sites.json still lists, and only while it lists
\* more than are to be retained.
THEOREM RetentionSparesHolds == PanelSpec => RetentionSpares
<1> DEFINE Spares == \A s \in Sites, b \in Ids :
         /\ handler # NoHandler /\ handler.act = "scheduled" /\ handler.site = s
         /\ b \in host[s].backups \ host'[s].backups
         => /\ \E k \in DOMAIN store[s].backups :
                  store[s].backups[k] = [id |-> b, source |-> "scheduled"]
            /\ Len(Scheduled(store[s])) > Retention
<1>1. ASSUME PanelInv, ListInv, [PanelNext]_allVars
      PROVE  Spares
  <2> SUFFICES ASSUME NEW s \in Sites, NEW b \in Ids, handler # NoHandler,
                      handler.act = "scheduled", handler.site = s,
                      b \in host[s].backups \ host'[s].backups
               PROVE  /\ \E k \in DOMAIN store[s].backups :
                            store[s].backups[k] = [id |-> b, source |-> "scheduled"]
                      /\ Len(Scheduled(store[s])) > Retention
    OBVIOUS
  <2>1. Agreement /\ InOrder(handler.act, handler.todo) /\ handler.todo \in Todos(handler.act)
    BY <1>1, HandlerFacts DEF PanelInv
  <2>2. ~(Pending(s) /\ receipt[s].kind = "delete")
    <3> SUFFICES ASSUME Pending(s), receipt[s].kind = "delete"
                 PROVE  FALSE
      OBVIOUS
    <3>1. handler.mem.op.kind = "delete"
      BY <1>1, CopyPending DEF WorkerKind
    <3>2. handler.todo # <<"save">>
      BY <2>1 DEF Todos
    <3>3. call # NoCall /\ call.path = "tracked"
      BY <1>1, <3>2, CopyPending
    <3>4. Head(handler.todo) = "delete" /\ Head(handler.todo) \in PanelKinds
      BY <2>1, <3>1, <3>3, TrackedCall
    <3>5. handler.todo = <<"scheduled-backup", "save", "prune">>
      BY <2>1, <3>4 DEF InOrder
    <3> QED
      BY <3>4, <3>5
  <2>3. DeliverDiscard /\ s = call.site
    BY <1>1, <2>2, Loses DEF Grows
  <2>4. b = handler.from
    <3>1. /\ host' = [host EXCEPT ![s] = [host[s] EXCEPT !.backups = @ \ {handler.from}]]
          /\ host[s] \in Hosts /\ host = [t \in Sites |-> host[t]]
      BY <1>1, <2>3 DEF DeliverDiscard, DeleteBackup, PanelInv, Inv, TypeOK
    <3>2. host'[s].backups = host[s].backups \ {handler.from}
      BY <3>1 DEF Hosts
    <3> QED
      BY <3>2
  <2>5. call # NoCall /\ call.path = "discard" /\ call.phase = "sent"
    BY <2>3 DEF DeliverDiscard, Sent
  <2>6. handler.todo = <<"discard", "save", "prune">>
    BY <2>1, <2>5 DEF Agreement, CallSound, InOrder
  <2>7. store[s].backups = handler.mem.backups /\ Prunable(handler.mem.backups, b)
    BY <1>1, <2>4, <2>5, <2>6 DEF ListInv, CopyListed
  <2> QED
    BY <2>7 DEF Prunable, Entries, Scheduled
<1> HIDE DEF Spares
<1>2. PanelInv /\ ListInv /\ [PanelNext]_allVars => [Spares]_allVars
  BY <1>1
<1>3. PanelSpec => [][Spares]_allVars
  BY <1>2, ListsSafety, PTL DEF PanelSpec
<1> QED
  BY <1>3 DEF Spares, RetentionSpares

=============================================================================
