------------------------------- MODULE Panel -------------------------------
(***************************************************************************)
(* The panel process (cmd/panel) and its protocol with the worker: the     *)
(* site records of sites.json, the handlers that hold opsMu, the tracked   *)
(* HTTP calls they make, and the reconciliation that settles what a lost   *)
(* answer, a failed save or a restart left open.                           *)
(*                                                                         *)
(* The worker is the one of module Worker, driven by this panel only:      *)
(* every step of the composition is a step of Worker or leaves it alone.   *)
(* A call either reaches the worker before any later call or is lost.      *)
(***************************************************************************)
EXTENDS Worker, FiniteSets

CONSTANTS
    Actions,    \* the requests of the administrator and of the scheduler
    Retention,  \* BackupPolicy.Retention
    MaxUpsets   \* bound on failing saves, lost messages and panel restarts

ASSUME ActionsAssumption ==
    Actions \subseteq {"create", "retry", "start", "stop", "delete", "backup", "scheduled",
                       "update", "restore", "resources", "backup-delete"}
ASSUME RetentionAssumption == Retention \in Nat \ {0}
ASSUME MaxUpsetsAssumption == MaxUpsets \in Nat
ASSUME IdsFinite == IsFiniteSet(Ids)
ASSUME NoneAssumption == "none" \notin Ids
ASSUME AllKinds == ClientKinds = Kinds

VARIABLES
    store,      \* store[s]: the record of a site in sites.json
    issued,     \* operation IDs handed out by core.NewID
    handler,    \* the handler holding opsMu
    sweep,      \* sites reconcileRuntime has yet to look at; not empty while
                \* it holds opsMu
    call,       \* the panel's outstanding request to the worker
    upsets      \* upsets so far

panelVars == <<store, issued, handler, sweep, call, upsets>>
allVars == <<vars, panelVars>>

-----------------------------------------------------------------------------
(* Types *)

Statuses == {"creating", "running", "stopped", "deleting", "failed", "unhealthy"}

BackupKinds == {"manual-backup", "scheduled-backup", "safety-backup"}
PanelKinds == BackupKinds \cup
    {"create", "start", "stop", "delete", "restore-prepare", "restore", "update",
     "resources"}

\* What the worker calls an operation of the panel.
WorkerKind(kind) ==
    CASE kind \in BackupKinds -> "backup"
      [] kind = "restore-prepare" -> "prepare-restore"
      [] OTHER -> kind

Source(kind) ==
    CASE kind = "scheduled-backup" -> "scheduled"
      [] kind = "safety-backup" -> "safety"
      [] OTHER -> "manual"

NoMarker == [id |-> "none", kind |-> "none", state |-> "none"]
Markers == [id : Ids, kind : PanelKinds,
            state : {"pending", "succeeded", "failed", "interrupted"}]
Backups == [id : Ids, source : {"manual", "scheduled", "safety"}]

SiteRecords == [status : Statuses,
                op : Markers \cup {NoMarker},
                backups : Seq(Backups),   \* oldest first
                health : BOOLEAN]         \* HealthError is set

\* A site ID is fresh when it is generated and is never used again.
Unborn == [status |-> "unborn"]
Erased == [status |-> "erased"]
Known(s) == store[s] \notin {Unborn, Erased}

\* Steps of a handler besides the tracked calls.
LocalSteps == {"save", "erase", "discard", "prune"}

NoHandler == [act |-> "none"]
Handlers == [act : Actions, site : Sites,
             mem : SiteRecords,     \* the handler's copy of the record
             from : Ids \cup {"none"},   \* backup to restore or to discard
             safety : Ids \cup {"none"}, \* safety backup of this restore
             todo : Seq(PanelKinds \cup LocalSteps)]

NoCall == [phase |-> "none"]
Answers == [op : Receipts \cup {NoReceipt},
            status : {"running", "stopped", "unhealthy"}]
Calls == [path : {"tracked", "runtime", "discard"}, site : Sites,
          phase : {"sent",      \* on its way to the worker
                   "received",  \* the worker is executing it
                   "ok",        \* answered with success
                   "busy",      \* answered with 409 by /runtime
                   "error"}]    \* refused, failed or lost
RuntimeReplies == [path : {"runtime"}, site : Sites, phase : {"ok"},
                   answer : Answers]

PanelTypeOK ==
    /\ TypeOK
    /\ store \in [Sites -> SiteRecords \cup {Unborn, Erased}]
    /\ issued \in SUBSET Ids
    /\ handler \in Handlers \cup {NoHandler}
    /\ sweep \in SUBSET Sites
    /\ call \in Calls \cup RuntimeReplies \cup {NoCall}
    /\ upsets \in 0..MaxUpsets

-----------------------------------------------------------------------------
(* The handlers *)

\* What each handler does after its checks, in order.
FlowUpdateFirst(act) ==
    CASE act = "create" -> <<"save", "create", "save">>
      [] act = "update" -> <<"update", "save", "safety-backup", "save">>
      [] OTHER -> <<"discard", "save">>
Flow(act) ==
    CASE act \in {"create", "retry"} -> <<"save", "create", "save">>
      [] act = "start" -> <<"start", "save">>
      [] act = "stop" -> <<"stop", "save">>
      [] act = "delete" -> <<"save", "delete", "erase">>
      [] act = "backup" -> <<"manual-backup", "save">>
      [] act = "scheduled" -> <<"scheduled-backup", "save", "prune">>
      [] act = "update" -> <<"safety-backup", "save", "update", "save">>
      [] act = "restore" ->
            <<"restore-prepare", "safety-backup", "save", "restore", "save">>
      [] act = "resources" -> <<"resources", "save">>
      [] act = "backup-delete" -> <<"discard", "save">>

Busy(r) == r.op.state = "pending"

Listed(r) == {r.backups[k].id : k \in DOMAIN r.backups}

\* The checks each handler makes on the record it reads under opsMu.
Permitted(act, r) ==
    /\ ~Busy(r)
    /\ CASE act = "retry" -> r.status = "failed"
         [] act \in {"backup", "update"} -> r.status = "running"
         [] act = "scheduled" -> r.status = "running" /\ ~r.health
         [] act = "restore" -> r.status \in {"running", "stopped", "unhealthy"}
         [] act = "resources" -> r.status \in {"running", "stopped"} /\ ~r.health
         [] OTHER -> TRUE

NewSite == [status |-> "creating", op |-> NoMarker, backups |-> <<>>, health |-> FALSE]

\* The record with which the handler sets out.
Draft(act, r) ==
    CASE act = "create" -> NewSite
      [] act = "retry" -> [r EXCEPT !.status = "creating"]
      [] act = "delete" -> [r EXCEPT !.status = "deleting"]
      [] OTHER -> r

\* opsMu can be taken.
OpsFree == handler = NoHandler /\ sweep = {}

\* Bound: an operation is begun only if Ids has IDs left for all its calls.
IdsLeft(act) ==
    Cardinality({k \in 1..Len(Flow(act)) : Flow(act)[k] \in PanelKinds})
        <= Cardinality(Ids \ issued)

StartHandler(s, act, from) ==
    /\ OpsFree
    /\ IdsLeft(act)
    /\ IF act = "create" THEN store[s] = Unborn
                         ELSE Known(s) /\ Permitted(act, store[s])
    /\ IF act \in {"restore", "backup-delete"} THEN from \in Listed(store[s])
                                               ELSE from = "none"
    /\ handler' = [act |-> act, site |-> s, mem |-> Draft(act, store[s]),
                   from |-> from, safety |-> "none", todo |-> Flow(act)]
    /\ UNCHANGED <<vars, store, issued, sweep, call, upsets>>

-----------------------------------------------------------------------------
(* Steps of a handler *)

Upset == upsets < MaxUpsets /\ upsets' = upsets + 1

\* The handler is about to do step k.
HandlerAt(k) == handler # NoHandler /\ call = NoCall /\ Head(handler.todo) = k

Done(h) == IF Tail(h.todo) = <<>> THEN NoHandler ELSE [h EXCEPT !.todo = Tail(@)]

\* What is left of a handler after a failed tracked call.
Failing(h) ==
    CASE h.act \in {"create", "retry"} ->
            [h EXCEPT !.mem.status = "failed", !.todo = <<"save">>]
      [] h.act \in {"start", "stop", "delete"} ->
            [h EXCEPT !.mem.status = "unhealthy", !.todo = <<"save">>]
      [] OTHER -> NoHandler

\* store.Put(site): an error ends the handler.
Save ==
    /\ HandlerAt("save")
    /\ \/ /\ store' = [store EXCEPT ![handler.site] = handler.mem]
          /\ handler' = Done(handler)
          /\ UNCHANGED upsets
       \/ Upset /\ handler' = NoHandler /\ UNCHANGED store
    /\ UNCHANGED <<vars, issued, sweep, call>>

\* store.Delete(id).
Erase ==
    /\ HandlerAt("erase")
    /\ handler' = NoHandler
    /\ \/ store' = [store EXCEPT ![handler.site] = Erased] /\ UNCHANGED upsets
       \/ Upset /\ UNCHANGED store
    /\ UNCHANGED <<vars, issued, sweep, call>>

\* callTracked: the marker is saved, then the request is sent.
CallTrackedUnmarked(kind, id) ==
    /\ kind \in PanelKinds
    /\ HandlerAt(kind)
    /\ issued' = issued \cup {id}
    /\ LET h == [handler EXCEPT
                    !.mem.op = [id |-> id, kind |-> kind, state |-> "pending"],
                    !.safety = IF kind = "safety-backup" THEN id ELSE @]
       IN  /\ handler' = h
           /\ call' = [path |-> "tracked", site |-> h.site, phase |-> "sent"]
    /\ UNCHANGED <<vars, store, sweep, upsets>>
CallTracked(kind, id) ==
    /\ kind \in PanelKinds
    /\ HandlerAt(kind)
    /\ issued' = issued \cup {id}
    /\ LET h == [handler EXCEPT
                    !.mem.op = [id |-> id, kind |-> kind, state |-> "pending"],
                    !.safety = IF kind = "safety-backup" THEN id ELSE @]
       IN  \/ /\ store' = [store EXCEPT ![h.site] = h.mem]
              /\ handler' = h
              /\ call' = [path |-> "tracked", site |-> h.site, phase |-> "sent"]
              /\ UNCHANGED upsets
           \/ Upset /\ handler' = Failing(h) /\ UNCHANGED <<store, call>>
    /\ UNCHANGED <<vars, sweep>>

\* What a confirmed operation changes in the handler's copy.
Confirmed(kind, r) ==
    LET done == [r EXCEPT !.op.state = "succeeded"]
    IN  CASE kind \in {"create", "start"} ->
                [done EXCEPT !.status = "running", !.health = FALSE]
          [] kind = "stop" -> [done EXCEPT !.status = "stopped", !.health = FALSE]
          [] kind = "restore-prepare" -> [done EXCEPT !.status = "stopped"]
          [] kind = "restore" -> [done EXCEPT !.status = "running"]
          [] kind = "resources" -> [done EXCEPT !.health = FALSE]
          [] kind \in BackupKinds ->
                [done EXCEPT !.backups = Append(@, [id |-> r.op.id, source |-> Source(kind)])]
          [] OTHER -> done

\* The answer to a tracked call, or the lack of one.
Answered ==
    /\ handler # NoHandler
    /\ call # NoCall
    /\ call.path = "tracked"
    /\ \/ call.phase = "ok"
          /\ handler' = Done([handler EXCEPT !.mem = Confirmed(Head(handler.todo), @)])
       \/ call.phase = "error" /\ handler' = Failing(handler)
    /\ call' = NoCall
    /\ UNCHANGED <<vars, store, issued, sweep, upsets>>

\* The backups of a list that are in a set, in their order.
Among(list, chosen) ==
    LET upTo[n \in 0..Len(list)] ==
            IF n = 0 THEN <<>>
            ELSE IF list[n] \in chosen THEN Append(upTo[n - 1], list[n])
            ELSE upTo[n - 1]
    IN  upTo[Len(list)]

Without(list, id) == Among(list, {b \in Backups : b.id # id})
Scheduled(r) == Among(r.backups, {b \in Backups : b.source = "scheduled"})

\* /backup/delete carries no marker and leaves no receipt.
Discard ==
    /\ HandlerAt("discard")
    /\ call' = [path |-> "discard", site |-> handler.site, phase |-> "sent"]
    /\ UNCHANGED <<vars, store, issued, handler, sweep, upsets>>

Discarded ==
    /\ handler # NoHandler
    /\ call # NoCall
    /\ call.path = "discard"
    /\ \/ /\ call.phase = "ok"
          /\ handler' = Done([handler EXCEPT
                !.mem.backups = Without(@, handler.from)])
       \/ call.phase = "error" /\ handler' = NoHandler
    /\ call' = NoCall
    /\ UNCHANGED <<vars, store, issued, sweep, upsets>>

\* pruneScheduledBackups: discard the oldest scheduled backup while there are
\* more than the retention allows.
PruneOldest ==
    /\ HandlerAt("prune")
    /\ LET old == handler.mem.backups
       IN  handler' = IF Len(old) <= Retention THEN NoHandler
                      ELSE [handler EXCEPT !.from = old[1].id,
                                           !.todo = <<"discard", "save", "prune">>]
    /\ UNCHANGED <<vars, store, issued, sweep, call, upsets>>
Prune ==
    /\ HandlerAt("prune")
    /\ LET old == Scheduled(handler.mem)
       IN  handler' = IF Len(old) <= Retention THEN NoHandler
                      ELSE [handler EXCEPT !.from = old[1].id,
                                           !.todo = <<"discard", "save", "prune">>]
    /\ UNCHANGED <<vars, store, issued, sweep, call, upsets>>

-----------------------------------------------------------------------------
(* Reconciliation *)

\* reconcileRuntime takes opsMu and lists the sites.
StartSweep ==
    /\ OpsFree
    /\ sweep' = {s \in Sites : Known(s)}
    /\ UNCHANGED <<vars, store, issued, handler, call, upsets>>

Probe(s) ==
    /\ s \in sweep
    /\ call = NoCall
    /\ call' = [path |-> "runtime", site |-> s, phase |-> "sent"]
    /\ UNCHANGED <<vars, store, issued, handler, sweep, upsets>>

\* The marker after the worker's receipt has been read: a receipt of another
\* operation, or none, proves that this one never began.
ResolvedByAnyReceipt(op, rcpt) ==
    IF rcpt = NoReceipt THEN [op EXCEPT !.state = "interrupted"]
                        ELSE [op EXCEPT !.state = rcpt.state]
ResolvedOnlyByReceipt(op, rcpt) ==
    IF rcpt.id # op.id THEN op ELSE [op EXCEPT !.state = rcpt.state]
Resolved(op, rcpt) ==
    IF rcpt.id # op.id THEN [op EXCEPT !.state = "interrupted"]
                       ELSE [op EXCEPT !.state = rcpt.state]

\* A backup whose answer was lost is listed from its receipt.
RecoveredManual(r, rcpt) ==
    IF /\ rcpt.id = r.op.id /\ rcpt.kind = "backup" /\ rcpt.state = "succeeded"
       /\ rcpt.id \notin Listed(r)
    THEN Append(r.backups, [id |-> rcpt.id, source |-> "manual"])
    ELSE r.backups
Recovered(r, rcpt) ==
    IF /\ rcpt.id = r.op.id /\ rcpt.kind = "backup" /\ rcpt.state = "succeeded"
       /\ rcpt.id \notin Listed(r)
    THEN Append(r.backups, [id |-> rcpt.id, source |-> Source(r.op.kind)])
    ELSE r.backups

\* reconcileRuntime's new record for a site that answered.
ReconciledEager(r, answer) ==
    IF Busy(r) /\ r.op.kind = "delete" THEN Erased
    ELSE [r EXCEPT !.op = IF Busy(r) THEN Resolved(@, answer.op) ELSE @]
ReconciledKeepingStatus(r, answer) ==
    [r EXCEPT !.op = IF Busy(r) THEN Resolved(@, answer.op) ELSE @, !.health = FALSE]
Reconciled(r, answer) ==
    LET op == IF Busy(r) THEN Resolved(r.op, answer.op) ELSE r.op
        status == CASE Busy(r) /\ op.kind = "create" -> "failed"
                    [] Busy(r) /\ op.kind # "create" -> answer.status
                    [] ~Busy(r) /\ r.status = "creating" -> "failed"
                    [] ~Busy(r) /\ r.status = "deleting" -> "unhealthy"
                    [] ~Busy(r) /\ r.status = "failed" -> "failed"
                    [] OTHER -> answer.status
    IN  IF Busy(r) /\ op.kind = "delete" /\ op.state = "succeeded" THEN Erased
        ELSE [status |-> status, op |-> op, health |-> FALSE,
              backups |-> IF Busy(r) THEN Recovered(r, answer.op) ELSE r.backups]

\* The next record of the site just looked at is saved; an error ends the sweep.
Reconcile ==
    /\ sweep # {}
    /\ call # NoCall
    /\ call.phase \in {"ok", "error", "busy"}
    /\ LET s == call.site
           record == IF call.phase = "ok" THEN Reconciled(store[s], call.answer)
                                          ELSE [store[s] EXCEPT !.health = TRUE]
       IN  \/ /\ call.phase # "busy"
              /\ store' = [store EXCEPT ![s] = record]
              /\ sweep' = sweep \ {s}
              /\ UNCHANGED upsets
           \/ call.phase # "busy" /\ Upset /\ sweep' = {} /\ UNCHANGED store
           \/ call.phase = "busy" /\ sweep' = {} /\ UNCHANGED <<store, upsets>>
    /\ call' = NoCall
    /\ UNCHANGED <<vars, issued, handler>>

-----------------------------------------------------------------------------
(* The network and the worker's side of a call *)

Sent(path) == call # NoCall /\ call.path = path /\ call.phase = "sent"

\* The worker's part of a call ends: the panel gets an answer if it still waits.
Finish(phase) ==
    call' = IF call # NoCall /\ call.phase = "received" /\ task' = NoTask
            THEN [call EXCEPT !.phase = phase]
            ELSE call

RuntimeReply(s) ==
    [path |-> "runtime", site |-> s, phase |-> "ok",
     answer |-> [op |-> receipt'[s], status |-> RuntimeStatus(host'[s])]]

TheRequest ==
    [site |-> call.site, id |-> handler.mem.op.id,
     kind |-> WorkerKind(Head(handler.todo)),
     from |-> IF handler.from = "none" THEN handler.mem.op.id ELSE handler.from,
     safety |-> IF handler.safety = "none" THEN handler.mem.op.id ELSE handler.safety]

Deliver(outcome) ==
    /\ Sent("tracked")
    /\ Begin(TheRequest, outcome)
    /\ call' = [call EXCEPT !.phase = IF outcome = "synced" THEN "received" ELSE "error"]
    /\ UNCHANGED <<store, issued, handler, sweep, upsets>>

\* Nobody listens, executionMu is held, or trackOperation refuses.
Refuse ==
    /\ call # NoCall
    /\ call.phase = "sent"
    /\ \/ worker # "serving"
       \/ worker = "serving" /\ task # NoTask
       \/ Sent("tracked") /\ ~Admissible(TheRequest)
       \/ Sent("discard") /\ handler.from \notin host[call.site].backups
    /\ call' = [call EXCEPT !.phase =
                  IF call.path = "runtime" /\ worker = "serving" THEN "busy" ELSE "error"]
    /\ UNCHANGED <<vars, store, issued, handler, sweep, upsets>>

DeliverDiscard ==
    /\ Sent("discard")
    /\ DeleteBackup(call.site, handler.from)
    /\ call' = [call EXCEPT !.phase = "ok"]
    /\ UNCHANGED <<store, issued, handler, sweep, upsets>>

\* /runtime of a site whose receipt is final, or is not there.
DeliverRuntime ==
    /\ Sent("runtime")
    /\ Free
    /\ receipt[call.site].state # "pending"
    /\ UNCHANGED vars
    /\ call' = RuntimeReply(call.site)
    /\ UNCHANGED <<store, issued, handler, sweep, upsets>>

DeliverRecovery ==
    /\ Sent("runtime")
    /\ Runtime(call.site)
    /\ call' = [call EXCEPT !.phase = "received"]
    /\ UNCHANGED <<store, issued, handler, sweep, upsets>>

WorkerStep ==
    /\ \/ DoStep
       \/ \E s \in Sites, j \in Jobs, ok \in BOOLEAN : JobEnds(s, j, ok)
       \/ Abandon
    /\ Finish("error")
    /\ UNCHANGED <<store, issued, handler, sweep, upsets>>

WorkerCrash ==
    /\ Crash
    /\ Finish("error")
    /\ UNCHANGED <<store, issued, handler, sweep, upsets>>

WorkerConcludes(outcome) ==
    /\ Conclude(outcome)
    /\ IF call # NoCall /\ call.phase = "received" /\ outcome = "synced"
          /\ task.mode = "recover"
       THEN call' = RuntimeReply(call.site)
       ELSE Finish(IF task.mode = "run" /\ outcome = "synced" THEN "ok" ELSE "error")
    /\ UNCHANGED <<store, issued, handler, sweep, upsets>>

\* The worker sees that a request's context is done.
WorkerTimeout == Disconnect /\ UNCHANGED panelVars

WorkerRestart ==
    /\ Boot \/ (\E s \in Sites : Settle(s)) \/ Serve
    /\ UNCHANGED panelVars

\* The request or its answer is lost, or the panel's own timeout is over.
LoseCall ==
    /\ call # NoCall
    /\ call.phase \in {"sent", "received", "ok"}
    /\ Upset
    /\ call' = [path |-> call.path, site |-> call.site, phase |-> "error"]
    /\ UNCHANGED <<vars, store, issued, handler, sweep>>

\* The panel process ends at any point and is started again: only sites.json
\* survives.
PanelRestart ==
    /\ ~OpsFree
    /\ Upset
    /\ handler' = NoHandler
    /\ sweep' = {}
    /\ call' = NoCall
    /\ UNCHANGED <<vars, store, issued>>

-----------------------------------------------------------------------------

PanelInit ==
    /\ Init
    /\ store = [s \in Sites |-> Unborn]
    /\ issued = {}
    /\ handler = NoHandler
    /\ sweep = {}
    /\ call = NoCall
    /\ upsets = 0

HandlerStep ==
    \/ Save \/ Erase \/ Answered \/ Discard \/ Discarded \/ Prune
    \/ \E kind \in PanelKinds, id \in Ids \ issued : CallTracked(kind, id)

SweepStep == Reconcile \/ \E s \in Sites : Probe(s)

Reception ==
    \/ \E outcome \in Outcomes : Deliver(outcome)
    \/ Refuse \/ DeliverDiscard \/ DeliverRuntime \/ DeliverRecovery

PanelNext ==
    \/ \E s \in Sites, act \in Actions, from \in Ids \cup {"none"} :
            StartHandler(s, act, from)
    \/ HandlerStep
    \/ StartSweep
    \/ SweepStep
    \/ Reception
    \/ WorkerStep
    \/ \E outcome \in Outcomes : WorkerConcludes(outcome)
    \/ WorkerRestart
    \/ WorkerCrash
    \/ WorkerTimeout
    \/ LoseCall
    \/ PanelRestart

PanelSpec == PanelInit /\ [][PanelNext]_allVars

\* The processes are scheduled, the worker is restarted by Docker, and its
\* jobs end.  Nothing is assumed of the administrator or of the faults.
PanelFairness ==
    /\ WF_allVars(HandlerStep)
    /\ WF_allVars(SweepStep)
    /\ WF_allVars(StartSweep)
    /\ WF_allVars(Reception)
    /\ WF_allVars(WorkerStep)
    /\ WF_allVars(\E outcome \in Outcomes : WorkerConcludes(outcome))
    /\ WF_allVars(WorkerRestart)

FairPanelSpec == PanelSpec /\ PanelFairness

-----------------------------------------------------------------------------
(* Properties *)

\* The operation a worker has begun and not settled is the one the panel has
\* marked, whatever was lost or restarted: no other operation of the site can
\* be offered meanwhile.
UnsettledIsMarked ==
    \A s \in Sites : Pending(s) =>
        Known(s) /\ Busy(store[s]) /\ store[s].op.id = receipt[s].id

\* An operation recorded as succeeded is the last one the worker completed
\* there, and its receipt says so.
SuccessIsConfirmed ==
    \A s \in Sites : Known(s) /\ store[s].op.state = "succeeded" =>
        receipt[s] = [id |-> store[s].op.id, kind |-> WorkerKind(store[s].op.kind),
                      state |-> "succeeded"]

\* A site the panel has forgotten has left nothing behind.
DeletionConfirmed == \A s \in Sites : store[s] = Erased => host[s] = NoHost

\* A site shown as running is running, and one shown as stopped is not served.
ShownStatusIsReal ==
    \A s \in Sites : Known(s) /\ ~Busy(store[s]) /\ ~store[s].health =>
        /\ store[s].status = "running" => \A x \in Services : host[s].svc[x] = "running"
        /\ store[s].status = "stopped" => host[s].svc["wp"] # "running"

\* A backup the worker confirmed is listed under the right source, unless it
\* was deleted since: a lost answer never turns a safety backup into one that
\* retention removes, nor forgets it.
BackupRecorded ==
    \A s \in Sites :
        /\ Known(s) /\ receipt[s].kind = "backup" /\ receipt[s].state = "succeeded"
        /\ receipt[s].id \in host[s].backups
        /\ ~Busy(store[s])
        => /\ receipt[s].id \in Listed(store[s])
           /\ store[s].op.id = receipt[s].id =>
                \E k \in DOMAIN store[s].backups :
                    store[s].backups[k] = [id |-> receipt[s].id,
                                           source |-> Source(store[s].op.kind)]

\* While an update or a restore is executed, a safety backup of the site is
\* published, listed in sites.json, and the latest of its backups.
SafetyFirst ==
    task # NoTask /\ task.mode = "run" /\ task.kind \in {"update", "restore"} =>
        LET backups == store[task.site].backups
        IN  /\ backups # <<>>
            /\ backups[Len(backups)].source = "safety"
            /\ backups[Len(backups)].id \in host[task.site].backups

\* pruning after a scheduled backup removes scheduled backups only, and never
\* below the number to retain.
RetentionSpares ==
    [][\A s \in Sites, b \in Ids :
         /\ handler # NoHandler /\ handler.act = "scheduled" /\ handler.site = s
         /\ b \in host[s].backups \ host'[s].backups
         => /\ \E k \in DOMAIN store[s].backups :
                  store[s].backups[k] = [id |-> b, source |-> "scheduled"]
            /\ Len(Scheduled(store[s])) > Retention]_allVars

\* Retention recovers from one disturbance: however a run of the scheduler was
\* cut short, the next one prunes what it left.  At most one backup too many
\* is then listed between runs.
RetentionRecovers ==
    \A s \in Sites : OpsFree /\ Known(s) /\ ~Busy(store[s]) =>
        Len(Scheduled(store[s])) <= Retention + 1

\* A marker does not stay pending: once the faults are over, reconciliation
\* settles every operation.
MarkerResolved ==
    \A s \in Sites : (Known(s) /\ Busy(store[s])) ~> ~(Known(s) /\ Busy(store[s]))
=============================================================================
