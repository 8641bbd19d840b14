---------------------------- MODULE ConsoleProofs ----------------------------
(***************************************************************************)
(* The panel as its administrator uses it: proofs that pages offer what    *)
(* handlers accept, that a form acts on what its page showed, and that the *)
(* schedule and the mail settings of the site are those last saved, for    *)
(* any plans, interval, number of forms and time; and that a file script   *)
(* loses no file that it was not told to replace or delete.                *)
(***************************************************************************)
EXTENDS Console, FiniteSetTheorems, SequenceTheorems, TLAPS

-----------------------------------------------------------------------------
(* Types *)

IsSite(s) ==
    /\ s = [status |-> s.status, pending |-> s.pending, health |-> s.health, mail |-> s.mail,
            enabled |-> s.enabled, next |-> s.next, resources |-> s.resources,
            backups |-> s.backups]
    /\ s.status \in Statuses
    /\ s.next \in Nat

IsHost(h) ==
    h = [installed |-> h.installed, up |-> h.up, plugin |-> h.plugin, resources |-> h.resources]

\* opsMu is held by a call or by a script, never by both.
ConsoleTypeOK ==
    /\ IsSite(site)
    /\ IsHost(host)
    /\ mail = [enabled |-> mail.enabled, version |-> mail.version]
    /\ ids \in Nat /\ now \in Nat /\ faults \in Nat
    /\ task = [kind |-> task.kind, arg |-> task.arg, shown |-> task.shown]
    /\ receipt = [kind |-> receipt.kind, done |-> receipt.done, backups |-> receipt.backups]
    /\ scheduler = [waiting |-> scheduler.waiting, tick |-> scheduler.tick]
    /\ scheduler.tick \in Nat /\ scheduler.tick <= now
    /\ task.kind = "none" \/ script = Idle

\* A record with another value in a field.
LEMMA SiteWith ==
    ASSUME NEW s, IsSite(s)
    PROVE  /\ \A x \in Statuses : IsSite([s EXCEPT !.status = x])
           /\ \A x : IsSite([s EXCEPT !.pending = x]) /\ IsSite([s EXCEPT !.health = x])
           /\ \A x : IsSite([s EXCEPT !.mail = x]) /\ IsSite([s EXCEPT !.enabled = x])
           /\ \A x : IsSite([s EXCEPT !.resources = x]) /\ IsSite([s EXCEPT !.backups = x])
           /\ \A x \in Nat : IsSite([s EXCEPT !.next = x])
<1>1. ASSUME NEW x \in Statuses
      PROVE  IsSite([s EXCEPT !.status = x])
  BY DEF IsSite
<1>2. ASSUME NEW x
      PROVE  IsSite([s EXCEPT !.pending = x]) /\ IsSite([s EXCEPT !.health = x])
  BY DEF IsSite
<1>3. ASSUME NEW x
      PROVE  IsSite([s EXCEPT !.mail = x]) /\ IsSite([s EXCEPT !.enabled = x])
  BY DEF IsSite
<1>4. ASSUME NEW x
      PROVE  IsSite([s EXCEPT !.resources = x]) /\ IsSite([s EXCEPT !.backups = x])
  BY DEF IsSite
<1>5. ASSUME NEW x \in Nat
      PROVE  IsSite([s EXCEPT !.next = x])
  BY DEF IsSite
<1> QED
  BY <1>1, <1>2, <1>3, <1>4, <1>5

\* The record after a handler or the scheduler has saved it.
LEMMA SitesTyped ==
    ASSUME ConsoleTypeOK
    PROVE  /\ IsSite(NoSite)
           /\ \A t : IsSite(SiteAfter(t)) /\ \A s \in RecordsLeft(t) : IsSite(s) /\ IsSite(Failing(t, s))
           /\ IsSite(Reconciled) /\ IsSite(Postponed(site, "scheduled"))
<1>0. IsSite(site) /\ scheduler.tick + Interval \in Nat
  BY IntervalAssumption DEF ConsoleTypeOK
<1>1. IsSite(NoSite)
  BY DEF NoSite, IsSite, Statuses
<1>2. ASSUME NEW s, IsSite(s), NEW kind
      PROVE  IsSite(Postponed(s, kind))
  BY <1>0, <1>2 DEF Postponed, IsSite
<1>3. ASSUME NEW t
      PROVE  IsSite(SiteAfter(t))
  <2>1. PICK s : s = [site EXCEPT !.pending = FALSE, !.backups = @ \cup Taken(t.kind)]
    OBVIOUS
  <2>2. IsSite(s)
    BY <1>0, <2>1 DEF IsSite
  <2>3. /\ IsSite([s EXCEPT !.status = "running", !.health = FALSE])
        /\ IsSite([s EXCEPT !.status = "stopped", !.health = FALSE])
        /\ IsSite([s EXCEPT !.status = "running"])
        /\ IsSite([s EXCEPT !.resources = t.arg, !.health = FALSE])
    <3>1. "running" \in Statuses /\ "stopped" \in Statuses
      BY DEF Statuses
    <3>2. /\ IsSite([s EXCEPT !.status = "running"]) /\ IsSite([s EXCEPT !.status = "stopped"])
          /\ IsSite([s EXCEPT !.resources = t.arg])
      BY <2>2, <3>1, SiteWith
    <3> QED
      BY <3>2, SiteWith
  <2>4. IsSite(Postponed(s, "scheduled"))
    BY <1>2, <2>2
  <2> QED
    BY <1>1, <2>1, <2>2, <2>3, <2>4 DEF SiteAfter
<1>4. ASSUME NEW t, NEW s \in RecordsLeft(t)
      PROVE  IsSite(s) /\ IsSite(Failing(t, s))
  <2>1. PICK u : u = IF t.kind = "restore" THEN [site EXCEPT !.status = "stopped"] ELSE site
    OBVIOUS
  <2>2. IsSite(u)
    BY <1>0, <2>1 DEF IsSite, Statuses
  <2>3. IsSite([u EXCEPT !.backups = @ \cup Taken(t.kind)])
    BY <2>2, SiteWith
  <2>4. s \in {site, u, [u EXCEPT !.backups = @ \cup Taken(t.kind)]}
    BY <1>4, <2>1 DEF RecordsLeft
  <2>5. IsSite(s)
    BY <1>0, <2>2, <2>3, <2>4
  <2>6. IsSite([s EXCEPT !.status = "unhealthy"]) /\ IsSite([s EXCEPT !.status = "failed"])
    BY <2>5 DEF IsSite, Statuses
  <2>7. IsSite(Postponed(s, t.kind))
    BY <1>2, <2>5
  <2> QED
    BY <2>5, <2>6, <2>7 DEF Failing
<1>5. IsSite(Reconciled)
  <2>1. PICK s : s = [site EXCEPT !.pending = FALSE, !.health = FALSE,
                                  !.resources = IF host.installed THEN host.resources ELSE @]
    OBVIOUS
  <2>2. IsSite(s)
    BY <1>0, <2>1 DEF IsSite
  <2>3. IsSite([s EXCEPT !.status = "failed"])
    BY <2>2 DEF IsSite, Statuses
  <2>4. RuntimeStatus \in Statuses
    BY DEF RuntimeStatus, Statuses
  <2>5. PICK b : b = IF site.pending THEN receipt.backups ELSE {}
    OBVIOUS
  <2>6. IsSite([s EXCEPT !.status = RuntimeStatus, !.backups = @ \cup b])
    <3>1. PICK u : u = [s EXCEPT !.status = RuntimeStatus]
      OBVIOUS
    <3>2. IsSite(u) /\ u.backups = s.backups
      BY <2>2, <2>4, <3>1, SiteWith DEF IsSite
    <3>3. IsSite([u EXCEPT !.backups = s.backups \cup b])
      BY <3>2, SiteWith
    <3> QED
      BY <3>1, <3>3
  <2> QED
    BY <1>1, <2>1, <2>2, <2>3, <2>5, <2>6 DEF Reconciled
<1> QED
  BY <1>0, <1>1, <1>2, <1>3, <1>4, <1>5

\* What the calls make of the host.
LEMMA HostsTyped ==
    ASSUME ConsoleTypeOK, NEW t
    PROVE  /\ IsHost(NoHost) /\ IsHost(HostAfter(t)) /\ IsHost(MailAfterStart(HostAfter(t)))
           /\ \A h \in HostsBroken(t) : IsHost(h)
           /\ \A x : IsHost([host EXCEPT !.plugin = x])
<1>0. IsHost(host) /\ IsHost(NoHost)
  BY DEF ConsoleTypeOK, IsHost, NoHost
<1>1. ASSUME NEW h, IsHost(h), NEW x
      PROVE  /\ IsHost([h EXCEPT !.up = x]) /\ IsHost([h EXCEPT !.plugin = x])
             /\ IsHost([h EXCEPT !.resources = x]) /\ IsHost([h EXCEPT !.installed = x])
  BY <1>1 DEF IsHost
<1>2. IsHost(HostAfter(t))
  <2>1. IsHost([host EXCEPT !.installed = TRUE, !.up = TRUE, !.resources = site.resources])
    <3>1. IsHost([host EXCEPT !.installed = TRUE])
      BY <1>0, <1>1
    <3>2. IsHost([host EXCEPT !.installed = TRUE, !.up = TRUE])
      BY <1>1, <3>1
    <3> QED
      BY <1>1, <3>2
  <2>2. IsHost([host EXCEPT !.up = TRUE, !.plugin = t.arg.plugin])
    <3>1. IsHost([host EXCEPT !.up = TRUE])
      BY <1>0, <1>1
    <3> QED
      BY <1>1, <3>1
  <2>3. /\ IsHost([host EXCEPT !.resources = t.arg]) /\ IsHost([host EXCEPT !.up = TRUE])
        /\ IsHost([host EXCEPT !.up = FALSE])
    BY <1>0, <1>1
  <2> QED
    BY <1>0, <2>1, <2>2, <2>3 DEF HostAfter
<1>3. IsHost(MailAfterStart(HostAfter(t)))
  <2>1. PICK h : h = HostAfter(t)
    OBVIOUS
  <2>2. IsHost(h) /\ IsHost([h EXCEPT !.plugin = mail.version])
    BY <1>1, <1>2, <2>1
  <2> QED
    BY <2>1, <2>2 DEF MailAfterStart
<1>4. ASSUME NEW h \in HostsBroken(t)
      PROVE  IsHost(h)
  <2>1. PICK d : d = [host EXCEPT !.up = FALSE]
    OBVIOUS
  <2>2. IsHost(d) /\ IsHost([d EXCEPT !.resources = t.arg])
    BY <1>0, <1>1, <2>1
  <2>3. h \in {host, d, NoHost, [d EXCEPT !.resources = t.arg]}
    BY <1>4, <2>1 DEF HostsBroken
  <2> QED
    BY <1>0, <2>2, <2>3
<1> QED
  BY <1>0, <1>1, <1>2, <1>3, <1>4

\* A call takes one backup or none.
LEMMA TakenOne ==
    ASSUME NEW k
    PROVE  \/ Taken(k) = {} /\ Cardinality(Taken(k)) = 0
           \/ Taken(k) = {Snapshot} /\ Cardinality(Taken(k)) = 1
BY FS_EmptySet, FS_Singleton DEF Taken

\* What is left of an unfinished call is typed.
LEMMA UnconfirmedTyped ==
    ASSUME ConsoleTypeOK, NEW done \in BOOLEAN, Unconfirmed(done)
    PROVE  /\ IsHost(host') /\ ids' \in Nat
           /\ receipt' = [kind |-> receipt'.kind, done |-> receipt'.done,
                          backups |-> receipt'.backups]
<1>1. IsHost(host')
  BY HostsTyped DEF Unconfirmed
<1>2. ids' \in Nat
  BY TakenOne DEF Unconfirmed, ConsoleTypeOK
<1>3. PICK b : receipt' = [kind |-> task.kind, done |-> done, backups |-> b]
  BY DEF Unconfirmed
<1> QED
  BY <1>1, <1>2, <1>3

\* The mutex as the steps leave it.
LEMMA ReleasedTyped ==
    ASSUME ConsoleTypeOK, Released
    PROVE  /\ task' = [kind |-> task'.kind, arg |-> task'.arg, shown |-> task'.shown]
           /\ scheduler' = [waiting |-> scheduler'.waiting, tick |-> scheduler'.tick]
           /\ scheduler'.tick = scheduler.tick
           /\ task'.kind = "none"
BY DEF ConsoleTypeOK, Released, NoTask

\* A handler begins a call.
LEMMA CallTrackedTyped ==
    ASSUME ConsoleTypeOK, NEW k, NEW a, NEW b, CallTracked(k, a, b)
    PROVE  /\ IsSite(site')
           /\ task' = [kind |-> task'.kind, arg |-> task'.arg, shown |-> task'.shown]
           /\ receipt' = [kind |-> receipt'.kind, done |-> receipt'.done,
                          backups |-> receipt'.backups]
<1>1. IsSite([NoSite EXCEPT !.status = "creating", !.pending = TRUE, !.resources = a])
  <2>1. IsSite(NoSite) /\ "creating" \in Statuses
    BY SitesTyped DEF Statuses
  <2>2. IsSite([NoSite EXCEPT !.status = "creating"])
    BY <2>1, SiteWith
  <2>3. IsSite([NoSite EXCEPT !.status = "creating", !.pending = TRUE])
    BY <2>2, SiteWith
  <2> QED
    BY <2>3, SiteWith
<1>2. /\ IsSite([site EXCEPT !.status = "creating", !.pending = TRUE])
      /\ IsSite([site EXCEPT !.status = "deleting", !.pending = TRUE])
      /\ IsSite([site EXCEPT !.pending = TRUE])
  <2>1. IsSite(site) /\ "creating" \in Statuses /\ "deleting" \in Statuses
    BY DEF ConsoleTypeOK, Statuses
  <2>2. IsSite([site EXCEPT !.status = "creating"]) /\ IsSite([site EXCEPT !.status = "deleting"])
    BY <2>1, SiteWith
  <2> QED
    BY <2>1, <2>2, SiteWith
<1>3. IsSite(site')
  BY <1>1, <1>2 DEF CallTracked
<1> QED
  BY <1>3 DEF CallTracked, NoReceipt

\* Submitting a form.
LEMMA SubmitTyped ==
    ASSUME ConsoleTypeOK, SubmitForm
    PROVE  ConsoleTypeOK'
<1>1. PICK f \in page :
        \/ SubmitTracked(f) \/ DeleteBackup(f) \/ SaveBackupSchedule(f)
        \/ SetSiteMail(f) \/ SaveMailSettings(f) \/ ResourcePlansAction(f) \/ FileAction(f)
  BY DEF SubmitForm
<1>2. CASE SubmitTracked(f)
  <2>1. PICK k, a, b : CallTracked(k, a, b)
    BY <1>2 DEF SubmitTracked
  <2>2. UNCHANGED <<host, mail, ids, now, faults, scheduler, script>> /\ script = Idle
    BY <1>2, <2>1 DEF SubmitTracked, Submit, Unlocked, CallTracked, fileVars
  <2> QED
    BY <2>1, <2>2, CallTrackedTyped DEF ConsoleTypeOK, IsHost
<1>3. CASE DeleteBackup(f)
  <2>1. IsSite(site')
    BY <1>3, SiteWith DEF DeleteBackup, ConsoleTypeOK
  <2> QED
    BY <1>3, <2>1 DEF DeleteBackup, ConsoleTypeOK, IsHost, fileVars
<1>4. CASE SaveBackupSchedule(f)
  <2>1. PICK n : n = IF f[2] THEN now + Interval ELSE 0
    OBVIOUS
  <2>2. n \in Nat
    BY <2>1, IntervalAssumption DEF ConsoleTypeOK
  <2>3. IsSite([site EXCEPT !.enabled = f[2]])
    BY SiteWith DEF ConsoleTypeOK
  <2>4. IsSite([site EXCEPT !.enabled = f[2], !.next = n])
    BY <2>2, <2>3, SiteWith
  <2>5. IsSite(site')
    BY <1>4, <2>1, <2>4 DEF SaveBackupSchedule
  <2> QED
    BY <1>4, <2>5 DEF SaveBackupSchedule, ConsoleTypeOK, IsHost, fileVars
<1>5. CASE SetSiteMail(f)
  <2>1. IsHost(host')
    BY <1>5, HostsTyped DEF SetSiteMail, ConsoleTypeOK, IsHost
  <2>2. IsSite(site')
    BY <1>5, SiteWith DEF SetSiteMail, ConsoleTypeOK, IsSite
  <2>3. faults' \in Nat
    BY <1>5 DEF SetSiteMail, Fault, ConsoleTypeOK
  <2> QED
    BY <1>5, <2>1, <2>2, <2>3 DEF SetSiteMail, ConsoleTypeOK, fileVars
<1>6. CASE SaveMailSettings(f)
  <2>1. IsHost(host')
    BY <1>6, HostsTyped DEF SaveMailSettings, ConsoleTypeOK, IsHost
  <2>2. mail' = [enabled |-> mail'.enabled, version |-> mail'.version]
    BY <1>6 DEF SaveMailSettings, ConsoleTypeOK
  <2>3. faults' \in Nat
    BY <1>6 DEF SaveMailSettings, Fault, ConsoleTypeOK
  <2> QED
    BY <1>6, <2>1, <2>2, <2>3 DEF SaveMailSettings, ConsoleTypeOK, IsSite, fileVars
<1>7. CASE ResourcePlansAction(f)
  <2>1. ids' \in Nat
    BY <1>7 DEF ResourcePlansAction, ConsoleTypeOK
  <2> QED
    BY <1>7, <2>1 DEF ResourcePlansAction, ConsoleTypeOK, IsHost, IsSite, fileVars
<1>8. CASE FileAction(f)
  <2>1. task.kind = "none"
    BY <1>8 DEF FileAction, Submit, Unlocked
  <2> QED
    BY <1>8, <2>1 DEF FileAction, ConsoleTypeOK, IsHost, IsSite
<1> QED
  BY <1>1, <1>2, <1>3, <1>4, <1>5, <1>6, <1>7, <1>8

\* The records keep their shape and opsMu has one holder.
LEMMA TypedStep ==
    ASSUME ConsoleTypeOK, [ConsoleNext]_consoleVars
    PROVE  ConsoleTypeOK'
<1> USE DEF fileVars
<1>1. CASE OpenPage
  BY <1>1 DEF OpenPage, ConsoleTypeOK, IsHost, IsSite
<1>2. CASE SubmitForm
  BY <1>2, SubmitTyped
<1>3. CASE TaskSucceeds
  <2>1. IsSite(site')
    BY <1>3, SitesTyped DEF TaskSucceeds
  <2>2. IsHost(host')
    BY <1>3, HostsTyped DEF TaskSucceeds
  <2>3. ids' \in Nat /\ faults' \in Nat
    BY <1>3, TakenOne DEF TaskSucceeds, Fault, ConsoleTypeOK
  <2>4. Released /\ UNCHANGED <<mail, receipt, now, script>>
    BY <1>3 DEF TaskSucceeds
  <2> QED
    BY <2>1, <2>2, <2>3, <2>4, ReleasedTyped DEF ConsoleTypeOK
<1>4. CASE TaskFails
  <2>1. IsSite(site')
    BY <1>4, SitesTyped DEF TaskFails
  <2>2. faults' \in Nat
    BY <1>4 DEF TaskFails, Fault, ConsoleTypeOK
  <2>3. PICK done \in BOOLEAN : Unconfirmed(done)
    BY <1>4 DEF TaskFails
  <2>4. Released /\ UNCHANGED <<mail, now, script>>
    BY <1>4 DEF TaskFails
  <2> QED
    BY <2>1, <2>2, <2>3, <2>4, ReleasedTyped, UnconfirmedTyped DEF ConsoleTypeOK
<1>5. CASE Interrupt
  <2>1. IsSite(site')
    BY <1>5, SitesTyped DEF Interrupt
  <2>2. faults' \in Nat
    BY <1>5 DEF Interrupt, Fault, ConsoleTypeOK
  <2>3. /\ IsHost(host') /\ ids' \in Nat
        /\ receipt' = [kind |-> receipt'.kind, done |-> receipt'.done,
                       backups |-> receipt'.backups]
    <3>1. CASE task.kind = "none"
      BY <1>5, <3>1 DEF Interrupt, ConsoleTypeOK, IsHost
    <3>2. CASE task.kind # "none"
      <4>1. PICK done \in BOOLEAN : Unconfirmed(done)
        BY <1>5, <3>2 DEF Interrupt
      <4> QED
        BY <4>1, UnconfirmedTyped
    <3> QED
      BY <3>1, <3>2
  <2>4. /\ task' = [kind |-> task'.kind, arg |-> task'.arg, shown |-> task'.shown]
        /\ scheduler' = [waiting |-> scheduler'.waiting, tick |-> scheduler'.tick]
        /\ scheduler'.tick = scheduler.tick
        /\ task'.kind = "none"
    <3>1. CASE Released
      BY <3>1, ReleasedTyped
    <3>2. CASE task' = NoTask /\ scheduler' = [scheduler EXCEPT !.waiting = FALSE]
      BY <3>2 DEF ConsoleTypeOK, NoTask
    <3> QED
      BY <1>5, <3>1, <3>2 DEF Interrupt
  <2>5. UNCHANGED <<mail, now>>
    BY <1>5 DEF Interrupt
  <2> QED
    BY <2>1, <2>2, <2>3, <2>4, <2>5 DEF ConsoleTypeOK
<1>6. CASE Reconcile
  <2>1. IsSite(site')
    <3>1. IsSite(Reconciled) /\ IsSite([site EXCEPT !.health = TRUE])
      BY SitesTyped, SiteWith DEF ConsoleTypeOK
    <3>2. site' = Reconciled \/ site' = [site EXCEPT !.health = TRUE]
      BY <1>6 DEF Reconcile
    <3> QED
      BY <3>1, <3>2
  <2>2. receipt' = [kind |-> receipt'.kind, done |-> receipt'.done, backups |-> receipt'.backups]
    BY <1>6 DEF Reconcile, ConsoleTypeOK, NoReceipt
  <2>3. faults' \in Nat
    BY <1>6 DEF Reconcile, Fault, ConsoleTypeOK
  <2> QED
    BY <1>6, <2>1, <2>2, <2>3 DEF Reconcile, ConsoleTypeOK, IsHost
<1>7. CASE SchedulerTick
  BY <1>7 DEF SchedulerTick, ConsoleTypeOK, IsHost, IsSite
<1>8. CASE SchedulerRuns
  <2>1. scheduler.waiting /\ Unlocked /\ UNCHANGED <<ids, mail, now, script, host>>
    BY <1>8 DEF SchedulerRuns, CallTracked
  <2>2. CASE CallTracked("scheduled", <<>>, <<>>) /\ UNCHANGED <<scheduler, faults>>
    BY <2>1, <2>2, CallTrackedTyped DEF ConsoleTypeOK, IsHost, Unlocked
  <2>3. CASE scheduler' = [scheduler EXCEPT !.waiting = FALSE] /\ UNCHANGED <<task, receipt>>
    <3>1. IsSite(site')
      BY <1>8, SitesTyped, <2>3 DEF SchedulerRuns, ConsoleTypeOK, IsSite, CallTracked
    <3>2. faults' \in Nat
      BY <1>8 DEF SchedulerRuns, Fault, ConsoleTypeOK
    <3> QED
      BY <2>1, <2>3, <3>1, <3>2 DEF ConsoleTypeOK, IsHost
  <2> QED
    BY <1>8, <2>2, <2>3 DEF SchedulerRuns
<1>9. CASE FileStep
  <2>1. script # Idle
    BY <1>9 DEF FileStep, ScriptStep, WriteTemporary, Act, Idle
  <2> QED
    BY <1>9, <2>1 DEF FileStep, ConsoleTypeOK, IsHost, IsSite
<1>10. CASE WordPress
  BY <1>10 DEF WordPress, ConsoleTypeOK, IsHost, IsSite
<1>11. CASE ClockTick
  BY <1>11 DEF ClockTick, ConsoleTypeOK, IsHost, IsSite
<1>12. CASE UNCHANGED consoleVars
  BY <1>12 DEF consoleVars, ConsoleTypeOK, IsHost, IsSite
<1> QED
  BY <1>1, <1>2, <1>3, <1>4, <1>5, <1>6, <1>7, <1>8, <1>9, <1>10, <1>11, <1>12
     DEF ConsoleNext, SchedulerStep

\* At the start.
LEMMA TypedInit ==
    ConsoleInit => ConsoleTypeOK
<1> SUFFICES ASSUME ConsoleInit PROVE ConsoleTypeOK
  OBVIOUS
<1>1. IsSite(NoSite) /\ IsSite(site)
  <2>1. PICK s : s = [NoSite EXCEPT !.status = "running"]
    OBVIOUS
  <2>2. IsSite(NoSite)
    BY DEF IsSite, NoSite, Statuses
  <2>3. IsSite(s)
    BY <2>1, <2>2, SiteWith DEF Statuses
  <2>4. IsSite([s EXCEPT !.mail = TRUE])
    BY <2>3, SiteWith
  <2> QED
    BY <2>1, <2>2, <2>4 DEF ConsoleInit
<1>2. IsHost(host)
  BY DEF IsHost, NoHost, ConsoleInit
<1> QED
  BY <1>1, <1>2 DEF ConsoleInit, ConsoleTypeOK, NoTask, NoReceipt, FileInit

-----------------------------------------------------------------------------
(* Pages and handlers *)

\* A plan that a page offers, and the resources it shows for it.
Offered(f) ==
    \/ \E r \in Resources : f[2] = <<"plan", r>> /\ f[3] = r
    \/ \E p \in plans : f[2] = <<"saved", p.id>> /\ f[3] = p.resources

\* What the pages show, for a site with a record and without.
LEMMA OffersOfPages ==
    ASSUME NEW name \in PageNames, NEW dir, NEW f \in Page(View(name, dir))
    PROVE  \/ f[1] \in Elsewhere \cup {"settings-mail", "plan-add"}
           \/ f[1] = "plan-delete" /\ \E p \in plans : p.id = f[2]
           \/ name = "new" /\ f[1] = "create" /\ Offered(f)
           \/ /\ site.status # "none"
              /\ \/ /\ f[1] \in {"stop", "start", "database-start"} /\ ~site.pending
                 \/ f[1] \in {"backup", "update", "mail-enable", "mail-disable"}
                    /\ ~site.pending /\ site.status = "running"
                 \/ f[1] = "retry" /\ ~site.pending /\ site.status = "failed"
                 \/ f[1] = "resources" /\ ~site.pending /\ ~site.health
                    /\ site.status \in {"running", "stopped"} /\ Offered(f)
                 \/ f[1] \in {"backup-schedule", "delete"}
                 \/ f[1] \in {"restore", "backup-delete"} /\ f[2] \in site.backups
                 \/ f[1] \in {"upload", "mkdir", "file-delete", "file-move"}
                    /\ site.status = "running"
<1>1. PICK v : v = View(name, dir)
  OBVIOUS
<1>2. /\ v.loggedIn /\ v.page = name /\ v.site = site /\ v.plans = plans
      /\ f \in Page(v)
  BY <1>1 DEF View
<1>3. CASE name = "files"
  <2>1. site.status = "running" /\ f \in FilesPage(v)
    BY <1>2, <1>3 DEF Page, When
  <2>2. f \in Sidebar \/ f \in FileManagerDialogs(v)
    BY <2>1 DEF FilesPage
  <2>3. ASSUME f \in Sidebar PROVE f[1] \in Elsewhere
    BY <2>3 DEF Sidebar, LanguageSwitcher, Elsewhere
  <2>4. ASSUME f \in FileManagerDialogs(v)
        PROVE  f[1] \in {"upload", "mkdir", "file-delete", "file-move"}
    BY <2>4 DEF FileManagerDialogs
  <2> QED
    BY <2>1, <2>2, <2>3, <2>4
<1>4. CASE name # "files"
  <2>1. f \in AppShell(v)
    BY <1>2, <1>4 DEF Page, When
  <2>2. \/ f \in Sidebar \/ f \in Sites(v) \/ f \in SettingsPage(v)
        \/ name = "new" /\ f \in NewSite(v)
    BY <1>2, <2>1 DEF AppShell, When
  <2>6. ASSUME NEW action, NEW o \in ResourceFields(v), f = <<action, o[1], o[2]>>
        PROVE  Offered(f)
    <3>1. CASE \E r \in Resources : o = <<<<"plan", r>>, r>>
      BY <2>6, <3>1 DEF Offered
    <3>2. CASE \E p \in plans : o = <<<<"saved", p.id>>, p.resources>>
      BY <2>6, <3>2 DEF Offered
    <3> QED
      BY <1>2, <3>1, <3>2 DEF ResourceFields
  <2>7. CASE name = "new" /\ f \in NewSite(v)
    <3>1. PICK o \in ResourceFields(v) : f = <<"create", o[1], o[2]>>
      BY <2>7 DEF NewSite, When
    <3> QED
      BY <2>6, <2>7, <3>1
  <2>3. CASE f \in Sidebar
    BY <2>3 DEF Sidebar, LanguageSwitcher, Elsewhere
  <2>4. CASE f \in SettingsPage(v)
    BY <1>2, <2>4 DEF SettingsPage, ResourcePlanSettings
  <2>5. CASE f \in Sites(v)
    <3>1. CASE f = <<"reconcile">>
      BY <3>1 DEF Elsewhere
    <3>2. CASE site.status # "none" /\ f \in SiteCard(v)
      <4>1. \/ f \in {<<"stop">>, <<"start">>} /\ Settled(site)
            \/ f \in SiteWorkspace(v)
        BY <1>2, <3>2 DEF SiteCard, When
      <4>2. CASE f \in {<<"stop">>, <<"start">>} /\ Settled(site)
        BY <3>2, <4>2 DEF Settled
      <4>3. CASE f \in SiteWorkspace(v)
        <5>1. \/ f \in {<<"backup">>, <<"update">>, <<"database-start">>}
                 /\ site.status = "running" /\ Settled(site)
              \/ f = <<"retry">> /\ site.status = "failed" /\ ~site.pending
              \/ f \in SiteResourcesForm(v)
              \/ f \in BackupSchedule \/ f \in BackupList(site)
              \/ f \in SiteMail(site) \/ f \in DeleteSite
          BY <1>2, <4>3 DEF SiteWorkspace, When
        <5>2. CASE f \in {<<"backup">>, <<"update">>, <<"database-start">>}
                   /\ site.status = "running" /\ Settled(site)
          BY <3>2, <5>2 DEF Settled
        <5>3. CASE f = <<"retry">> /\ site.status = "failed" /\ ~site.pending
          BY <3>2, <5>3
        <5>4. CASE f \in SiteResourcesForm(v)
          <6>1. /\ ~site.pending /\ ~site.health /\ site.status \in {"running", "stopped"}
                /\ \E o \in ResourceFields(v) : f = <<"resources", o[1], o[2]>>
            BY <1>2, <5>4 DEF SiteResourcesForm, When, Settled
          <6>2. PICK o \in ResourceFields(v) : f = <<"resources", o[1], o[2]>>
            BY <6>1
          <6>3. Offered(f)
            BY <2>6, <6>2
          <6> QED
            BY <3>2, <6>1, <6>2, <6>3
        <5>5. CASE f \in BackupSchedule \/ f \in DeleteSite
          BY <3>2, <5>5 DEF BackupSchedule, DeleteSite
        <5>6. CASE f \in BackupList(site)
          <6>1. PICK b \in site.backups : f \in {<<"restore", b>>, <<"backup-delete", b>>}
            BY <5>6 DEF BackupList, BackupConfirmDialog
          <6>2. f[2] = b /\ f[1] \in {"restore", "backup-delete"}
            BY <6>1
          <6> QED
            BY <3>2, <6>1, <6>2
        <5>7. CASE f \in SiteMail(site)
          BY <3>2, <5>7 DEF SiteMail, When, Settled
        <5> QED
          BY <5>1, <5>2, <5>3, <5>4, <5>5, <5>6, <5>7
      <4> QED
        BY <4>1, <4>2, <4>3
    <3> QED
      BY <1>2, <2>5, <3>1, <3>2 DEF Sites, When
  <2> QED
    BY <2>2, <2>3, <2>4, <2>5, <2>7
<1> QED
  BY <1>3, <1>4

\* Whatever has become of the site, a fresh page offers what its handler accepts.
LEMMA OffersFromTypes ==
    ConsoleTypeOK => OffersAccepted
<1> SUFFICES ASSUME ConsoleTypeOK,
                    NEW name \in PageNames \ {"new"}, NEW f \in Page(View(name, <<>>))
             PROVE  \/ Accepts(f)
                    \/ f[1] \in Unconditional /\ site.pending
                    \/ f[1] = "restore" /\ site.status \in {"creating", "failed", "deleting"}
                    \/ f[1] = "mail-enable" /\ ~mail.enabled
                    \/ f[1] = "plan-add"
  BY DEF OffersAccepted
<1>1. site.status \in Statuses
  BY DEF ConsoleTypeOK, IsSite
<1>2. CASE f[1] \in Elsewhere \cup {"settings-mail", "plan-add"}
  BY <1>2 DEF Accepts, Elsewhere
<1>3. CASE f[1] = "plan-delete" /\ \E p \in plans : p.id = f[2]
  BY <1>3 DEF Accepts, PlanAccepts
<1>4. ASSUME site.status # "none", SiteAccepts(f), f[1] \notin Elsewhere \cup {"settings-mail"},
             f[1] \notin {"plan-add", "plan-delete", "create"}
      PROVE  Accepts(f)
  BY <1>4 DEF Accepts
<1>5. CASE f[1] \in {"stop", "start", "database-start"} /\ ~site.pending /\ site.status # "none"
  <2>1. SiteAccepts(f)
    BY <1>5 DEF SiteAccepts
  <2> QED
    BY <1>4, <1>5, <2>1 DEF Elsewhere
<1>6. CASE f[1] \in {"backup", "update", "mail-enable", "mail-disable"}
           /\ ~site.pending /\ site.status = "running"
  <2>1. CASE f[1] \in {"backup", "update"}
    <3>1. SiteAccepts(f)
      BY <1>6, <2>1 DEF SiteAccepts
    <3> QED
      BY <1>4, <1>6, <2>1, <3>1 DEF Elsewhere
  <2>2. CASE f[1] = "mail-disable"
    <3>1. SiteAccepts(f)
      BY <1>6, <2>2 DEF SiteAccepts
    <3> QED
      BY <1>4, <1>6, <2>2, <3>1 DEF Elsewhere
  <2>3. CASE f[1] = "mail-enable" /\ mail.enabled
    <3>1. SiteAccepts(f)
      BY <1>6, <2>3 DEF SiteAccepts
    <3> QED
      BY <1>4, <1>6, <2>3, <3>1 DEF Elsewhere
  <2> QED
    BY <1>6, <2>1, <2>2, <2>3
<1>7. CASE f[1] = "retry" /\ ~site.pending /\ site.status = "failed"
  <2>1. SiteAccepts(f)
    BY <1>7 DEF SiteAccepts
  <2> QED
    BY <1>4, <1>7, <2>1 DEF Elsewhere
<1>8. CASE f[1] = "resources" /\ ~site.pending /\ ~site.health
           /\ site.status \in {"running", "stopped"} /\ Offered(f)
  <2>1. FormResources(f[2]) # {}
    <3>1. CASE \E r \in Resources : f[2] = <<"plan", r>> /\ f[3] = r
      BY <3>1 DEF FormResources
    <3>2. CASE \E p \in plans : f[2] = <<"saved", p.id>> /\ f[3] = p.resources
      <4>1. PICK p \in plans : f[2] = <<"saved", p.id>>
        BY <3>2
      <4>2. p.resources \in FormResources(f[2])
        BY <4>1 DEF FormResources
      <4> QED
        BY <4>2
    <3> QED
      BY <1>8, <3>1, <3>2 DEF Offered
  <2>2. SiteAccepts(f)
    BY <1>8, <2>1 DEF SiteAccepts
  <2> QED
    BY <1>4, <1>8, <2>2 DEF Elsewhere
<1>9. CASE f[1] \in {"backup-schedule", "delete"} /\ site.status # "none"
  <2>1. SiteAccepts(f) \/ site.pending
    BY <1>9 DEF SiteAccepts
  <2> QED
    BY <1>4, <1>9, <2>1 DEF Elsewhere, Unconditional
<1>10. CASE f[1] \in {"restore", "backup-delete"} /\ f[2] \in site.backups /\ site.status # "none"
  <2>0. f[2] \in Known(f[2])
    BY <1>10 DEF Known
  <2>1. \/ SiteAccepts(f) \/ site.pending
        \/ f[1] = "restore" /\ site.status \in {"creating", "failed", "deleting"}
    BY <1>1, <1>10, <2>0 DEF SiteAccepts, Statuses
  <2> QED
    BY <1>4, <1>10, <2>1 DEF Elsewhere, Unconditional
<1>11. CASE f[1] \in {"upload", "mkdir", "file-delete", "file-move"} /\ site.status = "running"
  <2>1. SiteAccepts(f) \/ site.pending
    BY <1>11 DEF SiteAccepts
  <2> QED
    BY <1>4, <1>11, <2>1 DEF Elsewhere, Unconditional
<1> QED
  BY OffersOfPages, <1>2, <1>3, <1>5, <1>6, <1>7, <1>8, <1>9, <1>10, <1>11

-----------------------------------------------------------------------------
(* What the calls save *)

\* The record that a confirmed call saves.
LEMMA SiteAfterIs ==
    ASSUME ConsoleTypeOK, NEW t
    PROVE  /\ t.kind = "delete" => SiteAfter(t) = NoSite
           /\ t.kind # "delete" =>
                /\ ~SiteAfter(t).pending
                /\ SiteAfter(t).mail = site.mail /\ SiteAfter(t).enabled = site.enabled
                /\ SiteAfter(t).backups = site.backups \cup Taken(t.kind)
                /\ SiteAfter(t).next =
                     IF t.kind = "scheduled" THEN scheduler.tick + Interval ELSE site.next
                /\ SiteAfter(t).status =
                     IF t.kind \in {"create", "retry", "start", "restore"} THEN "running"
                     ELSE IF t.kind = "stop" THEN "stopped" ELSE site.status
<1>1. PICK s : s = [site EXCEPT !.pending = FALSE, !.backups = @ \cup Taken(t.kind)]
  OBVIOUS
<1>2. /\ s = [status |-> s.status, pending |-> s.pending, health |-> s.health, mail |-> s.mail,
              enabled |-> s.enabled, next |-> s.next, resources |-> s.resources,
              backups |-> s.backups]
      /\ ~s.pending /\ s.mail = site.mail /\ s.enabled = site.enabled /\ s.status = site.status
      /\ s.backups = site.backups \cup Taken(t.kind) /\ s.next = site.next
  BY <1>1 DEF ConsoleTypeOK, IsSite
<1>3. CASE t.kind = "delete"
  BY <1>3 DEF SiteAfter
<1>4. CASE t.kind \in {"create", "retry", "start"}
  <2>1. SiteAfter(t) = [s EXCEPT !.status = "running", !.health = FALSE]
    BY <1>1, <1>4 DEF SiteAfter
  <2> QED
    BY <1>2, <1>4, <2>1
<1>5. CASE t.kind = "stop"
  <2>1. SiteAfter(t) = [s EXCEPT !.status = "stopped", !.health = FALSE]
    BY <1>1, <1>5 DEF SiteAfter
  <2> QED
    BY <1>2, <1>5, <2>1
<1>6. CASE t.kind = "restore"
  <2>1. SiteAfter(t) = [s EXCEPT !.status = "running"]
    BY <1>1, <1>6 DEF SiteAfter
  <2> QED
    BY <1>2, <1>6, <2>1
<1>7. CASE t.kind = "resources"
  <2>1. SiteAfter(t) = [s EXCEPT !.resources = t.arg, !.health = FALSE]
    BY <1>1, <1>7 DEF SiteAfter
  <2> QED
    BY <1>2, <1>7, <2>1
<1>8. CASE t.kind = "scheduled"
  <2>1. SiteAfter(t) = [s EXCEPT !.next = scheduler.tick + Interval]
    BY <1>1, <1>8 DEF SiteAfter, Postponed
  <2> QED
    BY <1>2, <1>8, <2>1
<1>9. CASE t.kind \notin {"delete", "create", "retry", "start", "stop", "restore", "resources",
                          "scheduled"}
  <2>1. SiteAfter(t) = s
    BY <1>1, <1>9 DEF SiteAfter
  <2> QED
    BY <1>2, <1>9, <2>1
<1> QED
  BY <1>3, <1>4, <1>5, <1>6, <1>7, <1>8, <1>9

\* The host after a confirmed call.
LEMMA HostAfterIs ==
    ASSUME ConsoleTypeOK, NEW t
    PROVE  /\ t.kind \in {"create", "retry"} => HostAfter(t).installed /\ HostAfter(t).up
           /\ t.kind \in {"start", "restore"} =>
                HostAfter(t).installed = host.installed /\ HostAfter(t).up
           /\ t.kind = "stop" => HostAfter(t).installed = host.installed /\ ~HostAfter(t).up
           /\ t.kind \notin {"create", "retry", "delete", "start", "stop", "restore"} =>
                HostAfter(t).installed = host.installed /\ HostAfter(t).up = host.up
           /\ t.kind \notin {"delete", "restore"} => HostAfter(t).plugin = host.plugin
<1>1. IsHost(host)
  BY DEF ConsoleTypeOK
<1>2. CASE t.kind \in {"create", "retry"}
  BY <1>1, <1>2 DEF HostAfter, IsHost
<1>3. CASE t.kind = "resources"
  BY <1>1, <1>3 DEF HostAfter, IsHost
<1>4. CASE t.kind = "start"
  BY <1>1, <1>4 DEF HostAfter, IsHost
<1>5. CASE t.kind = "stop"
  BY <1>1, <1>5 DEF HostAfter, IsHost
<1>6. CASE t.kind = "restore"
  BY <1>1, <1>6 DEF HostAfter, IsHost
<1>7. CASE t.kind \notin {"create", "retry", "resources", "start", "stop", "restore"}
  BY <1>7 DEF HostAfter
<1> QED
  BY <1>2, <1>3, <1>4, <1>5, <1>6, <1>7

-----------------------------------------------------------------------------
(* Mail *)

\* The status of a record is what the host does.
Real(s, h) ==
    /\ s.status \in {"running", "stopped"}
    /\ h.installed
    /\ s.status = "running" => h.up
    /\ s.status = "stopped" => ~h.up

\* As long as nothing has failed, no marker outlives its call.
Smooth ==
    /\ task.kind = "none" => ~site.pending
    /\ task.kind # "retry"
    /\ task.kind = "create" => site.status = "creating" /\ ~site.mail
    /\ task.kind = "delete" => site.status = "deleting"
    /\ task.kind = "none" => site.status = "none" \/ Real(site, host)
    /\ task.kind \notin {"none", "create", "delete"} => Real(site, host)

\* The plugin of a site that runs is the one last saved.
Current ==
    ~restored /\ site.status = "running" /\ site.mail /\ mail.enabled => host.plugin = mail.version

MailInv == faults = 0 => Smooth /\ Current

\* A call succeeds.
LEMMA MailSucceeds ==
    ASSUME ConsoleTypeOK, MailInv, TaskSucceeds, faults' = 0
    PROVE  Smooth' /\ Current'
<1>1. faults = 0 /\ (task.kind = "start" /\ site.mail /\ mail.enabled =>
                       host' = MailAfterStart(HostAfter(task)))
      /\ (~(task.kind = "start" /\ site.mail /\ mail.enabled) => host' = HostAfter(task))
  BY DEF TaskSucceeds, Fault, ConsoleTypeOK
<1>2. Smooth /\ Current
  BY <1>1 DEF MailInv
<1>3. /\ task.kind # "none" /\ task'.kind = "none" /\ site' = SiteAfter(task) /\ mail' = mail
      /\ restored' = CASE task.kind = "restore" -> TRUE
                       [] (task.kind = "start" /\ site.mail /\ mail.enabled)
                          \/ task.kind = "delete"
                            -> FALSE
                       [] OTHER -> restored
  BY ReleasedTyped DEF TaskSucceeds
<1>4. /\ host'.installed = HostAfter(task).installed /\ host'.up = HostAfter(task).up
      /\ ~(task.kind = "start" /\ site.mail /\ mail.enabled) => host'.plugin = HostAfter(task).plugin
      /\ task.kind = "start" /\ site.mail /\ mail.enabled => host'.plugin = mail.version
  BY <1>1, HostsTyped DEF MailAfterStart, IsHost
<1>5. CASE task.kind = "delete"
  <2>1. site' = NoSite
    BY <1>3, <1>5, SiteAfterIs
  <2> QED
    BY <1>3, <2>1 DEF Smooth, Current, NoSite
<1>6. CASE task.kind # "delete"
  <2>1. /\ ~site'.pending /\ site'.mail = site.mail
        /\ site'.status = IF task.kind \in {"create", "retry", "start", "restore"} THEN "running"
                          ELSE IF task.kind = "stop" THEN "stopped" ELSE site.status
    BY <1>3, <1>6, SiteAfterIs
  <2>2. Real(site, host)'
    <3>1. CASE task.kind = "create"
      BY <1>4, <2>1, <3>1, HostAfterIs DEF Real
    <3>2. CASE task.kind \in {"start", "restore"}
      <4>1. host.installed
        BY <1>2, <3>2 DEF Smooth, Real
      <4>2. HostAfter(task).installed /\ HostAfter(task).up
        BY <3>2, <4>1, HostAfterIs
      <4> QED
        BY <1>4, <2>1, <3>2, <4>2 DEF Real
    <3>3. CASE task.kind = "stop"
      <4>1. host.installed
        BY <1>2, <3>3 DEF Smooth, Real
      <4>2. HostAfter(task).installed /\ ~HostAfter(task).up
        BY <3>3, <4>1, HostAfterIs
      <4> QED
        BY <1>4, <2>1, <3>3, <4>2 DEF Real
    <3>4. CASE task.kind \notin {"create", "start", "restore", "stop"}
      <4>1. Real(site, host) /\ task.kind # "retry"
        BY <1>2, <1>3, <1>6, <3>4 DEF Smooth
      <4>2. HostAfter(task).installed = host.installed /\ HostAfter(task).up = host.up
        BY <1>6, <3>4, <4>1, HostAfterIs
      <4>3. site'.status = site.status
        BY <2>1, <3>4, <4>1
      <4> QED
        BY <1>4, <4>1, <4>2, <4>3 DEF Real
    <3> QED
      BY <3>1, <3>2, <3>3, <3>4
  <2>3. Current'
    <3>1. CASE task.kind = "create"
      BY <1>2, <2>1, <3>1 DEF Smooth, Current
    <3>2. CASE task.kind = "restore"
      BY <1>3, <3>2 DEF Current
    <3>3. CASE task.kind = "start"
      BY <1>3, <1>4, <2>1, <3>3 DEF Current
    <3>4. CASE task.kind = "stop"
      BY <2>1, <3>4 DEF Current
    <3>5. CASE task.kind \notin {"create", "start", "restore", "stop"}
      <4>1. task.kind # "retry"
        BY <1>2 DEF Smooth
      <4>2. site'.status = site.status /\ restored' = restored
        <5>1. site'.status = site.status
          BY <2>1, <3>5, <4>1
        <5>2. restored' = restored
          BY <1>3, <1>6, <3>5
        <5> QED
          BY <5>1, <5>2
      <4>3. host'.plugin = host.plugin
        BY <1>4, <1>6, <3>5, HostAfterIs
      <4>4. mail' = mail /\ site'.mail = site.mail
        BY <1>3, <2>1
      <4> QED
        BY <1>2, <4>2, <4>3, <4>4 DEF Current
    <3> QED
      BY <3>1, <3>2, <3>3, <3>4, <3>5
  <2> QED
    BY <1>3, <2>1, <2>2, <2>3 DEF Smooth
<1> QED
  BY <1>5, <1>6

\* A handler or the scheduler begins a call.
LEMMA MailCalled ==
    ASSUME ConsoleTypeOK, Smooth, Current, NEW k, NEW a, NEW b, CallTracked(k, a, b),
           task.kind = "none", k # "none", k # "retry",
           k # "create" => site.status # "none"
    PROVE  Smooth' /\ Current'
<1>1. task'.kind = k /\ UNCHANGED <<host, mail, restored>>
  BY DEF CallTracked
<1>2. CASE k = "create"
  <2>1. site'.status = "creating" /\ ~site'.mail
    BY <1>2 DEF CallTracked, NoSite
  <2> QED
    BY <1>1, <1>2, <2>1 DEF Smooth, Current
<1>3. CASE k = "delete"
  <2>1. site'.status = "deleting"
    BY <1>3 DEF CallTracked, ConsoleTypeOK, IsSite
  <2> QED
    BY <1>1, <1>3, <2>1 DEF Smooth, Current
<1>4. CASE k \notin {"create", "delete"}
  <2>1. site'.status = site.status /\ site'.mail = site.mail
    BY <1>4 DEF CallTracked, ConsoleTypeOK, IsSite
  <2>2. Real(site, host)
    BY <1>4 DEF Smooth
  <2>3. Real(site, host)'
    BY <1>1, <2>1, <2>2 DEF Real
  <2>4. Current'
    BY <1>1, <2>1 DEF Current
  <2> QED
    BY <1>1, <1>4, <2>3, <2>4 DEF Smooth
<1> QED
  BY <1>2, <1>3, <1>4

\* A step that leaves the mail, the host and the status as they are.
LEMMA MailKept ==
    ASSUME Smooth, Current, task'.kind = task.kind, UNCHANGED <<host, mail, restored>>,
           site'.status = site.status, site'.pending = site.pending, site'.mail = site.mail
    PROVE  Smooth' /\ Current'
<1>1. Real(site, host) => Real(site, host)'
  BY DEF Real
<1>2. Smooth'
  BY <1>1 DEF Smooth
<1>3. Current'
  BY DEF Current
<1> QED
  BY <1>2, <1>3

\* Submitting a form.
LEMMA MailSubmits ==
    ASSUME ConsoleTypeOK, MailInv, SubmitForm, faults' = 0
    PROVE  Smooth' /\ Current'
<1>0. PICK f \in page :
        \/ SubmitTracked(f) \/ DeleteBackup(f) \/ SaveBackupSchedule(f)
        \/ SetSiteMail(f) \/ SaveMailSettings(f) \/ ResourcePlansAction(f) \/ FileAction(f)
  BY DEF SubmitForm
<1>1. faults = 0
  BY <1>0 DEF SubmitTracked, DeleteBackup, SaveBackupSchedule, SetSiteMail, SaveMailSettings,
              ResourcePlansAction, FileAction, Fault, ConsoleTypeOK
<1>2. Smooth /\ Current
  BY <1>1 DEF MailInv
<1>3. CASE SubmitTracked(f)
  <2>1. task.kind = "none" /\ Accepts(f) /\ f[1] \in Tracked
    BY <1>3 DEF SubmitTracked, Submit, Unlocked
  <2>2. PICK a, b : CallTracked(f[1], a, b)
    BY <1>3 DEF SubmitTracked
  <2>3. f[1] # "create" => SiteAccepts(f)
    BY <2>1 DEF Accepts, Elsewhere, Tracked
  <2>4. f[1] # "retry"
    <3>1. f[1] = "retry" => site.status = "failed"
      BY <2>3 DEF SiteAccepts
    <3> QED
      BY <1>2, <2>1, <3>1 DEF Smooth, Real
  <2>5. f[1] # "none" /\ (f[1] # "create" => site.status # "none")
    BY <2>1, <2>3 DEF Tracked, SiteAccepts
  <2> QED
    BY <1>2, <2>1, <2>2, <2>4, <2>5, MailCalled
<1>4. CASE DeleteBackup(f)
  <2>1. site'.status = site.status /\ site'.pending = site.pending /\ site'.mail = site.mail
    BY <1>4 DEF DeleteBackup, ConsoleTypeOK, IsSite
  <2> QED
    BY <1>2, <1>4, <2>1, MailKept DEF DeleteBackup
<1>5. CASE SaveBackupSchedule(f)
  <2>1. site'.status = site.status /\ site'.pending = site.pending /\ site'.mail = site.mail
    BY <1>5 DEF SaveBackupSchedule, ConsoleTypeOK, IsSite
  <2> QED
    BY <1>2, <1>5, <2>1, MailKept DEF SaveBackupSchedule
<1>6. CASE SetSiteMail(f)
  <2>1. /\ host' = [host EXCEPT !.plugin = Plugin(f[1] = "mail-enable")] /\ mail' = mail
        /\ site' = [site EXCEPT !.mail = (f[1] = "mail-enable")] /\ task' = task
    BY <1>1, <1>6 DEF SetSiteMail, Fault, ConsoleTypeOK
  <2>2. /\ site'.status = site.status /\ site'.pending = site.pending
        /\ site'.mail = (f[1] = "mail-enable")
        /\ host'.installed = host.installed /\ host'.up = host.up
        /\ host'.plugin = Plugin(f[1] = "mail-enable")
    BY <2>1 DEF ConsoleTypeOK, IsSite, IsHost
  <2>3. Real(site, host) => Real(site, host)'
    BY <2>2 DEF Real
  <2>4. Current'
    BY <2>1, <2>2 DEF Current, Plugin
  <2>5. task.kind # "create"
    BY <1>6 DEF SetSiteMail, Submit, Unlocked
  <2> QED
    BY <1>2, <2>1, <2>2, <2>3, <2>4, <2>5 DEF Smooth
<1>7. CASE SaveMailSettings(f)
  <2>1. /\ mail' = [enabled |-> f[2], version |-> mail.version + 1] /\ UNCHANGED <<site, task>>
        /\ \/ Reached /\ host' = [host EXCEPT !.plugin = Plugin(f[2])]
           \/ ~Reached /\ host' = host
    BY <1>1, <1>7 DEF SaveMailSettings, Fault, ConsoleTypeOK
  <2>2. task.kind = "none"
    BY <1>7 DEF SaveMailSettings, Submit, Unlocked
  <2>3. host'.installed = host.installed /\ host'.up = host.up
    BY <2>1 DEF ConsoleTypeOK, IsHost
  <2>4. Real(site, host) => Real(site, host)'
    BY <2>1, <2>3 DEF Real
  <2>5. Smooth'
    BY <1>2, <2>1, <2>4 DEF Smooth
  <2>6. Current'
    <3>1. CASE Reached
      <4>1. mail'.enabled = f[2] /\ host'.plugin = Plugin(f[2])
        BY <2>1, <3>1 DEF ConsoleTypeOK, IsHost
      <4> QED
        BY <4>1 DEF Current, Plugin
    <3>2. CASE ~Reached
      <4>1. ~(site.status = "running" /\ site.mail)
        BY <1>2, <2>2, <3>2 DEF Reached, Smooth
      <4> QED
        BY <2>1, <4>1 DEF Current
    <3> QED
      BY <3>1, <3>2
  <2> QED
    BY <2>5, <2>6
<1>8. CASE ResourcePlansAction(f)
  BY <1>2, <1>8, MailKept DEF ResourcePlansAction
<1>9. CASE FileAction(f)
  BY <1>2, <1>9, MailKept DEF FileAction
<1> QED
  BY <1>0, <1>3, <1>4, <1>5, <1>6, <1>7, <1>8, <1>9

\* Every other step.
LEMMA MailStep ==
    ASSUME ConsoleTypeOK, MailInv, [ConsoleNext]_consoleVars
    PROVE  MailInv'
<1> SUFFICES ASSUME faults' = 0 PROVE Smooth' /\ Current'
  BY DEF MailInv
<1>1. CASE SubmitForm
  BY <1>1, MailSubmits
<1>2. CASE TaskSucceeds
  BY <1>2, MailSucceeds
<1>3. CASE TaskFails
  <2>1. task.kind = "start" /\ ~host.installed /\ faults = 0
    BY <1>3 DEF TaskFails, Fault, ConsoleTypeOK
  <2> QED
    BY <2>1 DEF MailInv, Smooth, Real
<1>4. CASE Interrupt
  BY <1>4 DEF Interrupt, Fault, ConsoleTypeOK
<1>5. CASE Reconcile
  <2>1. /\ faults = 0 /\ site' = Reconciled /\ site.status # "none" /\ task.kind = "none"
        /\ UNCHANGED <<host, mail, task, restored>>
    BY <1>5 DEF Reconcile, Fault, ConsoleTypeOK, Unlocked
  <2>2. Smooth /\ Current /\ Real(site, host) /\ ~site.pending
    BY <2>1 DEF MailInv, Smooth
  <2>3. RuntimeStatus = site.status
    BY <2>2 DEF RuntimeStatus, Real
  <2>4. site'.status = site.status /\ ~site'.pending /\ site'.mail = site.mail
    <3>1. PICK s : s = [site EXCEPT !.pending = FALSE, !.health = FALSE,
                                    !.resources = IF host.installed THEN host.resources ELSE @]
      OBVIOUS
    <3>2. IsSite(s) /\ ~s.pending /\ s.mail = site.mail
      BY <3>1 DEF ConsoleTypeOK, IsSite
    <3>3. PICK b : site' = [s EXCEPT !.status = RuntimeStatus, !.backups = b]
      BY <2>1, <2>2, <3>1 DEF Reconciled, Real
    <3> QED
      BY <2>3, <3>2, <3>3 DEF IsSite
  <2>5. Real(site, host)'
    BY <2>1, <2>2, <2>4 DEF Real
  <2> QED
    BY <2>1, <2>2, <2>4, <2>5 DEF Smooth, Current
<1>6. CASE SchedulerRuns
  <2>1. task.kind = "none" /\ faults = 0
    BY <1>6 DEF SchedulerRuns, Unlocked, Fault, ConsoleTypeOK
  <2>2. Smooth /\ Current
    BY <2>1 DEF MailInv
  <2>3. CASE Wanted /\ CallTracked("scheduled", <<>>, <<>>)
    <3>1. site.status # "none"
      BY <2>3 DEF Wanted
    <3> QED
      BY <2>1, <2>2, <2>3, <3>1, MailCalled
  <2>4. CASE site' \in {site, Postponed(site, "scheduled")} /\ UNCHANGED <<task, host, mail, restored>>
    <3>1. site'.status = site.status /\ site'.pending = site.pending /\ site'.mail = site.mail
      BY <2>4 DEF Postponed, ConsoleTypeOK, IsSite
    <3> QED
      BY <2>2, <2>4, <3>1, MailKept
  <2> QED
    BY <1>6, <2>3, <2>4 DEF SchedulerRuns
<1>7. CASE OpenPage \/ SchedulerTick \/ FileStep \/ WordPress \/ ClockTick \/ UNCHANGED consoleVars
  <2>1. UNCHANGED <<site, host, mail, task, restored, faults>>
    BY <1>7 DEF OpenPage, SchedulerTick, FileStep, WordPress, ClockTick, consoleVars
  <2> QED
    BY <2>1, MailKept DEF MailInv
<1> QED
  BY <1>1, <1>2, <1>3, <1>4, <1>5, <1>6, <1>7 DEF ConsoleNext, SchedulerStep

\* At the start.
LEMMA MailStart ==
    ConsoleInit => MailInv
<1> SUFFICES ASSUME ConsoleInit PROVE Smooth /\ Current
  BY DEF MailInv
<1>1. task.kind = "none" /\ site.status = "running" /\ ~site.pending
  BY DEF ConsoleInit, NoTask, NoSite
<1>2. host.installed /\ host.up /\ host.plugin = 1 /\ mail.version = 1
  BY DEF ConsoleInit, NoHost
<1> QED
  BY <1>1, <1>2 DEF Smooth, Current, Real

-----------------------------------------------------------------------------
(* What a form acts on *)

\* The backups that the record has or may still get.
Backups == site.backups \cup receipt.backups

\* An identifier is given once: to one backup or to one plan, which never changes.
Distinct ==
    /\ \A b \in Backups : b.id \in Nat /\ b.id <= ids
    /\ \A b, c \in Backups : b.id = c.id => b = c
    /\ \A p \in plans : p.id \in Nat /\ p.id <= ids
    /\ \A p, q \in plans : p.id = q.id => p = q

\* What a form, of whatever age, says of a backup that is still there.
RestoreTrue(f) ==
    /\ f[2].id \in Nat /\ f[2].id <= ids
    /\ \A b \in Backups : b.id = f[2].id => b = f[2]

\* What it says of a plan that is still there.
PlanTrue(f) ==
    /\ f[2][1] # "saved" => f[3] = f[2][2]
    /\ f[2][1] = "saved" => /\ f[2][2] \in Nat /\ f[2][2] <= ids
                            /\ \A p \in plans : p.id = f[2][2] => p.resources = f[3]

PagesTrue ==
    \A f \in page : /\ f[1] = "restore" => RestoreTrue(f)
                    /\ f[1] \in {"create", "resources"} => PlanTrue(f)

ShownInv == Distinct /\ PagesTrue /\ SubmittedAsShown

\* A step that leaves the pages and adds at most one backup, under a new number.
LEMMA BackupsGrow ==
    ASSUME ConsoleTypeOK, Distinct, PagesTrue, UNCHANGED <<page, plans>>,
           \/ ids' = ids /\ Backups' \subseteq Backups
           \/ ids' = ids + 1 /\ Backups' \subseteq Backups \cup {Snapshot}
    PROVE  Distinct' /\ PagesTrue'
<1>1. ids \in Nat /\ Snapshot.id = ids + 1
  BY DEF ConsoleTypeOK, Snapshot
<1>2. ids' \in Nat /\ ids <= ids'
  BY <1>1
<1>3. ASSUME NEW b \in Backups' PROVE b \in Backups \/ (b.id = ids + 1 /\ b = Snapshot /\ ids' = ids + 1)
  BY <1>1
<1>4. \A b \in Backups : b.id \in Nat /\ b.id <= ids
  BY DEF Distinct
<1>5. \A b \in Backups' : b.id \in Nat /\ b.id <= ids'
  BY <1>1, <1>2, <1>3, <1>4
<1>6. ASSUME NEW b \in Backups', NEW c \in Backups', b.id = c.id PROVE b = c
  BY <1>1, <1>3, <1>4, <1>6 DEF Distinct
<1>7. /\ \A p \in plans' : p.id \in Nat /\ p.id <= ids'
      /\ \A p, q \in plans' : p.id = q.id => p = q
  BY <1>1, <1>2 DEF Distinct
<1>8. Distinct'
  BY <1>5, <1>6, <1>7 DEF Distinct
<1>9. ASSUME NEW f \in page', f[1] = "restore" PROVE RestoreTrue(f)'
  <2>1. RestoreTrue(f)
    BY <1>9 DEF PagesTrue
  <2>2. f[2].id \in Nat /\ f[2].id <= ids'
    BY <1>1, <1>2, <2>1 DEF RestoreTrue
  <2>3. ASSUME NEW b \in Backups', b.id = f[2].id PROVE b = f[2]
    BY <1>1, <1>3, <2>1, <2>3 DEF RestoreTrue
  <2> QED
    BY <2>2, <2>3 DEF RestoreTrue
<1>10. ASSUME NEW f \in page', f[1] \in {"create", "resources"} PROVE PlanTrue(f)'
  <2>1. PlanTrue(f)
    BY <1>10 DEF PagesTrue
  <2> QED
    BY <1>1, <1>2, <2>1 DEF PlanTrue
<1> QED
  BY <1>8, <1>9, <1>10 DEF PagesTrue

\* A plan is added or deleted.
LEMMA PlansChange ==
    ASSUME ConsoleTypeOK, Distinct, PagesTrue, NEW f, ResourcePlansAction(f)
    PROVE  Distinct' /\ PagesTrue'
<1>1. ids \in Nat /\ UNCHANGED <<page, site, receipt>>
  BY DEF ConsoleTypeOK, ResourcePlansAction
<1>2. PICK n : n.id = ids + 1 /\ (\/ ids' = ids + 1 /\ plans' \subseteq plans \cup {n}
                                  \/ ids' = ids /\ plans' \subseteq plans)
  <2>1. CASE f[1] = "plan-add"
    <3>1. PICK r : plans' = plans \cup {[id |-> FreshPlan, name |-> f[2], resources |-> r]}
                   /\ ids' = ids + 1
      BY <2>1 DEF ResourcePlansAction
    <3>2. PICK n : n = [id |-> FreshPlan, name |-> f[2], resources |-> r]
      OBVIOUS
    <3> QED
      BY <3>1, <3>2 DEF FreshPlan
  <2>2. CASE f[1] = "plan-delete"
    <3>1. ids' = ids /\ plans' \subseteq plans
      BY <2>2 DEF ResourcePlansAction
    <3>2. PICK n : n = [id |-> ids + 1]
      OBVIOUS
    <3> QED
      BY <3>1, <3>2
  <2> QED
    BY <2>1, <2>2 DEF ResourcePlansAction
<1>3. ids' \in Nat /\ ids <= ids' /\ Backups' = Backups
  BY <1>1, <1>2 DEF Backups
<1>4. ASSUME NEW p \in plans' PROVE p \in plans \/ (p = n /\ p.id = ids + 1 /\ ids' = ids + 1)
  BY <1>2
<1>5. \A p \in plans : p.id \in Nat /\ p.id <= ids
  BY DEF Distinct
<1>6. \A p \in plans' : p.id \in Nat /\ p.id <= ids'
  BY <1>1, <1>3, <1>4, <1>5
<1>7. ASSUME NEW p \in plans', NEW q \in plans', p.id = q.id PROVE p = q
  BY <1>1, <1>4, <1>5, <1>7 DEF Distinct
<1>8. Distinct'
  BY <1>1, <1>3, <1>6, <1>7 DEF Distinct
<1>9. ASSUME NEW g \in page', g[1] = "restore" PROVE RestoreTrue(g)'
  <2>1. RestoreTrue(g)
    BY <1>1, <1>9 DEF PagesTrue
  <2> QED
    BY <1>1, <1>3, <2>1 DEF RestoreTrue
<1>10. ASSUME NEW g \in page', g[1] \in {"create", "resources"} PROVE PlanTrue(g)'
  <2>1. PlanTrue(g)
    BY <1>1, <1>10 DEF PagesTrue
  <2>2. ASSUME g[2][1] = "saved"
        PROVE  /\ g[2][2] \in Nat /\ g[2][2] <= ids'
               /\ \A p \in plans' : p.id = g[2][2] => p.resources = g[3]
    <3>1. /\ g[2][2] \in Nat /\ g[2][2] <= ids
          /\ \A p \in plans : p.id = g[2][2] => p.resources = g[3]
      BY <2>1, <2>2 DEF PlanTrue
    <3> QED
      BY <1>1, <1>3, <1>4, <3>1
  <2> QED
    BY <2>1, <2>2 DEF PlanTrue
<1> QED
  BY <1>8, <1>9, <1>10 DEF PagesTrue

\* The record after a failure has at most one backup more.
LEMMA LeftBackups ==
    ASSUME ConsoleTypeOK, NEW t, NEW s \in RecordsLeft(t)
    PROVE  /\ s.backups \subseteq site.backups \cup Taken(t.kind)
           /\ Failing(t, s).backups = s.backups
<1>1. PICK u : u = IF t.kind = "restore" THEN [site EXCEPT !.status = "stopped"] ELSE site
  OBVIOUS
<1>2. u.backups = site.backups /\ IsSite(u)
  BY <1>1 DEF ConsoleTypeOK, IsSite, Statuses
<1>3. s \in {site, u, [u EXCEPT !.backups = @ \cup Taken(t.kind)]}
  BY <1>1 DEF RecordsLeft
<1>4. s.backups \subseteq site.backups \cup Taken(t.kind)
  BY <1>2, <1>3 DEF IsSite
<1>5. IsSite(s)
  BY SitesTyped
<1>6. Failing(t, s).backups = s.backups
  <2>1. /\ [s EXCEPT !.status = "unhealthy"].backups = s.backups
        /\ [s EXCEPT !.status = "failed"].backups = s.backups
    BY <1>5 DEF IsSite
  <2>2. Postponed(s, t.kind).backups = s.backups
    BY <1>5 DEF Postponed, IsSite
  <2> QED
    BY <2>1, <2>2 DEF Failing
<1> QED
  BY <1>4, <1>6

\* An unfinished call uses its number once, for the record and for the receipt.
LEMMA UnconfirmedGrows ==
    ASSUME ConsoleTypeOK, NEW done \in BOOLEAN, Unconfirmed(done),
           site'.backups \subseteq site.backups \cup Taken(task.kind)
    PROVE  \/ ids' = ids /\ Backups' \subseteq Backups
           \/ ids' = ids + 1 /\ Backups' \subseteq Backups \cup {Snapshot}
<1>1. PICK b \in Receipted(task, done) :
        receipt' = [kind |-> task.kind, done |-> done, backups |-> b]
  BY DEF Unconfirmed
<1>2. b \subseteq Taken(task.kind)
  BY <1>1 DEF Receipted
<1>3. Backups' \subseteq Backups \cup Taken(task.kind)
  BY <1>1, <1>2 DEF Backups
<1>4. ids \in Nat /\ ids' = ids + Cardinality(Taken(task.kind))
  BY DEF Unconfirmed, ConsoleTypeOK
<1> QED
  BY <1>3, <1>4, TakenOne

\* A call begins with the backups of the record, and with no receipt.
LEMMA CallBackups ==
    ASSUME ConsoleTypeOK, NEW k, NEW a, NEW b, CallTracked(k, a, b)
    PROVE  Backups' \subseteq Backups
<1>1. \/ site' = [NoSite EXCEPT !.status = "creating", !.pending = TRUE, !.resources = a]
      \/ site' = [site EXCEPT !.status = "creating", !.pending = TRUE]
      \/ site' = [site EXCEPT !.status = "deleting", !.pending = TRUE]
      \/ site' = [site EXCEPT !.pending = TRUE]
  BY DEF CallTracked
<1>2. [NoSite EXCEPT !.status = "creating", !.pending = TRUE, !.resources = a].backups = {}
  BY DEF NoSite
<1>3. site'.backups \subseteq site.backups
  BY <1>1, <1>2 DEF ConsoleTypeOK, IsSite
<1>4. receipt'.backups = {}
  BY DEF CallTracked, NoReceipt
<1> QED
  BY <1>3, <1>4 DEF Backups

\* Every step adds at most one backup, under a number that was not used.
LEMMA BackupsStep ==
    ASSUME ConsoleTypeOK, [ConsoleNext]_consoleVars
    PROVE  \/ ids' = ids /\ Backups' \subseteq Backups
           \/ ids' = ids + 1 /\ Backups' \subseteq Backups \cup {Snapshot}
<1>1. CASE SubmitForm
  <2>1. PICK f \in page :
          \/ SubmitTracked(f) \/ DeleteBackup(f) \/ SaveBackupSchedule(f)
          \/ SetSiteMail(f) \/ SaveMailSettings(f) \/ ResourcePlansAction(f) \/ FileAction(f)
    BY <1>1 DEF SubmitForm
  <2>2. CASE SubmitTracked(f)
    <3>1. PICK k, a, b : CallTracked(k, a, b)
      BY <2>2 DEF SubmitTracked
    <3> QED
      BY <2>2, <3>1, CallBackups DEF SubmitTracked
  <2>3. CASE ResourcePlansAction(f)
    BY <2>3 DEF ResourcePlansAction, Backups
  <2>4. CASE DeleteBackup(f) \/ SaveBackupSchedule(f) \/ SetSiteMail(f) \/ SaveMailSettings(f)
             \/ FileAction(f)
    <3>1. UNCHANGED <<ids, receipt>>
      BY <2>4 DEF DeleteBackup, SaveBackupSchedule, SetSiteMail, SaveMailSettings, FileAction
    <3>2. site'.backups \subseteq site.backups
      <4>1. CASE DeleteBackup(f)
        BY <4>1 DEF DeleteBackup, ConsoleTypeOK, IsSite
      <4>2. CASE SaveBackupSchedule(f)
        BY <4>2 DEF SaveBackupSchedule, ConsoleTypeOK, IsSite
      <4>3. CASE SetSiteMail(f)
        BY <4>3 DEF SetSiteMail, ConsoleTypeOK, IsSite
      <4>4. CASE SaveMailSettings(f) \/ FileAction(f)
        BY <4>4 DEF SaveMailSettings, FileAction
      <4> QED
        BY <2>4, <4>1, <4>2, <4>3, <4>4
    <3> QED
      BY <3>1, <3>2 DEF Backups
  <2> QED
    BY <2>1, <2>2, <2>3, <2>4
<1>3. CASE TaskSucceeds
  <2>1. /\ site' = SiteAfter(task) /\ UNCHANGED receipt
        /\ ids' = ids + Cardinality(Taken(task.kind))
    BY <1>3 DEF TaskSucceeds
  <2>2. site'.backups \subseteq site.backups \cup Taken(task.kind)
    BY <2>1, SiteAfterIs DEF NoSite
  <2>3. Backups' \subseteq Backups \cup Taken(task.kind) /\ ids \in Nat
    BY <2>1, <2>2 DEF Backups, ConsoleTypeOK
  <2> QED
    BY <2>1, <2>3, TakenOne
<1>4. CASE TaskFails
  <2>1. PICK done \in BOOLEAN : Unconfirmed(done)
    BY <1>4 DEF TaskFails
  <2>2. PICK s \in RecordsLeft(task) : site' = Failing(task, s)
    BY <1>4 DEF TaskFails
  <2>3. site'.backups \subseteq site.backups \cup Taken(task.kind)
    BY <2>2, LeftBackups
  <2> QED
    BY <2>1, <2>3, UnconfirmedGrows
<1>5. CASE Interrupt
  <2>1. site' \in RecordsLeft(task)
    BY <1>5 DEF Interrupt
  <2>2. site'.backups \subseteq site.backups \cup Taken(task.kind)
    BY <2>1, LeftBackups
  <2>3. CASE task.kind = "none"
    <3>1. UNCHANGED <<receipt, ids>> /\ Taken(task.kind) = {}
      BY <1>5, <2>3 DEF Interrupt, Taken
    <3> QED
      BY <2>2, <3>1 DEF Backups
  <2>4. CASE task.kind # "none"
    <3>1. PICK done \in BOOLEAN : Unconfirmed(done)
      BY <1>5, <2>4 DEF Interrupt
    <3> QED
      BY <2>2, <3>1, UnconfirmedGrows
  <2> QED
    BY <2>3, <2>4
<1>6. CASE Reconcile
  <2>1. UNCHANGED ids
    BY <1>6 DEF Reconcile
  <2>2. CASE site' = Reconciled /\ receipt' = NoReceipt
    <3>1. PICK s : s = [site EXCEPT !.pending = FALSE, !.health = FALSE,
                                    !.resources = IF host.installed THEN host.resources ELSE @]
      OBVIOUS
    <3>2. IsSite(s) /\ s.backups = site.backups
      BY <3>1 DEF ConsoleTypeOK, IsSite
    <3>3. PICK b : b = (IF site.pending THEN receipt.backups ELSE {})
      OBVIOUS
    <3>4. \/ site' = NoSite \/ site' = [s EXCEPT !.status = "failed"] \/ site' = s
          \/ site' = [s EXCEPT !.status = RuntimeStatus, !.backups = @ \cup b]
      BY <2>2, <3>1, <3>3 DEF Reconciled
    <3>5. [s EXCEPT !.status = RuntimeStatus, !.backups = @ \cup b].backups = s.backups \cup b
      BY <3>2 DEF IsSite
    <3>6. site'.backups \subseteq Backups
      <4>1. [s EXCEPT !.status = "failed"].backups = s.backups /\ NoSite.backups = {}
        BY <3>2 DEF IsSite, NoSite
      <4>2. b \subseteq receipt.backups
        BY <3>3
      <4>3. site'.backups \in {{}, site.backups, site.backups \cup b}
        BY <3>2, <3>4, <3>5, <4>1
      <4> QED
        BY <4>2, <4>3 DEF Backups
    <3>7. Backups' \subseteq Backups
      BY <2>2, <3>6 DEF Backups, NoReceipt
    <3> QED
      BY <2>1, <3>7
  <2>3. CASE site' = [site EXCEPT !.health = TRUE] /\ UNCHANGED receipt
    <3>1. Backups' \subseteq Backups
      BY <2>3 DEF Backups, ConsoleTypeOK, IsSite
    <3> QED
      BY <2>1, <3>1
  <2> QED
    BY <1>6, <2>2, <2>3 DEF Reconcile
<1>7. CASE SchedulerRuns
  <2>1. UNCHANGED ids
    BY <1>7 DEF SchedulerRuns
  <2>2. CASE CallTracked("scheduled", <<>>, <<>>)
    BY <2>1, <2>2, CallBackups
  <2>3. CASE site' \in {site, Postponed(site, "scheduled")} /\ UNCHANGED receipt
    <3>1. site'.backups = site.backups
      BY <2>3 DEF Postponed, ConsoleTypeOK, IsSite
    <3> QED
      BY <2>1, <2>3, <3>1 DEF Backups
  <2> QED
    BY <1>7, <2>2, <2>3 DEF SchedulerRuns
<1>8. CASE OpenPage \/ SchedulerTick \/ FileStep \/ WordPress \/ ClockTick
           \/ UNCHANGED consoleVars
  <2>1. UNCHANGED <<site, receipt, ids>>
    BY <1>8 DEF OpenPage, SchedulerTick, FileStep, WordPress, ClockTick, consoleVars
  <2> QED
    BY <2>1 DEF Backups
<1> QED
  BY <1>1, <1>3, <1>4, <1>5, <1>6, <1>7, <1>8 DEF ConsoleNext, SchedulerStep

\* A call acts on what was shown.
LEMMA SubmitShown ==
    ASSUME ConsoleTypeOK, ShownInv, NEW f \in page, SubmitTracked(f)
    PROVE  UNCHANGED <<page, plans>> /\ SubmittedAsShown'
<1>1. PICK a, b : CallTracked(f[1], a, b) /\ a = b
  <2>1. CASE f[1] \in {"create", "resources"}
    <3>1. PICK r \in FormResources(f[2]) : CallTracked(f[1], r, f[3])
      BY <2>1 DEF SubmitTracked
    <3>2. PlanTrue(f)
      BY <2>1 DEF ShownInv, PagesTrue
    <3>3. r = f[3]
      BY <3>2 DEF FormResources, PlanTrue
    <3> QED
      BY <3>1, <3>3
  <2>2. CASE f[1] = "restore"
    <3>1. PICK b \in Known(f[2]) : CallTracked("restore", b, f[2])
      BY <2>2 DEF SubmitTracked
    <3>2. RestoreTrue(f)
      BY <2>2 DEF ShownInv, PagesTrue
    <3>3. b = f[2]
      BY <3>2 DEF Known, RestoreTrue, Backups
    <3> QED
      BY <2>2, <3>1, <3>3
  <2>3. CASE f[1] \notin {"create", "resources", "restore"}
    BY <2>3 DEF SubmitTracked
  <2> QED
    BY <2>1, <2>2, <2>3
<1>2. task'.arg = task'.shown /\ UNCHANGED <<page, plans>>
  BY <1>1 DEF CallTracked
<1> QED
  BY <1>2 DEF SubmittedAsShown

\* A page opens with what is there.
LEMMA OpenShown ==
    ASSUME ConsoleTypeOK, ShownInv, OpenPage
    PROVE  ShownInv'
<1>1. PICK name \in PageNames, dir \in Directories :
        page' = page \cup {f \in Page(View(name, dir)) : f[1] \in habit}
  BY DEF OpenPage
<1>2. UNCHANGED <<site, receipt, plans, ids, task>>
  BY DEF OpenPage
<1>3. Distinct' /\ SubmittedAsShown' /\ Backups' = Backups
  BY <1>2 DEF ShownInv, Distinct, SubmittedAsShown, Backups
<1>4. ASSUME NEW f \in Page(View(name, dir)), f[1] = "restore" PROVE RestoreTrue(f)
  <2>1. f[2] \in site.backups
    BY <1>4, OffersOfPages DEF Elsewhere
  <2>2. f[2] \in Backups
    BY <2>1 DEF Backups
  <2> QED
    BY <2>2 DEF ShownInv, Distinct, RestoreTrue
<1>5. ASSUME NEW f \in Page(View(name, dir)), f[1] \in {"create", "resources"} PROVE PlanTrue(f)
  <2>1. Offered(f)
    BY <1>5, OffersOfPages DEF Elsewhere
  <2>2. CASE \E r \in Resources : f[2] = <<"plan", r>> /\ f[3] = r
    BY <2>2 DEF PlanTrue
  <2>3. CASE \E p \in plans : f[2] = <<"saved", p.id>> /\ f[3] = p.resources
    BY <2>3 DEF PlanTrue, ShownInv, Distinct
  <2> QED
    BY <2>1, <2>2, <2>3 DEF Offered
<1>6. ASSUME NEW f \in page'
      PROVE  /\ f[1] = "restore" => RestoreTrue(f)
             /\ f[1] \in {"create", "resources"} => PlanTrue(f)
  BY <1>1, <1>4, <1>5 DEF ShownInv, PagesTrue
<1>7. ASSUME NEW f PROVE (RestoreTrue(f) => RestoreTrue(f)') /\ (PlanTrue(f) => PlanTrue(f)')
  BY <1>2, <1>3 DEF RestoreTrue, PlanTrue
<1>8. PagesTrue'
  BY <1>6, <1>7 DEF PagesTrue
<1> QED
  BY <1>3, <1>8 DEF ShownInv

\* Every step.
LEMMA ShownStep ==
    ASSUME ConsoleTypeOK, ShownInv, [ConsoleNext]_consoleVars
    PROVE  ShownInv'
<1> USE DEF ShownInv
<1>0. ASSUME UNCHANGED <<page, plans>>, SubmittedAsShown'
      PROVE  ShownInv'
  BY <1>0, BackupsGrow, BackupsStep
<1>1. CASE OpenPage
  BY <1>1, OpenShown
<1>2. CASE SubmitForm
  <2>1. PICK f \in page :
          \/ SubmitTracked(f) \/ DeleteBackup(f) \/ SaveBackupSchedule(f)
          \/ SetSiteMail(f) \/ SaveMailSettings(f) \/ ResourcePlansAction(f) \/ FileAction(f)
    BY <1>2 DEF SubmitForm
  <2>2. CASE SubmitTracked(f)
    BY <1>0, <2>2, SubmitShown
  <2>3. CASE ResourcePlansAction(f)
    BY <2>3, PlansChange DEF ResourcePlansAction, SubmittedAsShown
  <2>4. CASE DeleteBackup(f) \/ SaveBackupSchedule(f) \/ SetSiteMail(f) \/ SaveMailSettings(f)
             \/ FileAction(f)
    <3>1. UNCHANGED <<page, plans, task>>
      BY <2>4 DEF DeleteBackup, SaveBackupSchedule, SetSiteMail, SaveMailSettings, FileAction
    <3> QED
      BY <1>0, <3>1 DEF SubmittedAsShown
  <2> QED
    BY <2>1, <2>2, <2>3, <2>4
<1>3. CASE TaskSucceeds \/ TaskFails \/ Interrupt
  <2>1. UNCHANGED <<page, plans>> /\ task' = NoTask
    BY <1>3 DEF TaskSucceeds, TaskFails, Interrupt, Released
  <2> QED
    BY <1>0, <2>1 DEF SubmittedAsShown, NoTask
<1>4. CASE SchedulerRuns
  <2>1. UNCHANGED <<page, plans>>
    BY <1>4 DEF SchedulerRuns, CallTracked
  <2>2. task' = task \/ task'.arg = task'.shown
    BY <1>4 DEF SchedulerRuns, CallTracked
  <2> QED
    BY <1>0, <2>1, <2>2 DEF SubmittedAsShown
<1>5. CASE Reconcile \/ SchedulerTick \/ FileStep \/ WordPress \/ ClockTick
           \/ UNCHANGED consoleVars
  <2>1. UNCHANGED <<plans, page, task>>
    BY <1>5 DEF Reconcile, SchedulerTick, FileStep, WordPress, ClockTick, consoleVars
  <2> QED
    BY <1>0, <2>1 DEF SubmittedAsShown
<1> QED
  BY <1>1, <1>2, <1>3, <1>4, <1>5 DEF ConsoleNext, SchedulerStep

\* At the start.
LEMMA ShownStart ==
    ConsoleInit => ShownInv
<1> SUFFICES ASSUME ConsoleInit PROVE ShownInv
  OBVIOUS
<1>1. site.backups = {} /\ receipt.backups = {} /\ task.arg = task.shown
  BY DEF ConsoleInit, NoSite, NoReceipt, NoTask
<1>2. plans = {} /\ page = {}
  BY DEF ConsoleInit
<1> QED
  BY <1>1, <1>2 DEF ShownInv, Distinct, PagesTrue, SubmittedAsShown, Backups

-----------------------------------------------------------------------------
(* The backup schedule *)

\* A due time is never before the time from which a backup is wanted; while the
\* scheduler makes one, its now is the one it was started with.
DueInv ==
    /\ task.kind = "scheduled" => scheduler.waiting
    /\ faults = 0 =>
         /\ site.enabled /\ task.kind # "scheduled" => notBefore \in Nat /\ notBefore <= site.next
         /\ task.kind = "scheduled" => notBefore = scheduler.tick + Interval

\* A step that leaves the schedule as it is.
LEMMA DueKept ==
    ASSUME DueInv, UNCHANGED <<task, scheduler, notBefore>>,
           faults' = 0 => faults = 0 /\ (~site'.enabled \/ (/\ site'.enabled = site.enabled
                                                            /\ site'.next = site.next))
    PROVE  DueInv'
BY DEF DueInv

\* Every step.
LEMMA DueStep ==
    ASSUME ConsoleTypeOK, MailInv, DueInv, [ConsoleNext]_consoleVars
    PROVE  DueInv'
<1>0. Interval \in Nat \ {0} /\ scheduler.tick \in Nat /\ IsSite(site) /\ now \in Nat
  BY IntervalAssumption DEF ConsoleTypeOK
<1>1. CASE SubmitForm
  <2>1. PICK f \in page :
          \/ SubmitTracked(f) \/ DeleteBackup(f) \/ SaveBackupSchedule(f)
          \/ SetSiteMail(f) \/ SaveMailSettings(f) \/ ResourcePlansAction(f) \/ FileAction(f)
    BY <1>1 DEF SubmitForm
  <2>2. CASE SubmitTracked(f)
    <3>1. PICK k, a, b : CallTracked(k, a, b) /\ k = f[1]
      BY <2>2 DEF SubmitTracked
    <3>2. task'.kind # "scheduled" /\ task.kind # "scheduled" /\ UNCHANGED <<notBefore, faults>>
      BY <2>2, <3>1 DEF SubmitTracked, Submit, Unlocked, CallTracked, Tracked
    <3>3. ~site'.enabled \/ (site'.enabled = site.enabled /\ site'.next = site.next)
      <4>1. \/ site' = [NoSite EXCEPT !.status = "creating", !.pending = TRUE, !.resources = a]
            \/ site' = [site EXCEPT !.status = "creating", !.pending = TRUE]
            \/ site' = [site EXCEPT !.status = "deleting", !.pending = TRUE]
            \/ site' = [site EXCEPT !.pending = TRUE]
        BY <3>1 DEF CallTracked
      <4>2. ~[NoSite EXCEPT !.status = "creating", !.pending = TRUE, !.resources = a].enabled
        BY DEF NoSite
      <4> QED
        BY <1>0, <4>1, <4>2 DEF IsSite
    <3> QED
      BY <3>2, <3>3 DEF DueInv
  <2>3. CASE SaveBackupSchedule(f)
    <3>1. /\ task.kind = "none" /\ UNCHANGED <<task, faults, scheduler>>
          /\ site' = [site EXCEPT !.enabled = f[2], !.next = IF f[2] THEN now + Interval ELSE 0]
          /\ notBefore' = IF f[2] THEN now + Interval ELSE Never
      BY <2>3 DEF SaveBackupSchedule, Submit, Unlocked
    <3>2. site'.enabled = f[2] /\ site'.next = IF f[2] THEN now + Interval ELSE 0
      BY <1>0, <3>1 DEF IsSite
    <3>3. site'.enabled => notBefore' = site'.next /\ notBefore' \in Nat
      BY <1>0, <3>1, <3>2
    <3> QED
      BY <3>1, <3>3 DEF DueInv
  <2>4. CASE DeleteBackup(f)
    <3>1. site'.enabled = site.enabled /\ site'.next = site.next
      BY <1>0, <2>4 DEF DeleteBackup, IsSite
    <3> QED
      BY <2>4, <3>1, DueKept DEF DeleteBackup
  <2>5. CASE SetSiteMail(f)
    <3>1. site'.enabled = site.enabled /\ site'.next = site.next
      BY <1>0, <2>5 DEF SetSiteMail, IsSite
    <3>2. faults' = 0 => faults = 0
      BY <2>5 DEF SetSiteMail, Fault, ConsoleTypeOK
    <3> QED
      BY <2>5, <3>1, <3>2, DueKept DEF SetSiteMail
  <2>6. CASE SaveMailSettings(f) \/ ResourcePlansAction(f) \/ FileAction(f)
    <3>1. UNCHANGED <<site, task, scheduler, notBefore>> /\ (faults' = 0 => faults = 0)
      BY <2>6 DEF SaveMailSettings, ResourcePlansAction, FileAction, Fault, ConsoleTypeOK
    <3> QED
      BY <3>1, DueKept
  <2> QED
    BY <2>1, <2>2, <2>3, <2>4, <2>5, <2>6
<1>2. CASE TaskSucceeds
  <2>1. /\ task'.kind = "none" /\ site' = SiteAfter(task) /\ notBefore' = notBefore
        /\ faults' = 0 => faults = 0
    BY <1>2, ReleasedTyped DEF TaskSucceeds, Fault, ConsoleTypeOK
  <2>2. CASE task.kind = "delete"
    <3>1. ~site'.enabled
      BY <2>1, <2>2, SiteAfterIs DEF NoSite
    <3> QED
      BY <2>1, <3>1 DEF DueInv
  <2>3. CASE task.kind # "delete"
    <3>1. /\ site'.enabled = site.enabled
          /\ site'.next = IF task.kind = "scheduled" THEN scheduler.tick + Interval ELSE site.next
      BY <2>1, <2>3, SiteAfterIs
    <3>2. CASE task.kind = "scheduled"
      BY <1>0, <2>1, <3>1, <3>2 DEF DueInv
    <3>3. CASE task.kind # "scheduled"
      BY <2>1, <3>1, <3>3 DEF DueInv
    <3> QED
      BY <3>2, <3>3
  <2> QED
    BY <2>2, <2>3
<1>3. CASE TaskFails
  <2>1. faults' # 0 /\ task'.kind = "none"
    <3>1. faults' = 0 => faults = 0 /\ task.kind = "start" /\ ~host.installed
      BY <1>3 DEF TaskFails, Fault, ConsoleTypeOK
    <3>2. faults' # 0
      BY <3>1 DEF MailInv, Smooth, Real
    <3> QED
      BY <1>3, <3>2, ReleasedTyped DEF TaskFails
  <2> QED
    BY <2>1 DEF DueInv
<1>4. CASE Interrupt
  <2>1. faults' # 0 /\ task'.kind = "none"
    BY <1>4 DEF Interrupt, Fault, ConsoleTypeOK, Released, NoTask
  <2> QED
    BY <2>1 DEF DueInv
<1>5. CASE Reconcile
  <2>1. UNCHANGED <<task, scheduler, notBefore>>
    BY <1>5 DEF Reconcile
  <2>2. ASSUME faults' = 0
        PROVE  faults = 0 /\ (~site'.enabled \/ (site'.enabled = site.enabled /\ site'.next = site.next))
    <3>1. faults = 0 /\ site' = Reconciled
      BY <1>5, <2>2 DEF Reconcile, Fault, ConsoleTypeOK
    <3>2. PICK s : s = [site EXCEPT !.pending = FALSE, !.health = FALSE,
                                    !.resources = IF host.installed THEN host.resources ELSE @]
      OBVIOUS
    <3>3. IsSite(s) /\ s.enabled = site.enabled /\ s.next = site.next
      BY <1>0, <3>2 DEF IsSite
    <3>4. PICK b : b = s.backups \cup (IF site.pending THEN receipt.backups ELSE {})
      OBVIOUS
    <3>5. \/ site' = NoSite \/ site' = [s EXCEPT !.status = "failed"] \/ site' = s
          \/ site' = [s EXCEPT !.status = RuntimeStatus, !.backups = b]
      BY <3>1, <3>2, <3>4 DEF Reconciled
    <3>6. /\ ~NoSite.enabled
          /\ [s EXCEPT !.status = "failed"].enabled = s.enabled
          /\ [s EXCEPT !.status = "failed"].next = s.next
          /\ [s EXCEPT !.status = RuntimeStatus, !.backups = b].enabled = s.enabled
          /\ [s EXCEPT !.status = RuntimeStatus, !.backups = b].next = s.next
      BY <3>3 DEF NoSite, IsSite
    <3> QED
      BY <3>1, <3>3, <3>5, <3>6
  <2> QED
    BY <2>1, <2>2, DueKept
<1>6. CASE SchedulerTick
  <2>1. ~scheduler.waiting /\ UNCHANGED <<site, task, notBefore, faults>>
    BY <1>6 DEF SchedulerTick
  <2>2. task.kind # "scheduled"
    BY <2>1 DEF DueInv
  <2> QED
    BY <2>1, <2>2 DEF DueInv
<1>7. CASE SchedulerRuns
  <2>1. scheduler.waiting /\ task.kind = "none"
    BY <1>7 DEF SchedulerRuns, Unlocked
  <2>2. CASE CallTracked("scheduled", <<>>, <<>>) /\ notBefore' = scheduler.tick + Interval
             /\ UNCHANGED scheduler
    <3>1. task'.kind = "scheduled"
      BY <2>2 DEF CallTracked
    <3> QED
      BY <2>1, <2>2, <3>1 DEF DueInv
  <2>3. CASE notBefore' = scheduler.tick + Interval /\ task' = task
             /\ (site' = Postponed(site, "scheduled") \/ Fault)
    <3>1. CASE Fault
      BY <2>1, <2>3, <3>1 DEF DueInv, Fault, ConsoleTypeOK
    <3>2. CASE site' = Postponed(site, "scheduled")
      <4>1. site'.next = notBefore'
        BY <1>0, <2>3, <3>2 DEF Postponed, IsSite
      <4>2. notBefore' \in Nat
        BY <1>0, <2>3
      <4> QED
        BY <2>1, <2>3, <4>1, <4>2 DEF DueInv
    <3> QED
      BY <2>3, <3>1, <3>2
  <2>4. CASE UNCHANGED <<site, task, notBefore, faults>>
    BY <2>1, <2>4 DEF DueInv
  <2> QED
    BY <1>7, <2>2, <2>3, <2>4 DEF SchedulerRuns
<1>8. CASE OpenPage \/ FileStep \/ WordPress \/ ClockTick \/ UNCHANGED consoleVars
  <2>1. UNCHANGED <<site, task, scheduler, notBefore, faults>>
    BY <1>8 DEF OpenPage, FileStep, WordPress, ClockTick, consoleVars
  <2> QED
    BY <2>1, DueKept
<1> QED
  BY <1>1, <1>2, <1>3, <1>4, <1>5, <1>6, <1>7, <1>8 DEF ConsoleNext, SchedulerStep

\* A scheduled backup begins at a time at which one is wanted.
LEMMA DueHonoured ==
    ASSUME ConsoleTypeOK, DueInv, [ConsoleNext]_consoleVars, faults = 0, task.kind = "none",
           task'.kind = "scheduled"
    PROVE  now >= notBefore
<1>1. SchedulerRuns
  <2>1. CASE SubmitForm
    <3>1. PICK f \in page : SubmitTracked(f) \/ UNCHANGED task
      BY <2>1 DEF SubmitForm, DeleteBackup, SaveBackupSchedule, SetSiteMail, SaveMailSettings,
                  ResourcePlansAction, FileAction
    <3>2. task'.kind \in Tracked \cup {"none"}
      <4>1. CASE SubmitTracked(f)
        <5>1. PICK k, a, b : CallTracked(k, a, b) /\ k = f[1] /\ f[1] \in Tracked
          BY <4>1 DEF SubmitTracked
        <5> QED
          BY <5>1 DEF CallTracked
      <4> QED
        BY <3>1, <4>1
    <3> QED
      BY <3>2 DEF Tracked
  <2>2. CASE TaskSucceeds \/ TaskFails
    BY <2>2 DEF TaskSucceeds, TaskFails, Released, NoTask
  <2>3. CASE Interrupt
    BY <2>3 DEF Interrupt, Released, NoTask
  <2>4. CASE OpenPage \/ Reconcile \/ SchedulerTick \/ FileStep \/ WordPress \/ ClockTick
             \/ UNCHANGED consoleVars
    BY <2>4 DEF OpenPage, Reconcile, SchedulerTick, FileStep, WordPress, ClockTick, consoleVars
  <2> QED
    BY <2>1, <2>2, <2>3, <2>4 DEF ConsoleNext, SchedulerStep
<1>2. Wanted
  BY <1>1 DEF SchedulerRuns
<1>3. site.enabled /\ site.next <= scheduler.tick
  BY <1>2 DEF Wanted
<1>4. notBefore \in Nat /\ notBefore <= site.next
  BY <1>3 DEF DueInv
<1>5. site.next \in Nat /\ scheduler.tick \in Nat /\ now \in Nat /\ scheduler.tick <= now
  BY DEF ConsoleTypeOK, IsSite
<1> QED
  BY <1>3, <1>4, <1>5

-----------------------------------------------------------------------------
(* Paths *)

\* The path r is p or below it.
Within(r, p) == Len(r) >= Len(p) /\ SubSeq(r, 1, Len(p)) = p
\* Where r goes when p is moved to q.
Under(r, p, q) == q \o SubSeq(r, Len(p) + 1, Len(r))

\* The first part of a path.
LEMMA PrefixIs ==
    ASSUME NEW p \in Seq(STRING), NEW n \in 0..Len(p)
    PROVE  /\ SubSeq(p, 1, n) \in Seq(STRING) /\ Len(SubSeq(p, 1, n)) = n
           /\ \A i \in 1..n : SubSeq(p, 1, n)[i] = p[i]
           /\ \A m \in 0..n : SubSeq(SubSeq(p, 1, n), 1, m) = SubSeq(p, 1, m)
           /\ SubSeq(p, 1, Len(p)) = p
OBVIOUS

\* The parts of a path that was moved.
IsUnder(x, r, p, q) ==
    /\ x \in Seq(STRING)
    /\ Len(x) = Len(q) + Len(r) - Len(p)
    /\ \A i \in 1..Len(q) : x[i] = q[i]
    /\ \A i \in (Len(q) + 1)..(Len(q) + Len(r) - Len(p)) : x[i] = r[i + Len(p) - Len(q)]

\* Its parts are those of q, then those of r after p.
LEMMA UnderIs ==
    ASSUME NEW p \in Seq(STRING), NEW q \in Seq(STRING), NEW r \in Seq(STRING), Len(r) >= Len(p)
    PROVE  IsUnder(Under(r, p, q), r, p, q)
<1>1. PICK u : u = SubSeq(r, Len(p) + 1, Len(r))
  OBVIOUS
<1>2. Len(p) \in Nat /\ Len(q) \in Nat /\ Len(r) \in Nat
  OBVIOUS
<1>3. u \in Seq(STRING) /\ Len(u) = Len(r) - Len(p)
  BY <1>1, <1>2
<1>4. ASSUME NEW i \in 1..Len(u) PROVE u[i] = r[Len(p) + i]
  BY <1>1, <1>2, <1>3
<1>5. PICK x : x = q \o u
  OBVIOUS
<1>6. x \in Seq(STRING) /\ Len(x) = Len(q) + Len(u)
  BY <1>3, <1>5, ConcatProperties
<1>7. ASSUME NEW i \in 1..Len(q) PROVE x[i] = q[i]
  <2>1. i \in 1..(Len(q) + Len(u)) /\ i <= Len(q)
    BY <1>2, <1>3
  <2> QED
    BY <1>3, <1>5, <2>1, ConcatProperties
<1>8. ASSUME NEW i \in (Len(q) + 1)..(Len(q) + Len(u)) PROVE x[i] = r[i + Len(p) - Len(q)]
  <2>1. x[i] = u[i - Len(q)]
    BY <1>2, <1>3, <1>5
  <2>2. i - Len(q) \in 1..Len(u) /\ Len(p) + (i - Len(q)) = i + Len(p) - Len(q)
    BY <1>2, <1>3
  <2> QED
    BY <1>4, <2>1, <2>2
<1>9. Len(q) + Len(u) = Len(q) + Len(r) - Len(p)
  BY <1>2, <1>3
<1>10. IsUnder(x, r, p, q)
  BY <1>6, <1>7, <1>8, <1>9 DEF IsUnder
<1> QED
  BY <1>1, <1>5, <1>10 DEF Under

\* A path begins with another one.
LEMMA WithinIs ==
    ASSUME NEW p \in Seq(STRING), NEW r \in Seq(STRING)
    PROVE  /\ Within(r, p) <=> Len(r) >= Len(p) /\ \A i \in 1..Len(p) : r[i] = p[i]
<1>1. ASSUME Within(r, p) PROVE \A i \in 1..Len(p) : r[i] = p[i]
  BY <1>1 DEF Within
<1>2. ASSUME Len(r) >= Len(p), \A i \in 1..Len(p) : r[i] = p[i] PROVE Within(r, p)
  <2>1. /\ SubSeq(r, 1, Len(p)) \in Seq(STRING) /\ Len(SubSeq(r, 1, Len(p))) = Len(p)
        /\ \A i \in 1..Len(p) : SubSeq(r, 1, Len(p))[i] = p[i]
    BY <1>2, PrefixIs
  <2>2. SubSeq(r, 1, Len(p)) = p
    BY <2>1, SeqEqual
  <2> QED
    BY <1>2, <2>2 DEF Within
<1> QED
  BY <1>1, <1>2 DEF Within

\* A move and its way back.
LEMMA UnderBack ==
    ASSUME NEW p \in Seq(STRING), NEW q \in Seq(STRING), NEW r \in Seq(STRING), Within(r, p)
    PROVE  Within(Under(r, p, q), q) /\ Under(Under(r, p, q), q, p) = r
<1>1. PICK x : x = Under(r, p, q)
  OBVIOUS
<1>0. Len(r) >= Len(p)
  BY DEF Within
<1>2. /\ x \in Seq(STRING) /\ Len(x) = Len(q) + Len(r) - Len(p)
      /\ \A i \in 1..Len(q) : x[i] = q[i]
      /\ \A i \in (Len(q) + 1)..(Len(q) + Len(r) - Len(p)) : x[i] = r[i + Len(p) - Len(q)]
  <2>1. IsUnder(x, r, p, q)
    BY <1>0, <1>1, UnderIs
  <2> QED
    BY <2>1 DEF IsUnder
<1>3. Len(p) \in Nat /\ Len(q) \in Nat /\ Len(r) \in Nat /\ Len(x) >= Len(q)
  BY <1>0, <1>2
<1>4. PICK y : y = Under(x, q, p)
  OBVIOUS
<1>5. /\ y \in Seq(STRING) /\ Len(y) = Len(p) + Len(x) - Len(q)
      /\ \A i \in 1..Len(p) : y[i] = p[i]
      /\ \A i \in (Len(p) + 1)..(Len(p) + Len(x) - Len(q)) : y[i] = x[i + Len(q) - Len(p)]
  <2>1. IsUnder(y, x, q, p)
    BY <1>2, <1>3, <1>4, UnderIs
  <2> QED
    BY <2>1 DEF IsUnder
<1>6. \A i \in 1..Len(p) : r[i] = p[i]
  BY WithinIs
<1>7. Len(y) = Len(r)
  BY <1>0, <1>2, <1>3, <1>5
<1>8. ASSUME NEW i \in 1..Len(r) PROVE y[i] = r[i]
  <2>1. CASE i <= Len(p)
    BY <1>3, <1>5, <1>6, <2>1
  <2>2. CASE i > Len(p)
    <3>1. PICK j : j = i + Len(q) - Len(p)
      OBVIOUS
    <3>2. y[i] = x[j] /\ j \in (Len(q) + 1)..(Len(q) + Len(r) - Len(p)) /\ j + Len(p) - Len(q) = i
      BY <1>0, <1>2, <1>3, <1>5, <2>2, <3>1
    <3> QED
      BY <1>2, <3>2
  <2> QED
    BY <1>3, <2>1, <2>2
<1>9. y = r
  BY <1>5, <1>7, <1>8, SeqEqual
<1>10. Within(x, q)
  BY <1>2, <1>3, WithinIs
<1> QED
  BY <1>1, <1>4, <1>9, <1>10

\* The parts of a moved path.
LEMMA UnderPrefix ==
    ASSUME NEW p \in Seq(STRING), NEW q \in Seq(STRING), NEW r \in Seq(STRING), Within(r, q),
           NEW n, n \in Len(q)..Len(r)
    PROVE  /\ Within(SubSeq(r, 1, n), q)
           /\ Under(SubSeq(r, 1, n), q, p) = SubSeq(Under(r, q, p), 1, Len(p) + n - Len(q))
<1>1. PICK s : s = SubSeq(r, 1, n)
  OBVIOUS
<1>2. s \in Seq(STRING) /\ Len(s) = n /\ (\A i \in 1..n : s[i] = r[i]) /\ n \in Nat /\ n >= Len(q)
      /\ Len(r) \in Nat /\ Len(q) \in Nat /\ Len(p) \in Nat /\ Len(r) >= n
  BY <1>1, PrefixIs DEF Within
<1>3. Within(s, q)
  <2>1. \A i \in 1..Len(q) : r[i] = q[i]
    BY WithinIs
  <2>2. \A i \in 1..Len(q) : s[i] = q[i]
    BY <1>2, <2>1
  <2> QED
    BY <1>2, <2>2, WithinIs
<1>0. Len(r) >= Len(q)
  BY DEF Within
<1>4. PICK x : x = Under(r, q, p)
  OBVIOUS
<1>5. /\ x \in Seq(STRING) /\ Len(x) = Len(p) + Len(r) - Len(q)
      /\ \A i \in 1..Len(p) : x[i] = p[i]
      /\ \A i \in (Len(p) + 1)..(Len(p) + Len(r) - Len(q)) : x[i] = r[i + Len(q) - Len(p)]
  <2>1. IsUnder(x, r, q, p)
    BY <1>0, <1>4, UnderIs
  <2> QED
    BY <2>1 DEF IsUnder
<1>6. PICK y : y = Under(s, q, p)
  OBVIOUS
<1>13. s \in Seq(STRING) /\ Len(s) >= Len(q)
  BY <1>2
<1>14. Len(s) = n
  BY <1>2
<1>7. /\ y \in Seq(STRING) /\ Len(y) = Len(p) + n - Len(q)
      /\ \A i \in 1..Len(p) : y[i] = p[i]
      /\ \A i \in (Len(p) + 1)..(Len(p) + n - Len(q)) : y[i] = s[i + Len(q) - Len(p)]
  <2>1. IsUnder(y, s, q, p)
    BY <1>6, <1>13, UnderIs
  <2> QED
    BY <2>1, <1>14 DEF IsUnder
<1>8. PICK m : m = Len(p) + n - Len(q)
  OBVIOUS
<1>9. m \in 0..Len(x)
  BY <1>2, <1>5, <1>8
<1>10. /\ SubSeq(x, 1, m) \in Seq(STRING) /\ Len(SubSeq(x, 1, m)) = m
       /\ \A i \in 1..m : SubSeq(x, 1, m)[i] = x[i]
  BY <1>5, <1>9, PrefixIs
<1>11. ASSUME NEW i \in 1..m PROVE y[i] = SubSeq(x, 1, m)[i]
  <2>1. CASE i <= Len(p)
    BY <1>2, <1>5, <1>7, <1>8, <1>10, <2>1
  <2>2. CASE i > Len(p)
    <3>1. y[i] = s[i + Len(q) - Len(p)] /\ x[i] = r[i + Len(q) - Len(p)]
      <4>1. i \in (Len(p) + 1)..(Len(p) + n - Len(q)) /\ i \in (Len(p) + 1)..(Len(p) + Len(r) - Len(q))
        BY <1>2, <1>8, <2>2
      <4> QED
        BY <1>5, <1>7, <4>1
    <3>2. i + Len(q) - Len(p) \in 1..n
      BY <1>2, <1>8, <2>2
    <3> QED
      BY <1>2, <1>10, <3>1, <3>2
  <2> QED
    BY <1>2, <1>8, <2>1, <2>2
<1>12. y = SubSeq(x, 1, m)
  BY <1>7, <1>8, <1>10, <1>11, SeqEqual
<1> QED
  BY <1>1, <1>3, <1>4, <1>6, <1>8, <1>12

\* Every part of a path is a path of the site.
LEMMA PathParts ==
    ASSUME NEW p \in FilePaths
    PROVE  /\ p \in Seq(STRING) /\ Len(p) \in Nat \ {0}
           /\ \A n \in 1..Len(p) : /\ SubSeq(p, 1, n) \in FilePaths /\ Len(SubSeq(p, 1, n)) = n
                                   /\ \A m \in 1..n :
                                        SubSeq(SubSeq(p, 1, n), 1, m) = SubSeq(p, 1, m)
<1>1. p \in Seq(STRING) /\ p # <<>>
  BY FilePathsAssumption
<1>2. Len(p) \in Nat \ {0}
  BY <1>1, EmptySeq
<1>3. ASSUME NEW n \in 1..Len(p)
      PROVE  /\ SubSeq(p, 1, n) \in FilePaths /\ Len(SubSeq(p, 1, n)) = n
             /\ \A m \in 1..n : SubSeq(SubSeq(p, 1, n), 1, m) = SubSeq(p, 1, m)
  <2>1. n \in 0..Len(p) /\ \A m \in 1..n : m \in 0..n
    BY <1>2
  <2>2. Len(SubSeq(p, 1, n)) = n
    BY <1>1, <2>1, PrefixIs
  <2>3. \A m \in 0..n : SubSeq(SubSeq(p, 1, n), 1, m) = SubSeq(p, 1, m)
    BY <1>1, <2>1, PrefixIs
  <2> QED
    BY <2>1, <2>2, <2>3, FilePathsAssumption
<1> QED
  BY <1>1, <1>2, <1>3

\* Above what is in a directory there are directories only.
LEMMA AboveDirectories ==
    ASSUME IsTree(tree), NEW p \in FilePaths, IsDirectory(Parent(p)), NEW n \in 1..(Len(p) - 1)
    PROVE  tree[SubSeq(p, 1, n)] = Directory
<1>1. p \in Seq(STRING) /\ Len(p) \in Nat \ {0} /\ n \in Nat /\ 1 <= n /\ n <= Len(p) - 1
  BY PathParts
<1>2. PICK m : m = Len(p) - 1
  OBVIOUS
<1>3. m \in 1..Len(p) /\ n \in 1..m /\ m \in Nat
  BY <1>1, <1>2
<1>4. PICK q : q = SubSeq(p, 1, m)
  OBVIOUS
<1>5. q \in FilePaths /\ Len(q) = m /\ SubSeq(q, 1, n) = SubSeq(p, 1, n)
  BY <1>3, <1>4, PathParts
<1>6. tree[q] = Directory
  <2>1. q # <<>>
    BY <1>5, FilePathsAssumption
  <2> QED
    BY <1>2, <1>4, <2>1 DEF Parent, IsDirectory
<1>7. CASE n = m
  BY <1>4, <1>6, <1>7
<1>8. CASE n # m
  <2>1. n \in 1..(Len(q) - 1)
    BY <1>3, <1>5, <1>8
  <2>2. tree[q] # Nothing
    BY <1>6 DEF Directory, Nothing
  <2> QED
    BY <1>5, <2>1, <2>2 DEF IsTree
<1> QED
  BY <1>7, <1>8

\* Something that is no directory, or nothing, is replaced within a directory.
LEMMA PutTree ==
    ASSUME IsTree(tree), NEW p \in FilePaths, IsDirectory(Parent(p)), tree[p] # Directory, NEW v
    PROVE  IsTree([tree EXCEPT ![p] = v])
<1>1. PICK t : t = [tree EXCEPT ![p] = v]
  OBVIOUS
<1>2. t = [r \in FilePaths |-> IF r = p THEN v ELSE tree[r]]
  BY <1>1 DEF IsTree
<1>3. ASSUME NEW r \in FilePaths, t[r] # Nothing, NEW n \in 1..(Len(r) - 1)
      PROVE  t[SubSeq(r, 1, n)] = Directory
  <2>1. PICK s : s = SubSeq(r, 1, n)
    OBVIOUS
  <2>2. s \in FilePaths /\ Len(s) = n /\ n # Len(r)
    <3>1. n \in 1..Len(r) /\ n # Len(r)
      BY PathParts
    <3> QED
      BY <2>1, <3>1, PathParts
  <2>3. tree[s] = Directory
    <3>1. CASE r = p
      BY <2>1, <3>1, AboveDirectories
    <3>2. CASE r # p
      <4>1. tree[r] # Nothing
        BY <1>2, <1>3, <3>2
      <4> QED
        BY <2>1, <4>1 DEF IsTree
    <3> QED
      BY <3>1, <3>2
  <2> QED
    BY <1>2, <2>1, <2>2, <2>3
<1>4. IsTree(t)
  BY <1>2, <1>3 DEF IsTree
<1> QED
  BY <1>1, <1>4

\* A file or an empty directory is removed.
LEMMA RemoveTree ==
    ASSUME IsTree(tree), NEW p \in FilePaths, \A r \in Below(p) : tree[r] = Nothing
    PROVE  IsTree([tree EXCEPT ![p] = Nothing])
<1>1. PICK t : t = [tree EXCEPT ![p] = Nothing]
  OBVIOUS
<1>2. t = [r \in FilePaths |-> IF r = p THEN Nothing ELSE tree[r]]
  BY <1>1 DEF IsTree
<1>3. ASSUME NEW r \in FilePaths, t[r] # Nothing, NEW n \in 1..(Len(r) - 1)
      PROVE  t[SubSeq(r, 1, n)] = Directory
  <2>1. PICK s : s = SubSeq(r, 1, n)
    OBVIOUS
  <2>2. s \in FilePaths /\ Len(s) = n /\ Len(r) > n
    <3>1. n \in 1..Len(r) /\ Len(r) > n
      BY PathParts
    <3> QED
      BY <2>1, <3>1, PathParts
  <2>3. tree[r] # Nothing
    BY <1>2, <1>3
  <2>4. tree[s] = Directory
    BY <2>1, <2>3 DEF IsTree
  <2>5. s # p
    BY <2>1, <2>2, <2>3 DEF Below
  <2> QED
    BY <1>2, <2>1, <2>2, <2>4, <2>5
<1>4. IsTree(t)
  BY <1>2, <1>3 DEF IsTree
<1> QED
  BY <1>1, <1>4

\* A path of the site is p or below p.
LEMMA WithinPath ==
    ASSUME NEW p \in FilePaths, NEW r \in FilePaths
    PROVE  /\ Within(r, p) <=> (r = p \/ r \in Below(p))
           /\ \A n \in 1..(Len(r) - 1) : Within(SubSeq(r, 1, n), p) => r \in Below(p)
<1>1. /\ p \in Seq(STRING) /\ Len(p) \in Nat \ {0} /\ r \in Seq(STRING) /\ Len(r) \in Nat \ {0}
      /\ SubSeq(r, 1, Len(r)) = r
  BY PathParts, PrefixIs
<1>2. ASSUME Within(r, p), r # p PROVE r \in Below(p)
  <2>1. Len(r) # Len(p)
    BY <1>1, <1>2 DEF Within
  <2>2. Len(r) >= Len(p) /\ SubSeq(r, 1, Len(p)) = p
    BY <1>2 DEF Within
  <2>3. Len(r) > Len(p)
    <3>1. Len(r) \in Nat /\ Len(p) \in Nat
      BY <1>1
    <3>2. Len(r) >= Len(p)
      BY <2>2
    <3> QED
      BY ONLY <2>1, <3>1, <3>2
  <2> QED
    BY <2>2, <2>3 DEF Below
<1>3. r = p => Within(r, p)
  BY <1>1 DEF Within
<1>4. r \in Below(p) => Within(r, p)
  BY <1>1 DEF Within, Below
<1>5. ASSUME NEW n \in 1..(Len(r) - 1), Within(SubSeq(r, 1, n), p) PROVE r \in Below(p)
  <2>1. n \in 1..Len(r) /\ n < Len(r) /\ n \in Nat
    BY <1>1
  <2>2. /\ Len(SubSeq(r, 1, n)) = n
        /\ \A m \in 1..n : SubSeq(SubSeq(r, 1, n), 1, m) = SubSeq(r, 1, m)
    BY <2>1, PathParts
  <2>3. n >= Len(p) /\ SubSeq(SubSeq(r, 1, n), 1, Len(p)) = p
    <3>1. PICK s : s = SubSeq(r, 1, n)
      OBVIOUS
    <3>2. Len(s) >= Len(p) /\ SubSeq(s, 1, Len(p)) = p
      BY <1>5, <3>1 DEF Within
    <3>3. Len(s) = n
      BY <2>2, <3>1
    <3> QED
      BY <3>1, <3>2, <3>3
  <2>4. SubSeq(r, 1, Len(p)) = p /\ Len(r) > Len(p)
    BY <1>1, <2>1, <2>2, <2>3
  <2> QED
    BY <2>4 DEF Below
<1> QED
  BY <1>2, <1>3, <1>4, <1>5

\* What rename(2) makes of the tree.
LEMMA RenamedIs ==
    ASSUME NEW p \in FilePaths, NEW q \in FilePaths
    PROVE  /\ Renamed(p, q) = [r \in FilePaths |-> Renamed(p, q)[r]]
           /\ \A r \in FilePaths :
                /\ Within(r, q) => Renamed(p, q)[r] = IF Under(r, q, p) \in FilePaths
                                                      THEN tree[Under(r, q, p)] ELSE Nothing
                /\ ~Within(r, q) /\ Within(r, p) => Renamed(p, q)[r] = Nothing
                /\ ~Within(r, q) /\ ~Within(r, p) => Renamed(p, q)[r] = tree[r]
<1>1. Renamed(p, q) = [r \in FilePaths |->
        IF r = q \/ r \in Below(q)
        THEN IF Under(r, q, p) \in FilePaths THEN tree[Under(r, q, p)] ELSE Nothing
        ELSE IF r = p \/ r \in Below(p) THEN Nothing ELSE tree[r]]
  BY DEF Renamed, Under
<1>2. ASSUME NEW r \in FilePaths, Within(r, q)
      PROVE  Renamed(p, q)[r] = IF Under(r, q, p) \in FilePaths
                                THEN tree[Under(r, q, p)] ELSE Nothing
  <2>1. r = q \/ r \in Below(q)
    BY <1>2, WithinPath
  <2> QED
    BY <1>1, <2>1
<1>5. ASSUME NEW r \in FilePaths, ~Within(r, q), ~Within(r, p)
      PROVE  Renamed(p, q)[r] = tree[r]
  <2>1. ~(r = q \/ r \in Below(q)) /\ ~(r = p \/ r \in Below(p))
    BY <1>5, WithinPath
  <2> QED
    BY <1>1, <2>1
<1>3. ASSUME NEW r \in FilePaths, ~Within(r, q), Within(r, p)
      PROVE  Renamed(p, q)[r] = Nothing
  <2>1. ~(r = q \/ r \in Below(q)) /\ (r = p \/ r \in Below(p))
    BY <1>3, WithinPath
  <2> QED
    BY <1>1, <2>1
<1>4. Renamed(p, q) = [r \in FilePaths |-> Renamed(p, q)[r]]
  BY <1>1
<1> QED
  BY <1>2, <1>3, <1>4, <1>5

\* A rename that the file system allows leaves a tree.
LEMMA RenameTree ==
    ASSUME IsTree(tree), NEW p \in FilePaths, NEW q \in FilePaths, MayRename(p, q)
    PROVE  IsTree(Renamed(p, q))
<1>1. PICK t : t = Renamed(p, q)
  OBVIOUS
<1>2. /\ t = [r \in FilePaths |-> t[r]]
      /\ \A r \in FilePaths :
           /\ Within(r, q) => t[r] = IF Under(r, q, p) \in FilePaths
                                     THEN tree[Under(r, q, p)] ELSE Nothing
           /\ ~Within(r, q) /\ Within(r, p) => t[r] = Nothing
           /\ ~Within(r, q) /\ ~Within(r, p) => t[r] = tree[r]
  BY <1>1, RenamedIs
<1>3. ASSUME NEW r \in FilePaths, t[r] # Nothing, NEW n \in 1..(Len(r) - 1)
      PROVE  t[SubSeq(r, 1, n)] = Directory
  <2>1. PICK s : s = SubSeq(r, 1, n)
    OBVIOUS
  <2>2. s \in FilePaths /\ Len(s) = n /\ n < Len(r) /\ n \in Nat
    <3>1. n \in 1..Len(r) /\ n < Len(r) /\ n \in Nat
      BY PathParts
    <3> QED
      BY <2>1, <3>1, PathParts
  <2>3. CASE Within(r, q) /\ n >= Len(q)
    <3>1. PICK x : x = Under(r, q, p)
      OBVIOUS
    <3>2. x \in FilePaths /\ tree[x] # Nothing
      BY <1>2, <1>3, <2>3, <3>1
    <3>3. /\ p \in Seq(STRING) /\ q \in Seq(STRING) /\ r \in Seq(STRING) /\ Len(p) \in Nat \ {0}
          /\ Len(q) \in Nat \ {0} /\ Len(r) \in Nat
      BY PathParts
    <3>4. n \in Len(q)..Len(r)
      BY <2>2, <2>3, <3>3
    <3>5. PICK m : m = Len(p) + n - Len(q)
      OBVIOUS
    <3>6. Within(s, q) /\ Under(s, q, p) = SubSeq(x, 1, m)
      <4>1. /\ Within(SubSeq(r, 1, n), q)
            /\ Under(SubSeq(r, 1, n), q, p) = SubSeq(Under(r, q, p), 1, Len(p) + n - Len(q))
        BY <2>3, <3>3, <3>4, UnderPrefix
      <4> QED
        BY <2>1, <3>1, <3>5, <4>1
    <3>7. Len(x) = Len(p) + Len(r) - Len(q)
      <4>1. Len(r) >= Len(q)
        BY <2>3 DEF Within
      <4>2. IsUnder(x, r, q, p)
        BY <3>1, <3>3, <4>1, UnderIs
      <4> QED
        BY <4>2 DEF IsUnder
    <3>8. m \in 1..(Len(x) - 1) /\ m \in 1..Len(x)
      BY <2>2, <2>3, <3>3, <3>5, <3>7
    <3>9. tree[SubSeq(x, 1, m)] = Directory /\ SubSeq(x, 1, m) \in FilePaths
      BY <3>2, <3>8, PathParts DEF IsTree
    <3> QED
      BY <1>2, <2>1, <2>2, <3>6, <3>9
  <2>4. CASE Within(r, q) /\ ~(n >= Len(q))
    <3>1. Len(q) \in Nat \ {0} /\ n \in 1..(Len(q) - 1)
      BY <2>2, <2>4, PathParts
    <3>2. s = SubSeq(q, 1, n)
      <4>1. q = SubSeq(r, 1, Len(q)) /\ Len(q) \in 1..Len(r) /\ n \in 1..Len(q)
        <5>1. Len(r) \in Nat
          BY PathParts
        <5> QED
          BY <2>4, <3>1, <5>1 DEF Within
      <4>2. SubSeq(SubSeq(r, 1, Len(q)), 1, n) = SubSeq(r, 1, n)
        BY <4>1, PathParts
      <4> QED
        BY <2>1, <4>1, <4>2
    <3>3. tree[s] = Directory
      BY <3>1, <3>2, AboveDirectories DEF MayRename
    <3>4. ~Within(s, q)
      BY <2>2, <2>4 DEF Within
    <3>5. ~Within(s, p)
      <4>1. q \notin Below(p)
        BY DEF MayRename
      <4> QED
        BY <3>1, <3>2, <4>1, WithinPath
    <3> QED
      BY <1>2, <2>1, <2>2, <3>3, <3>4, <3>5
  <2>5. CASE ~Within(r, q)
    <3>1. ~Within(r, p) /\ tree[r] # Nothing
      BY <1>2, <1>3, <2>5
    <3>2. ~Within(s, q) /\ ~Within(s, p)
      <4>1. r \notin Below(p) /\ r \notin Below(q)
        BY <2>5, <3>1, WithinPath
      <4> QED
        BY <2>1, <4>1, WithinPath
    <3>3. tree[s] = Directory
      BY <2>1, <3>1 DEF IsTree
    <3> QED
      BY <1>2, <2>1, <2>2, <3>2, <3>3
  <2> QED
    BY <2>3, <2>4, <2>5
<1>4. IsTree(t)
  BY <1>2, <1>3 DEF IsTree
<1> QED
  BY <1>1, <1>4

\* A rename loses at most the file it replaces.
LEMMA RenameKeeps ==
    ASSUME IsTree(tree), NEW p \in FilePaths, NEW q \in FilePaths, MayRename(p, q),
           tree[q] # Directory, NEW r \in FilePaths, IsFile(tree[r]), r # q
    PROVE  \E s \in FilePaths : Renamed(p, q)[s] = tree[r]
<1>1. tree[r] # Nothing
  BY DEF IsFile, Nothing
<1>2. ~Within(r, q)
  <2>1. ASSUME r \in Below(q) PROVE FALSE
    <3>1. SubSeq(r, 1, Len(q)) = q /\ Len(q) \in 1..(Len(r) - 1)
      <4>1. Len(q) \in Nat \ {0} /\ Len(r) \in Nat
        BY PathParts
      <4> QED
        BY <2>1, <4>1 DEF Below
    <3>2. tree[q] = Directory
      BY <1>1, <3>1 DEF IsTree
    <3> QED
      BY <3>2
  <2> QED
    BY <2>1, WithinPath
<1>3. CASE ~Within(r, p)
  BY <1>2, <1>3, RenamedIs
<1>4. CASE Within(r, p)
  <2>1. PICK s : s = Under(r, p, q)
    OBVIOUS
  <2>2. p \in Seq(STRING) /\ q \in Seq(STRING) /\ r \in Seq(STRING)
    BY PathParts
  <2>3. Within(s, q) /\ Under(s, q, p) = r
    BY <1>4, <2>1, <2>2, UnderBack
  <2>4. s \in FilePaths
    <3>1. CASE r = p
      <4>1. s = q \o <<>>
        <5>1. SubSeq(r, Len(p) + 1, Len(r)) = <<>>
          BY <2>2, <3>1, SubSeqEmpty
        <5> QED
          BY <2>1, <5>1 DEF Under
      <4>2. s = q
        BY <2>2, <4>1, ConcatEmptySeq
      <4> QED
        BY <4>2
    <3>2. CASE r \in Below(p)
      BY <1>1, <2>1, <3>2 DEF MayRename, Under
    <3> QED
      BY <1>4, <3>1, <3>2, WithinPath
  <2>5. Renamed(p, q)[s] = tree[r]
    BY <2>3, <2>4, RenamedIs
  <2> QED
    BY <2>4, <2>5
<1> QED
  BY <1>3, <1>4

-----------------------------------------------------------------------------
(* Files *)

\* The target of a move is as free as the script found it, or holds a file that
\* WordPress has written since.
ScriptOK ==
    /\ contents \in Nat
    /\ script = Idle \/
         /\ script = [do |-> script.do, path |-> script.path, target |-> script.target,
                      mark |-> script.mark, stage |-> script.stage]
         /\ script.path \in FilePaths /\ script.target \in FilePaths
         /\ script.mark \in 0..contents
         /\ script.stage = "write" => script.do = "upload"
         /\ script.do = "file-move" => tree[script.target] \in {Nothing} \cup WrittenSince(script.mark)

\* The files and every copy of them are a tree.
TreeInv ==
    /\ IsTree(tree)
    /\ ScriptOK
    /\ \A b \in Backups : IsTree(b.tree)
    /\ task.kind = "restore" => IsTree(task.arg.tree)

\* A script acts.
LEMMA ActTree ==
    ASSUME IsTree(tree), ScriptOK, Act
    PROVE  IsTree(tree')
<1>1. script # Idle
  BY DEF Act, Idle
<1>2. PICK p, q : p = script.path /\ q = script.target
  OBVIOUS
<1>3. p \in FilePaths /\ q \in FilePaths
  BY <1>1, <1>2 DEF ScriptOK
<1>4. \/ /\ IsDirectory(Parent(p)) /\ tree[p] # Directory
         /\ \E v : tree' = [tree EXCEPT ![p] = v]
      \/ (\A r \in Below(p) : tree[r] = Nothing) /\ tree' = [tree EXCEPT ![p] = Nothing]
      \/ MayRename(p, q) /\ tree' = Renamed(p, q)
      \/ tree' = tree
  <2>1. Nothing # Directory
    BY DEF Nothing, Directory
  <2> QED
    BY <1>2, <2>1 DEF Act
<1>5. CASE /\ IsDirectory(Parent(p)) /\ tree[p] # Directory
           /\ \E v : tree' = [tree EXCEPT ![p] = v]
  BY <1>3, <1>5, PutTree
<1>6. CASE (\A r \in Below(p) : tree[r] = Nothing) /\ tree' = [tree EXCEPT ![p] = Nothing]
  BY <1>3, <1>6, RemoveTree
<1>7. CASE MayRename(p, q) /\ tree' = Renamed(p, q)
  BY <1>3, <1>7, RenameTree
<1> QED
  BY <1>4, <1>5, <1>6, <1>7

\* What a script loses.
LEMMA ActKeeps ==
    ASSUME IsTree(tree), ScriptOK, Act, NEW lost \in Contents(tree) \ Contents(tree')
    PROVE  \/ script.do \in {"upload", "file-delete"} /\ lost = tree[script.path]
           \/ /\ script.do = "file-move" /\ lost = tree[script.target]
              /\ lost \in WrittenSince(script.mark)
<1>1. script # Idle
  BY DEF Act, Idle
<1>2. PICK p, q : p = script.path /\ q = script.target
  OBVIOUS
<1>3. /\ p \in FilePaths /\ q \in FilePaths
      /\ script.do = "file-move" => tree[q] \in {Nothing} \cup WrittenSince(script.mark)
  BY <1>1, <1>2 DEF ScriptOK
<1>4. PICK r \in FilePaths : IsFile(tree[r]) /\ lost = tree[r]
  BY DEF Contents
<1>5. ASSUME NEW s \in FilePaths PROVE tree'[s] # tree[r]
  BY <1>4 DEF Contents
<1>6. tree' # tree
  BY <1>5
<1>7. ASSUME NEW v, tree' = [tree EXCEPT ![p] = v] PROVE r = p
  <2>1. r # p => tree'[r] = tree[r]
    BY <1>7 DEF IsTree
  <2> QED
    BY <1>5, <2>1
<1>8. CASE script.do \in {"upload", "file-delete"} /\ \E v : tree' = [tree EXCEPT ![p] = v]
  BY <1>2, <1>4, <1>7, <1>8
<1>9. CASE script.do = "mkdir" /\ tree[p] = Nothing /\ \E v : tree' = [tree EXCEPT ![p] = v]
  <2>1. r = p
    BY <1>7, <1>9
  <2> QED
    BY <1>4, <1>9, <2>1 DEF IsFile, Nothing
<1>10. CASE script.do = "file-move" /\ MayRename(p, q) /\ tree' = Renamed(p, q)
  <2>1. tree[q] # Directory
    BY <1>3, <1>10 DEF Nothing, Directory, WrittenSince, File
  <2>2. r # q => \E s \in FilePaths : Renamed(p, q)[s] = tree[r]
    BY <1>3, <1>4, <1>10, <2>1, RenameKeeps
  <2>3. r = q
    BY <1>5, <1>10, <2>2
  <2>4. tree[q] # Nothing
    BY <1>4, <2>3 DEF IsFile, Nothing
  <2> QED
    BY <1>2, <1>3, <1>4, <1>10, <2>3, <2>4
<1> QED
  BY <1>2, <1>6, <1>8, <1>9, <1>10 DEF Act

\* The files that a call leaves.
LEMMA CallTree ==
    ASSUME TreeInv
    PROVE  IsTree(TreeAfter(task))
<1>1. IsTree([p \in FilePaths |-> Nothing])
  BY DEF IsTree
<1> QED
  BY <1>1 DEF TreeInv, TreeAfter

\* The files, whatever a step does to them, and the script.
LEMMA FilesStep ==
    ASSUME ConsoleTypeOK, TreeInv, [ConsoleNext]_consoleVars
    PROVE  IsTree(tree') /\ ScriptOK'
<1> USE DEF fileVars
<1>0. ASSUME UNCHANGED fileVars PROVE IsTree(tree') /\ ScriptOK'
  BY <1>0 DEF TreeInv, ScriptOK, WrittenSince
<1>1. CASE TaskSucceeds \/ TaskFails
  <2>1. script = Idle /\ script' = script /\ contents' = contents
    BY <1>1 DEF TaskSucceeds, TaskFails, ConsoleTypeOK
  <2>2. tree' = tree \/ tree' = TreeAfter(task)
    BY <1>1 DEF TaskSucceeds, TaskFails, Unconfirmed
  <2> QED
    BY <2>1, <2>2, CallTree DEF ScriptOK, TreeInv
<1>2. CASE Interrupt
  <2>1. script' = Idle /\ contents' = contents
    BY <1>2 DEF Interrupt, KillScript
  <2>2. tree' = tree \/ tree' = TreeAfter(task)
    BY <1>2 DEF Interrupt, Unconfirmed
  <2> QED
    BY <2>1, <2>2, CallTree DEF ScriptOK, TreeInv
<1>3. CASE SubmitForm
  <2>1. PICK f \in page : FileAction(f) \/ UNCHANGED fileVars
    BY <1>3 DEF SubmitForm, SubmitTracked, CallTracked, DeleteBackup, SaveBackupSchedule,
                SetSiteMail, SaveMailSettings, ResourcePlansAction
  <2>2. CASE FileAction(f)
    <3>1. PICK p \in FilePaths, q \in FilePaths : BeginScript(f[1], p, q)
      BY <2>2 DEF FileAction
    <3>2. /\ tree' = tree /\ contents' = contents
          /\ script' = [do |-> f[1], path |-> p, target |-> q, mark |-> contents,
                        stage |-> IF f[1] = "upload" THEN "write" ELSE "act"]
      BY <3>1 DEF BeginScript
    <3>3. f[1] = "file-move" => tree[q] = Nothing
      BY <3>1 DEF BeginScript, MayMove
    <3> QED
      BY <3>2, <3>3 DEF ScriptOK, TreeInv
  <2> QED
    BY <1>0, <2>1, <2>2
<1>4. CASE FileStep
  <2>1. CASE WriteTemporary
    <3>1. /\ tree' = tree /\ script # Idle /\ script.do # "file-move"
          /\ \/ script' = Idle /\ contents' = contents
             \/ /\ script' = [script EXCEPT !.stage = "act", !.mark = contents']
                /\ contents' = contents + 1
      BY <2>1 DEF WriteTemporary, Idle, TreeInv, ScriptOK
    <3>2. CASE script' = [script EXCEPT !.stage = "act", !.mark = contents'] /\ contents' = contents + 1
      <4>1. /\ script = [do |-> script.do, path |-> script.path, target |-> script.target,
                         mark |-> script.mark, stage |-> script.stage]
            /\ script.path \in FilePaths /\ script.target \in FilePaths /\ contents \in Nat
        BY <3>1 DEF ScriptOK, TreeInv
      <4>2. script' = [do |-> script.do, path |-> script.path, target |-> script.target,
                       mark |-> contents', stage |-> "act"]
        BY <3>2, <4>1
      <4>3. contents' \in Nat /\ contents' \in 0..contents'
        BY <3>2, <4>1
      <4> QED
        BY <3>1, <4>1, <4>2, <4>3 DEF ScriptOK, TreeInv
    <3> QED
      BY <3>1, <3>2 DEF ScriptOK, TreeInv
  <2>2. CASE Act
    <3>1. IsTree(tree')
      BY <2>2, ActTree DEF TreeInv
    <3> QED
      BY <2>2, <3>1 DEF Act, ScriptOK, TreeInv
  <2> QED
    BY <1>4, <2>1, <2>2 DEF FileStep, ScriptStep
<1>5. CASE WordPress
  <2>1. PICK p \in FilePaths :
          /\ IsDirectory(Parent(p)) /\ (tree[p] = Nothing \/ IsFile(tree[p]))
          /\ tree' = [tree EXCEPT ![p] = File(contents')]
          /\ contents' = contents + 1 /\ script' = script /\ script # Idle
    BY <1>5 DEF WordPress, WordPressWrites
  <2>2. tree[p] # Directory
    BY <2>1 DEF IsFile, Directory, Nothing
  <2>3. IsTree(tree')
    BY <2>1, <2>2, PutTree DEF TreeInv
  <2>4. /\ contents' \in Nat /\ script.mark \in 0..contents /\ script.mark \in 0..contents'
        /\ contents' \in (script.mark + 1)..contents'
        /\ WrittenSince(script.mark) \subseteq WrittenSince(script.mark)'
    BY <2>1 DEF ScriptOK, TreeInv, WrittenSince
  <2>5. script.do = "file-move" =>
          tree'[script.target] \in {Nothing} \cup WrittenSince(script.mark)'
    <3>1. tree'[script.target] = tree[script.target] \/ tree'[script.target] = File(contents')
      BY <2>1 DEF ScriptOK, TreeInv, IsTree
    <3>2. File(contents') \in WrittenSince(script.mark)'
      BY <2>1, <2>4 DEF WrittenSince, File
    <3> QED
      BY <2>1, <2>4, <3>1, <3>2 DEF ScriptOK, TreeInv
  <2> QED
    BY <2>1, <2>3, <2>4, <2>5 DEF ScriptOK, TreeInv
<1>6. CASE OpenPage \/ Reconcile \/ SchedulerTick \/ ClockTick \/ UNCHANGED consoleVars
  BY <1>0, <1>6 DEF OpenPage, Reconcile, SchedulerTick, ClockTick, consoleVars
<1>7. CASE SchedulerRuns
  BY <1>0, <1>7 DEF SchedulerRuns, CallTracked
<1> QED
  BY <1>1, <1>2, <1>3, <1>4, <1>5, <1>6, <1>7 DEF ConsoleNext, SchedulerStep

\* A call restores a backup of the record.
LEMMA RestoreStep ==
    ASSUME ConsoleTypeOK, TreeInv, [ConsoleNext]_consoleVars, task'.kind = "restore"
    PROVE  IsTree(task'.arg.tree)
<1>0. ASSUME task' = task PROVE IsTree(task'.arg.tree)
  BY <1>0 DEF TreeInv
<1>1. CASE SubmitForm
  <2>1. PICK f \in page : SubmitTracked(f) \/ UNCHANGED task
    BY <1>1 DEF SubmitForm, DeleteBackup, SaveBackupSchedule, SetSiteMail, SaveMailSettings,
                ResourcePlansAction, FileAction
  <2>2. CASE SubmitTracked(f)
    <3>1. PICK k, a, b : CallTracked(k, a, b) /\ k = f[1] /\ (k = "restore" => a \in Known(f[2]))
      BY <2>2 DEF SubmitTracked
    <3>2. a \in site.backups /\ task'.arg = a
      BY <3>1 DEF CallTracked, Known
    <3> QED
      BY <3>2 DEF TreeInv, Backups
  <2> QED
    BY <1>0, <2>1, <2>2
<1>2. CASE TaskSucceeds \/ TaskFails \/ Interrupt
  <2>1. task' = NoTask
    BY <1>2 DEF TaskSucceeds, TaskFails, Interrupt, Released
  <2> QED
    BY <2>1 DEF NoTask
<1>3. CASE SchedulerRuns
  <2>1. task' = task \/ task'.kind = "scheduled"
    BY <1>3 DEF SchedulerRuns, CallTracked
  <2> QED
    BY <1>0, <2>1
<1>4. CASE OpenPage \/ Reconcile \/ SchedulerTick \/ FileStep \/ WordPress \/ ClockTick
           \/ UNCHANGED consoleVars
  BY <1>0, <1>4 DEF OpenPage, Reconcile, SchedulerTick, FileStep, WordPress, ClockTick, consoleVars
<1> QED
  BY <1>1, <1>2, <1>3, <1>4 DEF ConsoleNext, SchedulerStep

\* Every step.
LEMMA TreeStep ==
    ASSUME ConsoleTypeOK, TreeInv, [ConsoleNext]_consoleVars
    PROVE  TreeInv'
<1>1. ASSUME NEW b \in Backups' PROVE IsTree(b.tree)
  <2>1. b \in Backups \/ b = Snapshot
    BY BackupsStep
  <2>2. Snapshot.tree = tree
    BY DEF Snapshot
  <2> QED
    BY <2>1, <2>2 DEF TreeInv
<1>2. \A b \in Backups' : IsTree(b.tree)
  BY <1>1
<1> QED
  BY <1>2, FilesStep, RestoreStep DEF TreeInv

\* A script ends in its act, or is killed before it.
LEMMA ScriptEnds ==
    ASSUME ConsoleTypeOK, TreeInv, [ConsoleNext]_consoleVars, script.stage = "act", script' = Idle
    PROVE  Act \/ tree' = tree
<1> USE DEF fileVars
<1>0. script # Idle /\ task.kind = "none"
  BY DEF Idle, ConsoleTypeOK
<1>1. CASE SubmitForm
  BY <1>0, <1>1 DEF SubmitForm, SubmitTracked, CallTracked, DeleteBackup, SaveBackupSchedule,
                    SetSiteMail, SaveMailSettings, ResourcePlansAction, FileAction, Submit, Unlocked
<1>2. CASE TaskSucceeds \/ TaskFails
  BY <1>0, <1>2 DEF TaskSucceeds, TaskFails
<1>3. CASE Interrupt
  BY <1>0, <1>3 DEF Interrupt
<1>4. CASE FileStep
  BY <1>4 DEF FileStep, ScriptStep, WriteTemporary
<1>5. CASE WordPress
  BY <1>0, <1>5 DEF WordPress, WordPressWrites
<1>6. CASE OpenPage \/ Reconcile \/ SchedulerTick \/ ClockTick \/ UNCHANGED consoleVars
  BY <1>6 DEF OpenPage, Reconcile, SchedulerTick, ClockTick, consoleVars
<1>7. CASE SchedulerRuns
  BY <1>7 DEF SchedulerRuns, CallTracked
<1> QED
  BY <1>1, <1>2, <1>3, <1>4, <1>5, <1>6, <1>7 DEF ConsoleNext, SchedulerStep

-----------------------------------------------------------------------------
(* Theorems *)

\* The records in the panel's files keep their shape, and a tracked call and a
\* file script never hold opsMu together.
THEOREM ConsoleTyped == ConsoleSpec => []ConsoleTypeOK
<1>1. ConsoleInit => ConsoleTypeOK
  BY TypedInit
<1>2. ConsoleTypeOK /\ [ConsoleNext]_consoleVars => ConsoleTypeOK'
  BY TypedStep
<1> QED
  BY <1>1, <1>2, PTL DEF ConsoleSpec

\* Whatever calls, faults and reconciliations have made of the site, a fresh page
\* offers no form that its handler (siteAction and those it calls) would refuse,
\* but for the ones that the property names.
THEOREM OffersAcceptedHolds == ConsoleSpec => []OffersAccepted
<1>1. ConsoleTypeOK => OffersAccepted
  BY OffersFromTypes
<1> QED
  BY <1>1, ConsoleTyped, PTL

\* A call acts on the plan and on the backup that the page of its form showed,
\* however old that page is.
THEOREM SubmittedAsShownHolds == ConsoleSpec => []SubmittedAsShown
<1>1. ConsoleInit => ShownInv
  BY ShownStart
<1>2. ConsoleTypeOK /\ ShownInv /\ [ConsoleNext]_consoleVars => ShownInv'
  BY ShownStep
<1>3. ShownInv => SubmittedAsShown
  BY DEF ShownInv
<1> QED
  BY <1>1, <1>2, <1>3, ConsoleTyped, PTL DEF ConsoleSpec

\* Until something fails or a backup is restored, a running site with mail uses
\* the settings last saved, whatever was saved while it was stopped.
THEOREM MailInForceHolds == ConsoleSpec => []MailInForce
<1>1. ConsoleInit => MailInv
  BY MailStart
<1>2. ConsoleTypeOK /\ MailInv /\ [ConsoleNext]_consoleVars => MailInv'
  BY MailStep
<1>3. MailInv => MailInForce
  BY DEF MailInv, Current, MailInForce
<1> QED
  BY <1>1, <1>2, <1>3, ConsoleTyped, PTL DEF ConsoleSpec

\* Until something fails, runScheduledBackups starts no backup before one is
\* wanted, although it chose the site before it had opsMu.
THEOREM ScheduleHonouredHolds == ConsoleSpec => ScheduleHonoured
<1>1. ConsoleInit => MailInv /\ DueInv
  <2>1. ConsoleInit => MailInv
    BY MailStart
  <2>2. ConsoleInit => DueInv
    BY DEF ConsoleInit, DueInv, NoTask, NoSite
  <2> QED
    BY <2>1, <2>2
<1>2. ConsoleTypeOK /\ MailInv /\ [ConsoleNext]_consoleVars => MailInv'
  BY MailStep
<1>3. ConsoleTypeOK /\ MailInv /\ DueInv /\ [ConsoleNext]_consoleVars => DueInv'
  BY DueStep
<1>4. ConsoleTypeOK /\ DueInv /\ [ConsoleNext]_consoleVars =>
        [faults = 0 /\ task.kind = "none" /\ task'.kind = "scheduled" => now >= notBefore]_consoleVars
  BY DueHonoured
<1> QED
  BY <1>1, <1>2, <1>3, <1>4, ConsoleTyped, PTL DEF ConsoleSpec, ScheduleHonoured

\* For any paths and any restored backups, a file script loses no file but the one
\* it was told to replace or delete, whatever WordPress writes between its checks
\* and its act; a move loses at most what was put at its target in between.
THEOREM FilesConservedHolds == ConsoleSpec => FilesConserved
<1>1. ConsoleInit => TreeInv
  <2>1. ConsoleInit => /\ tree = InitialTree /\ script = Idle /\ site.backups = {}
                       /\ receipt.backups = {} /\ task.kind = "none"
    BY DEF ConsoleInit, FileInit, NoSite, NoReceipt, NoTask
  <2> QED
    BY <2>1, InitialTreeAssumption DEF TreeInv, ScriptOK, Backups, ConsoleInit, FileInit
<1>2. ConsoleTypeOK /\ TreeInv /\ [ConsoleNext]_consoleVars => TreeInv'
  BY TreeStep
<1>3. ConsoleTypeOK /\ TreeInv /\ [ConsoleNext]_consoleVars =>
        [script.stage = "act" /\ script' = Idle =>
           \A lost \in Contents(tree) \ Contents(tree') :
              \/ script.do \in {"upload", "file-delete"} /\ lost = tree[script.path]
              \/ /\ script.do = "file-move" /\ lost = tree[script.target]
                 /\ lost \in WrittenSince(script.mark)]_fileVars
  <2> SUFFICES ASSUME ConsoleTypeOK, TreeInv, [ConsoleNext]_consoleVars,
                      script.stage = "act", script' = Idle,
                      NEW lost \in Contents(tree) \ Contents(tree')
               PROVE  \/ script.do \in {"upload", "file-delete"} /\ lost = tree[script.path]
                      \/ /\ script.do = "file-move" /\ lost = tree[script.target]
                         /\ lost \in WrittenSince(script.mark)
    OBVIOUS
  <2>1. CASE Act
    BY <2>1, ActKeeps DEF TreeInv
  <2>2. CASE tree' = tree
    BY <2>2
  <2> QED
    BY <2>1, <2>2, ScriptEnds
<1> QED
  BY <1>1, <1>2, <1>3, ConsoleTyped, PTL DEF ConsoleSpec, FilesConserved
=============================================================================
