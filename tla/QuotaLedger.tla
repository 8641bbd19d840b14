---------------------------- MODULE QuotaLedger ----------------------------
(***************************************************************************)
(* The allocation of project IDs and the preparation of sites for a quota  *)
(* (cmd/worker, quota_registry.go and quota_prepare.go), composed with the *)
(* helper they run.  A transition holds the worker's executionMu, reserves *)
(* an ID under .quota-lock, marks and fences the site, and records what    *)
(* the helper confirms.  Each of its files is saved in a step of its own.  *)
(***************************************************************************)
EXTENDS StorageAuthority

CONSTANTS
    MaxTransitions,  \* bound on the transitions ever begun
    MaxFaults,       \* bound on failing steps, crashes, kills, losses and on what
                     \* others begin to do to the file system
    Acts             \* what others may do to it

ASSUME MaxTransitionsAssumption == MaxTransitions \in Nat
ASSUME LedgerFaultsAssumption == MaxFaults \in Nat
ASSUME ActsAssumption == Acts \subseteq Interferences

VARIABLES
    proc,        \* the transition of each worker
    flock,       \* who holds .quota-lock
    dir,         \* the directory .quota exists
    sentinel,    \* .quota-initialized exists
    ledger,      \* projects.json: the project of each site, 0 for none
    authority,   \* authority-<uuid>.json: its phase
    present,     \* sites that exist
    up,          \* sites whose writers are running
    guard,       \* quota.json: the project it is pending for, 0 for none
    plan,        \* quota-plan.json
    transitions, faults

filesVars == <<dir, sentinel, ledger, authority>>
siteVars == <<present, up, guard, plan>>
boundVars == <<transitions, faults>>
ledgerVars == <<proc, flock, filesVars, siteVars, boundVars, nativeVars>>

Phases == {"none", "pending", "prepared", "tagging", "tagged"}
NoPlan == [phase |-> "none", project |-> 0]
Plans == [phase : Phases, project : 0..MaxProject]
Missing == [s \in {} |-> 0]

Idle == [pc |-> "idle"]
Down == [pc |-> "down"]
Transitions ==
    [site : Sites, tag : BOOLEAN,
     pc : {"reserve", "lock", "load", "sentinel", "create", "allocate", "save",
           "identify", "authority", "guard", "plan", "fence", "verify", "mark",
           "launch", "await", "prepared", "finish", "undo"},
     seen : Plans,             \* quota-plan.json as read at the beginning
     project : 0..MaxProject,  \* the reservation
     fresh : BOOLEAN,          \* it has created .quota
     again : BOOLEAN]          \* the ID is reserved

LedgerTypeOK ==
    /\ NativeTypeOK
    /\ proc \in [Workers -> Transitions \cup {Idle, Down}]
    /\ flock \in Workers \cup {"nobody"}
    /\ dir \in BOOLEAN /\ sentinel \in BOOLEAN
    /\ ledger \in [Sites -> 0..MaxProject] \cup {Missing}
    /\ authority \in {"none", "pending", "prepared"}
    /\ present \subseteq Sites /\ up \subseteq present
    /\ guard \in [Sites -> 0..MaxProject]
    /\ plan \in [Sites -> Plans]
    /\ transitions \in 0..MaxTransitions /\ faults \in 0..MaxFaults

-----------------------------------------------------------------------------

Fault == faults < MaxFaults /\ faults' = faults + 1 /\ UNCHANGED transitions

Marked(s) == guard[s] # 0 \/ plan[s] # NoPlan

ProcAt(w, pc) == proc[w].pc = pc
Goto(w, pc) == proc' = [proc EXCEPT ![w].pc = pc]

\* The deferred calls: the lock is released, the site is fenced.
Undo(w) ==
    /\ Goto(w, "undo")
    /\ flock' = IF flock = w THEN "nobody" ELSE flock

\* atomicConfig: the file is replaced, or an error is reported before or after
\* it is.
Saved(w, file, old, new, next) ==
    \/ file = new /\ Goto(w, next) /\ UNCHANGED <<flock, boundVars>>
    \/ file \in {old, new} /\ Fault /\ Undo(w)

-----------------------------------------------------------------------------
(* quotaDataTransition *)

\* readQuotaPlan and the phases a preparation and a tagging may begin in.
Begins(p, tag) ==
    IF tag THEN p.phase \notin {"none", "pending"}
           ELSE p.phase \notin {"tagging", "tagged"}

Enter(w, s, tag) ==
    /\ proc[w] = Idle
    /\ s \in present
    /\ transitions < MaxTransitions /\ transitions' = transitions + 1
    /\ LET pc == CASE ~Begins(plan[s], tag) -> "undo"
                   [] Begins(plan[s], tag) /\ plan[s] = NoPlan -> "reserve"
                   [] OTHER -> "lock"
       IN  proc' = [proc EXCEPT ![w] =
                      [site |-> s, tag |-> tag, pc |-> pc, seen |-> plan[s],
                       project |-> 0, fresh |-> FALSE, again |-> plan[s] # NoPlan]]
    /\ UNCHANGED <<flock, filesVars, siteVars, faults, nativeVars>>

\* reserveQuotaProject refuses a site that is marked.
Reserve(w) ==
    /\ ProcAt(w, "reserve")
    /\ IF proc[w].site \in present /\ ~Marked(proc[w].site)
       THEN Goto(w, "lock") /\ UNCHANGED flock
       ELSE Undo(w)
    /\ UNCHANGED <<filesVars, siteVars, boundVars, nativeVars>>

\* lockQuotaLedger: wait for the lock, then make the directory.
LockQuotaLedger(w) ==
    /\ ProcAt(w, "lock")
    /\ \/ /\ flock = "nobody" /\ flock' = w
          /\ proc' = [proc EXCEPT ![w].pc = "load", ![w].fresh = ~dir]
          /\ dir' = TRUE
          /\ UNCHANGED boundVars
       \/ /\ Fault /\ Undo(w)
          /\ dir' \in {dir, dir \/ flock = "nobody"}
    /\ UNCHANGED <<sentinel, ledger, authority, siteVars, nativeVars>>

\* loadQuotaLedger: only the process that made the directory may begin a ledger,
\* and only if there has never been one.
BeginningAnew(fresh) == fresh /\ ledger = Missing
Beginning(fresh) == fresh /\ ledger = Missing /\ ~sentinel

LoadQuotaLedger(w) ==
    /\ ProcAt(w, "load")
    /\ \/ /\ Beginning(proc[w].fresh)
          /\ \A s \in present : ~Marked(s)
          /\ Goto(w, "sentinel") /\ UNCHANGED flock
       \/ /\ ~Beginning(proc[w].fresh)
          /\ ledger # Missing /\ sentinel
          /\ Goto(w, IF proc[w].again THEN "identify" ELSE "allocate")
          /\ UNCHANGED flock
       \/ /\ IF Beginning(proc[w].fresh) THEN \E s \in present : Marked(s)
                                         ELSE ledger = Missing \/ ~sentinel
          /\ Undo(w)
    /\ UNCHANGED <<filesVars, siteVars, boundVars, nativeVars>>

SaveSentinel(w) ==
    /\ ProcAt(w, "sentinel")
    /\ Saved(w, sentinel', sentinel, TRUE, "create")
    /\ UNCHANGED <<dir, ledger, authority, siteVars, nativeVars>>

CreateLedger(w) ==
    /\ ProcAt(w, "create")
    /\ Saved(w, ledger', ledger, [s \in Sites |-> 0],
             IF proc[w].again THEN "identify" ELSE "allocate")
    /\ UNCHANGED <<dir, sentinel, authority, siteVars, nativeVars>>

\* storageInventory, and the site's own reservation or the first free ID.
Occupied == Census \cup {ledger[s] : s \in Sites}
FreeProjects == Projects \ Occupied

Allocate(w) ==
    /\ ProcAt(w, "allocate")
    /\ LET s == proc[w].site
           sound == /\ <<"enforcement", 0>> \notin outside
                    /\ tags[s] = {} /\ ledger[s] \notin Census
       IN  \/ /\ sound /\ ledger[s] # 0
              /\ proc' = [proc EXCEPT ![w].pc = "lock", ![w].again = TRUE,
                                      ![w].project = ledger[s]]
              /\ flock' = "nobody"
              /\ UNCHANGED boundVars
           \/ /\ sound /\ ledger[s] = 0
              /\ \E p \in FreeProjects :
                    /\ \A q \in FreeProjects : p <= q
                    /\ proc' = [proc EXCEPT ![w].pc = "save", ![w].project = p]
              /\ UNCHANGED <<flock, boundVars>>
           \/ /\ ~sound \/ (ledger[s] = 0 /\ FreeProjects = {})
              /\ Undo(w) /\ UNCHANGED boundVars
           \/ Fault /\ Undo(w)
    /\ UNCHANGED <<filesVars, siteVars, nativeVars>>

\* The ledger is saved and the lock released; the transition takes it again.
SaveReservationHolding(w) ==
    /\ ProcAt(w, "save")
    /\ ledger' = [ledger EXCEPT ![proc[w].site] = proc[w].project]
    /\ proc' = [proc EXCEPT ![w].pc = "lock", ![w].again = TRUE]
    /\ UNCHANGED <<flock, dir, sentinel, authority, siteVars, boundVars, nativeVars>>
SaveReservation(w) ==
    /\ ProcAt(w, "save")
    /\ LET new == [ledger EXCEPT ![proc[w].site] = proc[w].project]
       IN  \/ /\ ledger' = new
              /\ proc' = [proc EXCEPT ![w].pc = "lock", ![w].again = TRUE]
              /\ flock' = "nobody"
              /\ UNCHANGED boundVars
           \/ ledger' \in {ledger, new} /\ Fault /\ Undo(w)
    /\ UNCHANGED <<dir, sentinel, authority, siteVars, nativeVars>>

\* The reservation of a site that has a plan must be the plan's, and the
\* authority must be there.
Identify(w) ==
    /\ ProcAt(w, "identify")
    /\ LET s == proc[w].site
           seen == proc[w].seen
           mine == seen # NoPlan => ledger[s] # 0 /\ ledger[s] = seen.project
           known == seen # NoPlan => authority # "none"
           next == CASE authority = "none" -> "authority"
                     [] authority # "none" /\ seen = NoPlan -> "guard"
                     [] OTHER -> "fence"
       IN  IF mine /\ known
           THEN /\ proc' = [proc EXCEPT ![w].pc = next,
                              ![w].project = IF seen = NoPlan THEN @ ELSE ledger[s]]
                /\ UNCHANGED flock
           ELSE Undo(w)
    /\ UNCHANGED <<filesVars, siteVars, boundVars, nativeVars>>

SaveAuthority(w) ==
    /\ ProcAt(w, "authority")
    /\ Saved(w, authority', authority, "pending", "guard")
    /\ UNCHANGED <<dir, sentinel, ledger, siteVars, nativeVars>>

\* "The first durable launch fence precedes every cross-filesystem operation."
\* Nothing can be saved for a site that has been deleted meanwhile.
SaveGuard(w) ==
    /\ ProcAt(w, "guard")
    /\ IF proc[w].site \in present
       THEN Saved(w, guard', guard, [guard EXCEPT ![proc[w].site] = proc[w].project],
                  "plan")
       ELSE Undo(w) /\ UNCHANGED <<guard, boundVars>>
    /\ UNCHANGED <<filesVars, present, up, plan, nativeVars>>

\* The transition's own copy of the plan, with a new phase, replaces the file.
SavePlan(w, phase, next) ==
    /\ IF proc[w].site \in present
       THEN Saved(w, plan', plan, [plan EXCEPT ![proc[w].site] =
                     [phase |-> phase, project |-> proc[w].project]], next)
       ELSE Undo(w) /\ UNCHANGED <<plan, boundVars>>
    /\ UNCHANGED <<filesVars, present, up, guard, nativeVars>>

SavePending(w) == ProcAt(w, "plan") /\ SavePlan(w, "pending", "fence")

\* fenceQuotaSite stops the writers of a site and removes its tagging helper;
\* a preparing helper is not one of the site's jobs.
Fenced(s) ==
    /\ up' = up \ {s}
    /\ helper' = IF Working /\ helper.tag /\ helper.site = s THEN NoHelper ELSE helper
    /\ UNCHANGED <<present, guard, plan, stage, burned, journal, partial, tags, tree,
                   unfit, outside>>

FenceSite(w) ==
    /\ ProcAt(w, "fence")
    /\ \/ Fenced(proc[w].site) /\ Goto(w, "verify") /\ UNCHANGED <<flock, boundVars>>
       \/ Fault /\ Undo(w) /\ UNCHANGED <<siteVars, nativeVars>>
    /\ UNCHANGED filesVars

\* No container of the site is running, and no other one uses its volumes.
Verified(s) == s \notin up /\ (Working => helper.site # s)

VerifyStopped(w) ==
    /\ ProcAt(w, "verify")
    /\ IF Verified(proc[w].site)
       THEN Goto(w, IF proc[w].tag THEN "mark" ELSE "launch") /\ UNCHANGED flock
       ELSE Undo(w)
    /\ UNCHANGED <<filesVars, siteVars, boundVars, nativeVars>>

\* The phase is "tagging" on disk before the first inode is tagged.
MarkTagging(w) ==
    /\ ProcAt(w, "mark")
    /\ IF guard[proc[w].site] = proc[w].project
       THEN SavePlan(w, "tagging", "launch")
       ELSE Undo(w) /\ UNCHANGED <<filesVars, siteVars, boundVars, nativeVars>>

\* A site's journal may only be made while its plan is pending.
Claims(t) == ~t.tag /\ t.seen.phase # "prepared"

Launch(w) ==
    /\ ProcAt(w, "launch")
    /\ LET t == proc[w] IN
       IF Working \/ t.site \notin present
       THEN Undo(w) /\ UNCHANGED helper
       ELSE /\ helper' = [site |-> t.site, tag |-> t.tag, claim |-> Claims(t),
                          project |-> t.project, pc |-> "lock", fresh |-> FALSE,
                          tree |-> 0, by |-> w]
            /\ Goto(w, "await") /\ UNCHANGED flock
    /\ UNCHANGED <<filesVars, siteVars, boundVars, stage, burned, journal, partial,
                   tags, tree, unfit, outside>>

\* The answer of the helper; there is none when it was killed, and none in time
\* when the context ends, which leaves the helper running.
Answer(w) == helper.by = w /\ ~Working

Collect(w) ==
    /\ ProcAt(w, "await")
    /\ \/ /\ Answer(w) /\ helper.pc = "verified"
          /\ Goto(w, "prepared") /\ UNCHANGED <<flock, boundVars>>
          /\ helper' = NoHelper
       \/ /\ (Answer(w) /\ helper.pc = "refused") \/ helper.by # w
          /\ Undo(w) /\ UNCHANGED boundVars
          /\ helper' = IF Answer(w) THEN NoHelper ELSE helper
       \/ /\ Fault /\ Undo(w)
          /\ helper' = IF helper.by # w THEN helper
                       ELSE [helper EXCEPT !.by = "nobody"]
    /\ UNCHANGED <<filesVars, siteVars, stage, burned, journal, partial, tags, tree,
                   unfit, outside>>

ConfirmAuthority(w) ==
    /\ ProcAt(w, "prepared")
    /\ Saved(w, authority', authority, "prepared", "finish")
    /\ UNCHANGED <<dir, sentinel, ledger, siteVars, nativeVars>>

\* The phase the helper has confirmed; then both locks are released.
Finish(w) ==
    /\ ProcAt(w, "finish")
    /\ LET t == proc[w]
           phase == IF t.tag THEN "tagged" ELSE "prepared"
           new == [plan EXCEPT ![t.site] = [phase |-> phase, project |-> t.project]]
       IN  \/ /\ t.site \in present
              /\ plan' = new
              /\ proc' = [proc EXCEPT ![w] = Idle]
              /\ flock' = "nobody" /\ UNCHANGED boundVars
           \/ t.site \in present /\ plan' \in {plan, new} /\ Fault /\ Undo(w)
           \/ t.site \notin present /\ Undo(w) /\ UNCHANGED <<plan, boundVars>>
    /\ UNCHANGED <<filesVars, present, up, guard, nativeVars>>

FenceFailure(w) ==
    /\ ProcAt(w, "undo")
    /\ \/ Fenced(proc[w].site) /\ UNCHANGED boundVars
       \/ Fault /\ UNCHANGED <<siteVars, nativeVars>>
    /\ proc' = [proc EXCEPT ![w] = Idle]
    /\ UNCHANGED <<flock, filesVars>>

Step(w) ==
    \/ Reserve(w) \/ LockQuotaLedger(w) \/ LoadQuotaLedger(w) \/ SaveSentinel(w)
    \/ CreateLedger(w) \/ Allocate(w) \/ SaveReservation(w) \/ Identify(w)
    \/ SaveAuthority(w) \/ SaveGuard(w) \/ SavePending(w) \/ FenceSite(w)
    \/ VerifyStopped(w) \/ MarkTagging(w) \/ Launch(w) \/ Collect(w)
    \/ ConfirmAuthority(w) \/ Finish(w) \/ FenceFailure(w)

-----------------------------------------------------------------------------
(* What else the workers do, and what happens to them *)

\* An ordinary site is started; one that is marked is fenced, because its record
\* is never ready.
StartUngated(w, s) ==
    /\ proc[w] = Idle
    /\ s \in present
    /\ up' = up \cup {s}
    /\ UNCHANGED <<proc, flock, filesVars, present, guard, plan, boundVars, nativeVars>>
StartSite(w, s) ==
    /\ proc[w] = Idle
    /\ s \in present
    /\ IF Marked(s) THEN Fenced(s)
                    ELSE up' = up \cup {s} /\ UNCHANGED <<present, guard, plan, nativeVars>>
    /\ UNCHANGED <<proc, flock, filesVars, boundVars>>

\* The supervisor, for the site it comes to.
Sweep(w) ==
    /\ proc[w] = Idle
    /\ \E s \in Sites : IF s \in present /\ Marked(s) THEN Fenced(s)
                        ELSE UNCHANGED <<siteVars, nativeVars>>
    /\ UNCHANGED <<proc, flock, filesVars, boundVars>>

\* The containers, the volumes and the directory go, one after the other (a helper is
\* not launched once the volumes are gone); the reservation, the index and the
\* journal stay.  A running helper keeps the volumes.
DeleteSite(w, s) ==
    /\ proc[w] = Idle
    /\ s \in present
    /\ ~(Working /\ helper.site = s)
    /\ present' = present \ {s} /\ up' = up \ {s}
    /\ guard' = [guard EXCEPT ![s] = 0]
    /\ plan' = [plan EXCEPT ![s] = NoPlan]
    /\ tags' = [tags EXCEPT ![s] = {}]
    /\ UNCHANGED <<proc, flock, filesVars, boundVars, stage, burned, journal, partial,
                   tree, unfit, outside, helper>>

\* New files may get inodes that a deleted site has left.
WriteData(s) ==
    /\ s \in up
    /\ tree[s] < MaxWrites
    /\ tree' = [tree EXCEPT ![s] = @ + 1]
    /\ \E odd \in SUBSET Oddities :
          /\ "recycled" \in odd => \E t \in Journaled : t \notin present
          /\ unfit' = [unfit EXCEPT ![s] = odd]
    /\ UNCHANGED <<proc, flock, filesVars, siteVars, boundVars, stage, burned, journal,
                   partial, tags, outside, helper>>

CrashWorker(w) ==
    /\ proc[w] # Down
    /\ Fault
    /\ proc' = [proc EXCEPT ![w] = Down]
    /\ flock' = IF flock = w THEN "nobody" ELSE flock
    /\ helper' = IF helper.by = w
                 THEN [helper EXCEPT !.by = "nobody"] ELSE helper
    /\ UNCHANGED <<filesVars, siteVars, stage, burned, journal, partial, tags, tree,
                   unfit, outside>>

\* recoverInterruptedJobs removes a tagging helper, whoever began it.
Boot(w) ==
    /\ proc[w] = Down
    /\ proc' = [proc EXCEPT ![w] = Idle]
    /\ helper' = IF Working /\ helper.tag THEN NoHelper ELSE helper
    /\ UNCHANGED <<flock, filesVars, siteVars, boundVars, stage, burned, journal,
                   partial, tags, tree, unfit, outside>>

\* A helper is killed, or fails in the middle of its work.
KillHelper ==
    /\ Working
    /\ Fault
    /\ helper' = NoHelper
    /\ UNCHANGED <<proc, flock, filesVars, siteVars, stage, burned, journal, partial,
                   tags, tree, unfit, outside>>

\* The directory .quota is lost while nobody uses it.
LoseDirectory ==
    /\ dir /\ \A w \in Workers : proc[w] \in {Idle, Down}
    /\ Fault
    /\ dir' = FALSE /\ ledger' = Missing /\ authority' = "none"
    /\ UNCHANGED <<proc, flock, sentinel, siteVars, nativeVars>>

\* Others begin or cease to use a project, set or clear a limit, mount the file
\* system without enforcement or with it, change its root directory.
Interfere ==
    /\ \E x \in Acts :
          \/ Fault /\ x \notin outside /\ outside' = outside \cup {x}
          \/ x \in outside /\ outside' = outside \ {x} /\ UNCHANGED boundVars
    /\ UNCHANGED <<proc, flock, filesVars, siteVars, stage, burned,
                   journal, partial, tags, tree, unfit, helper>>

LedgerInit ==
    /\ proc = [w \in Workers |-> Idle]
    /\ flock = "nobody"
    /\ dir = FALSE /\ sentinel = FALSE /\ ledger = Missing /\ authority = "none"
    /\ present = Sites /\ up = Sites
    /\ guard = [s \in Sites |-> 0]
    /\ plan = [s \in Sites |-> NoPlan]
    /\ transitions = 0 /\ faults = 0
    /\ NativeInit

Native == HelperStep /\ UNCHANGED <<proc, flock, filesVars, siteVars, boundVars>>

LedgerNext ==
    \/ \E w \in Workers :
          \/ \E s \in Sites : \/ \E tag \in BOOLEAN : Enter(w, s, tag)
                              \/ StartSite(w, s) \/ DeleteSite(w, s)
          \/ Step(w) \/ Sweep(w) \/ CrashWorker(w) \/ Boot(w)
    \/ Native \/ KillHelper \/ LoseDirectory \/ Interfere
    \/ \E s \in Sites : WriteData(s)

\* Goroutines and helpers are scheduled, and the worker is restarted.
LedgerSpec ==
    /\ LedgerInit /\ [][LedgerNext]_ledgerVars
    /\ \A w \in Workers : WF_ledgerVars(Step(w)) /\ WF_ledgerVars(Boot(w))
    /\ WF_ledgerVars(Native)

-----------------------------------------------------------------------------
(* Properties *)

\* The project IDs bound to a site by any of the files that name one.
ProjectsOf(s) ==
    {p \in Projects :
        \/ ledger # Missing /\ ledger[s] = p
        \/ <<s, p>> \in burned
        \/ p \in {guard[s], plan[s].project, journal[s].project}}

\* No two sites, deleted ones included, are ever bound to one project, and none
\* to a project of others: not by concurrent workers, crashes between two saves,
\* or the loss of .quota.  The comment in loadQuotaLedger: "losing that directory
\* cannot silently reset burned reservations".
ProjectsUnique ==
    /\ \A s, t \in Sites : s # t => ProjectsOf(s) \cap ProjectsOf(t) = {}
    /\ \A s \in Sites : ProjectsOf(s) \cap Foreign = {}

\* A journal has its entry in the index of burned IDs and the project the ledger
\* has reserved, and describes the data as they are: no writer has run since.
JournalCurrent ==
    \A s \in Journaled :
        /\ <<s, journal[s].project>> \in burned
        /\ ledger # Missing => ledger[s] = journal[s].project
        /\ s \in present => journal[s].tree = tree[s]

\* Data that carry a tag belong to a site whose plan says so, which is fenced by
\* its pending record and is not running; "tagged" means every inode.
TagsPlanned ==
    \A s \in Sites :
        /\ tags[s] # {} => /\ plan[s].phase \in {"tagging", "tagged"}
                           /\ guard[s] = journal[s].project
                           /\ s \notin up
        /\ plan[s].phase = "tagged" => tags[s] = Nodes

\* What the files say of a site's preparation is true of its data, wherever a
\* worker or a helper was stopped and whoever started the site in between.
PreparationSound == JournalCurrent /\ TagsPlanned

\* An interrupted tagging can be taken up again: a helper that is to tag a site
\* refuses, before its first inode or after its last, only for what it has not done
\* itself and finds at that moment.  Either the journal of some site was cut short while
\* it was written; or the site's data are of a kind that is never tagged; or others have
\* made use of the project or set a limit, or changed the file system.  The site's
\* own tags, the ledger and what earlier helpers and workers left are no cause.
\* (The accounting of XFS is taken to agree with its inodes.)
Cause(h) ==
    \/ ~JournalsSound
    \/ unfit[h.site] # {}
    \/ <<"inode", h.project>> \in outside
    \/ ~Unlimited(h.project)
    \/ ~Enforced
RefusedForCause ==
    [][helper # NoHelper /\ helper.tag /\ helper.pc # "refused" /\ helper'.pc = "refused"
         => Cause(helper)]_ledgerVars

\* Every transition ends: .quota-lock, which it takes twice, and the lock of the
\* authority never make it wait for ever.
TransitionEnds ==
    \A w \in Workers : proc[w] \notin {Idle, Down} ~> proc[w] \in {Idle, Down}
=============================================================================
