------------------------------ MODULE Capacity ------------------------------
(***************************************************************************)
(* Admission of sites by memory and CPU (cmd/worker/resources.go,          *)
(* internal/core/resources.go, cmd/panel/resources.go).  Both containers   *)
(* of a site get the limits of its compose.yaml, which are checked against *)
(* the host before a create, a change or a start.  The limits a container  *)
(* has are those of compose.yaml when it was made: they differ from the    *)
(* file while a change is carried out, and after it was cut short.         *)
(*                                                                         *)
(* Memory is counted in units of 256 MiB, CPUs in quarters.                *)
(***************************************************************************)
EXTENDS Integers, Sequences, FiniteSets, FiniteSetsExt

CONSTANTS
    Sites,
    MemorySizes, CpuSizes,  \* what administrators ask for
    HostMemory, HostCpus,   \* what docker info reports
    OtherUses,              \* memory and CPUs other containers may use
    MaxFaults               \* bound on failing steps and crashes

ASSUME SitesAssumption == IsFiniteSet(Sites)
ASSUME SizesAssumption == MemorySizes \cup CpuSizes \cup OtherUses \subseteq Nat
ASSUME HostAssumption == HostMemory \in Nat /\ HostCpus \in Nat
ASSUME CapacityFaultsAssumption == MaxFaults \in Nat

VARIABLES
    config,    \* limits in a site's compose.yaml
    made,      \* limits of its containers
    running,   \* its containers that are running
    record,    \* limits in the panel's record
    failed,    \* sites the panel shows as failed: a creation may be retried
    pending,   \* the kind of a site's pending receipt
    task,      \* what holds executionMu
    booting,   \* the worker recovers pending receipts before it serves
    other,     \* memory and CPUs of other containers
    disk,      \* 2 GiB are free on both file systems
    faults

loadVars == <<other, disk>>
panelVars == <<record, failed>>
siteVars == <<config, made, running>>
capacityVars == <<siteVars, panelVars, pending, task, booting, loadVars, faults>>

Services == {"wp", "db"}
Resources == [memory : MemorySizes, cpus : CpuSizes]
None == [memory |-> 0, cpus |-> 0]
Loads == {[memory |-> n, cpus |-> n] : n \in OtherUses}

Kinds == {"create", "start", "stop", "delete", "resources",
          "restore",  \* restore and its preparation
          "tool"}     \* the database tool, which starts the database
Fenced == {"resources", "restore"}

NoTask == [kind |-> "none"]
Tasks == [kind : Kinds, site : Sites, limits : Resources \cup {None},
          todo : Seq({"inspect", "admit", "save", "stop", "recreate", "up", "stopwp",
                      "updb", "down", "remove", "fence"}),
          was : BOOLEAN,   \* resources: the site was running
          ok : BOOLEAN]    \* no error so far

CapacityTypeOK ==
    /\ config \in [Sites -> Resources \cup {None}]
    /\ made \in [Sites -> [Services -> Resources \cup {None}]]
    /\ running \in [Sites -> SUBSET Services]
    /\ \A s \in Sites : \A c \in running[s] : made[s][c] # None
    /\ record \in [Sites -> Resources \cup {None}]
    /\ failed \subseteq Sites
    /\ pending \in [Sites -> (Kinds \ {"tool"}) \cup {"none"}]
    /\ task \in Tasks \cup {NoTask}
    /\ booting \in BOOLEAN /\ disk \in BOOLEAN
    /\ other \in Loads
    /\ faults \in 0..MaxFaults

-----------------------------------------------------------------------------
(* The budget *)

\* Validate: 256 to 8192 MiB, 0.25 to 8 CPUs.
Valid(r) == r.memory \in 1..32 /\ r.cpus \in 1..32

Dimensions == {"memory", "cpus"}
Host == [memory |-> HostMemory, cpus |-> HostCpus]

\* The larger of 512 MiB and a fifth of the memory; half a CPU.
Reserve == [memory |-> Max({2, HostMemory \div 5}), cpus |-> 2]

\* hostCapacity counts both containers of every site but the excluded one,
\* running or not, with the larger of the saved and the actual limit.
AllocatedSaved(s, c, d) == config[s][d]
AllocatedRunning(s, c, d) ==
    IF c \in running[s] THEN Max({config[s][d], made[s][c][d]}) ELSE 0
Allocated(s, c, d) == Max({config[s][d], made[s][c][d]})

HostCapacity(sites, d) ==
    SumFunctionOnSet([x \in Sites \X Services |-> Allocated(x[1], x[2], d)],
                     sites \X Services)

\* The budget is exceeded rather than negative: what is used is compared with
\* what there is.
CheckOnce(id, r) ==
    /\ Valid(r) /\ disk
    /\ \A d \in Dimensions :
          r[d] + HostCapacity(Sites \ {id}, d) + other[d] + Reserve[d] <= Host[d]
Check(id, r) ==
    /\ Valid(r) /\ disk
    /\ \A d \in Dimensions :
          2 * r[d] + HostCapacity(Sites \ {id}, d) + other[d] + Reserve[d] <= Host[d]

-----------------------------------------------------------------------------
(* Requests *)

Plan(kind) ==
    CASE kind = "create" -> <<"admit", "save", "up">>
      [] kind = "start" -> <<"admit", "up">>
      [] kind = "stop" -> <<"stop">>
      [] kind = "delete" -> <<"down", "remove">>
      [] kind = "resources" -> <<"inspect", "admit", "save", "stop", "recreate">>
      [] kind = "restore" -> <<"stopwp", "updb", "up">>
      [] kind = "tool" -> <<"updb">>

Fault == faults < MaxFaults /\ faults' = faults + 1

Begin(kind, s, r) ==
    /\ task = NoTask /\ ~booting
    /\ pending[s] = "none"
    /\ task' = [kind |-> kind, site |-> s, limits |-> r, todo |-> Plan(kind),
                was |-> FALSE, ok |-> TRUE]
    /\ pending' = IF kind = "tool" THEN pending ELSE [pending EXCEPT ![s] = kind]
    /\ UNCHANGED <<siteVars, booting, loadVars, faults>>

\* The panel asks for the host's capacity first; a site is recorded as failed
\* until its creation is confirmed.
NewSite(s, r) ==
    /\ record[s] = None /\ config[s] = None
    /\ Check("none", r)
    /\ record' = [record EXCEPT ![s] = r]
    /\ failed' = failed \cup {s}
    /\ Begin("create", s, r)

\* A retry sends the record; only a creation leaves a site failed.
Retry(s) ==
    /\ s \in failed
    /\ UNCHANGED panelVars
    /\ Begin("create", s, record[s])

\* saveResources needs a site that is shown as running or stopped.
SaveResources(s, r) ==
    /\ record[s] # None /\ s \notin failed
    /\ UNCHANGED panelVars
    /\ Begin("resources", s, r)

\* A start is checked with the saved limits.
Act(kind, s) ==
    /\ record[s] # None
    /\ kind \in {"restore", "tool"} => config[s] # None /\ s \notin failed
    /\ UNCHANGED panelVars
    /\ Begin(kind, s, config[s])

-----------------------------------------------------------------------------
(* Steps *)

At(step) == task # NoTask /\ task.todo # <<>> /\ Head(task.todo) = step
Proceed == task' = [task EXCEPT !.todo = Tail(@)] /\ UNCHANGED pending

\* finish: a change that was refused before its first effect is not fenced.
Fail(step) ==
    /\ task' = [task EXCEPT !.ok = FALSE, !.todo =
                  IF task.kind \in Fenced /\ step \notin {"inspect", "admit"}
                  THEN <<"fence">> ELSE <<>>]
    /\ UNCHANGED pending

Elsewhere == UNCHANGED <<panelVars, booting, loadVars>>

\* runtimeSnapshot: both running or both stopped, with the saved limits.
Inspect ==
    /\ At("inspect")
    /\ LET s == task.site
           sound == /\ running[s] \in {{}, Services} /\ config[s] # None
                    /\ \A c \in Services : made[s][c] = config[s]
       IN  \/ /\ sound
              /\ task' = [task EXCEPT !.todo = Tail(@), !.was = running[s] # {}]
              /\ UNCHANGED <<pending, faults>>
           \/ ~sound /\ Fail("inspect") /\ UNCHANGED faults
           \/ sound /\ Fault /\ Fail("inspect")
    /\ Elsewhere /\ UNCHANGED siteVars

\* checkCapacity; a query that fails refuses too.
Admit ==
    /\ At("admit")
    /\ \/ Check(task.site, task.limits) /\ Proceed /\ UNCHANGED faults
       \/ ~Check(task.site, task.limits) /\ Fail("admit") /\ UNCHANGED faults
       \/ Check(task.site, task.limits) /\ Fault /\ Fail("admit")
    /\ Elsewhere /\ UNCHANGED siteVars

\* compose.yaml is replaced, before any container is touched.
SaveConfig ==
    /\ At("save")
    /\ LET new == [config EXCEPT ![task.site] = task.limits]
       IN  \/ config' = new /\ Proceed /\ UNCHANGED faults
           \/ config' \in {config, new} /\ Fault /\ Fail("save")
    /\ Elsewhere /\ UNCHANGED <<made, running>>

Stop(step, xs) ==
    /\ At(step)
    /\ \/ /\ config[task.site] # None
          /\ running' = [running EXCEPT ![task.site] = @ \ xs]
          /\ Proceed /\ UNCHANGED faults
       \/ /\ config[task.site] # None
          /\ \E some \in SUBSET xs : running' = [running EXCEPT ![task.site] = @ \ some]
          /\ Fault /\ Fail(step)
       \/ config[task.site] = None /\ Fail(step) /\ UNCHANGED <<running, faults>>
    /\ Elsewhere /\ UNCHANGED <<config, made>>

\* Containers that differ from compose.yaml are stopped and made again.
Made(s, xs) ==
    made' = [made EXCEPT ![s] = [c \in Services |-> IF c \in xs THEN config[s] ELSE @[c]]]

\* compose up.
Up(step, xs) ==
    /\ At(step)
    /\ LET s == task.site
       IN  \/ /\ config[s] # None
              /\ Made(s, xs) /\ running' = [running EXCEPT ![s] = @ \cup xs]
              /\ Proceed /\ UNCHANGED faults
           \/ /\ config[s] # None /\ Fault /\ Fail(step)
              /\ \E some \in SUBSET xs : \E on \in SUBSET some :
                    /\ Made(s, some)
                    /\ running' = [running EXCEPT ![s] = (@ \ some) \cup on]
           \/ config[s] = None /\ Fail(step) /\ UNCHANGED <<made, running, faults>>
    /\ Elsewhere /\ UNCHANGED config

\* The end of a change: compose up, or create --force-recreate of a stopped site.
Recreate ==
    \/ task # NoTask /\ task.was /\ Up("recreate", Services)
    \/ /\ At("recreate") /\ ~task.was
       /\ \/ Made(task.site, Services) /\ Proceed /\ UNCHANGED faults
          \/ /\ \E some \in SUBSET Services : Made(task.site, some)
             /\ Fault /\ Fail("recreate")
       /\ Elsewhere /\ UNCHANGED <<config, running>>

\* compose down.
Down ==
    /\ At("down")
    /\ \E gone \in SUBSET Services :
          /\ \/ gone = Services /\ Proceed /\ UNCHANGED faults
             \/ Fault /\ Fail("down")
          /\ running' = [running EXCEPT ![task.site] = @ \ gone]
          /\ made' = [made EXCEPT ![task.site] =
                        [c \in Services |-> IF c \in gone THEN None ELSE @[c]]]
    /\ Elsewhere /\ UNCHANGED config

Remove ==
    /\ At("remove")
    /\ LET new == [config EXCEPT ![task.site] = None]
       IN  \/ config' = new /\ Proceed /\ UNCHANGED faults
           \/ config' \in {config, new} /\ Fault /\ Fail("remove")
    /\ Elsewhere /\ UNCHANGED <<made, running>>

\* quiesceSite: a fence that fails leaves the receipt pending.
Fence ==
    /\ At("fence")
    /\ \/ /\ running' = [running EXCEPT ![task.site] = {}]
          /\ Proceed /\ UNCHANGED faults
       \/ /\ Fault /\ task' = NoTask
          /\ \E some \in SUBSET running[task.site] :
                running' = [running EXCEPT ![task.site] = some]
          /\ UNCHANGED pending
    /\ Elsewhere /\ UNCHANGED <<config, made>>

\* The receipt is closed.  The panel applies the result, or loses the answer and
\* takes the limits from the worker's configuration later on.  A site is no longer
\* shown as failed after a creation that succeeded or any answer to another action.
Conclude ==
    /\ task # NoTask /\ task.todo = <<>>
    /\ LET s == task.site
           answered == \/ task.kind \in {"start", "stop", "delete"}
                       \/ task.ok /\ task.kind = "create"
           deleted == task.ok /\ task.kind = "delete"
       IN  /\ record' = [record EXCEPT ![s] = IF deleted THEN None
                                              ELSE IF config[s] = None THEN @
                                              ELSE config[s]]
           /\ \/ ~deleted /\ UNCHANGED failed
              \/ answered /\ failed' = failed \ {s}
           /\ pending' = [pending EXCEPT ![s] = "none"]
    /\ task' = NoTask
    /\ UNCHANGED <<siteVars, booting, loadVars, faults>>

-----------------------------------------------------------------------------
(* The life of the worker and the host *)

\* /runtime or the startup, for a pending receipt.
Recover(s) ==
    /\ task = NoTask
    /\ pending[s] # "none"
    /\ task' = [kind |-> pending[s], site |-> s, limits |-> None, was |-> FALSE,
                ok |-> FALSE,
                todo |-> IF pending[s] \in Fenced THEN <<"fence">> ELSE <<>>]
    /\ UNCHANGED <<siteVars, panelVars, pending, booting, loadVars, faults>>

CrashWorker ==
    /\ Fault
    /\ task' = NoTask /\ booting' = TRUE
    /\ UNCHANGED <<siteVars, panelVars, pending, loadVars>>

Serve ==
    /\ booting /\ task = NoTask
    /\ \A s \in Sites : pending[s] = "none"
    /\ booting' = FALSE
    /\ UNCHANGED <<siteVars, panelVars, pending, task, loadVars, faults>>

LoadChanges ==
    /\ other' \in Loads
    /\ disk' \in BOOLEAN
    /\ UNCHANGED <<siteVars, panelVars, pending, task, booting, faults>>

CapacityInit ==
    /\ config = [s \in Sites |-> None]
    /\ made = [s \in Sites |-> [c \in Services |-> None]]
    /\ running = [s \in Sites |-> {}]
    /\ record = [s \in Sites |-> None]
    /\ failed = {}
    /\ pending = [s \in Sites |-> "none"]
    /\ task = NoTask /\ booting = FALSE
    /\ other \in Loads /\ disk \in BOOLEAN
    /\ faults = 0

CapacityNext ==
    \/ \E s \in Sites, r \in Resources : NewSite(s, r) \/ SaveResources(s, r)
    \/ \E s \in Sites : Retry(s) \/ Recover(s)
    \/ \E s \in Sites, kind \in {"start", "stop", "delete", "restore", "tool"} :
          Act(kind, s)
    \/ Inspect \/ Admit \/ SaveConfig \/ Recreate \/ Down \/ Remove \/ Fence
    \/ Stop("stop", Services) \/ Stop("stopwp", {"wp"})
    \/ Up("up", Services) \/ Up("updb", {"db"})
    \/ Conclude \/ CrashWorker \/ Serve \/ LoadChanges

CapacitySpec == CapacityInit /\ [][CapacityNext]_capacityVars

-----------------------------------------------------------------------------
(* Properties *)

Total(amounts) == SumFunctionOnSet(amounts, Sites \X Services)

\* What there is for sites, nothing on a host that is smaller than its reserve.
Budget(d) == Max({0, Host[d] - Reserve[d]})

\* The limits in the configurations of all sites fit into the host, its reserve
\* excluded, whatever failed between an admission and its effects.  Relaunches
\* that are not checked (a restore, the database tool) rely on it.
ConfiguredFits ==
    \A d \in Dimensions :
        Total([x \in Sites \X Services |-> config[x[1]][d]]) <= Budget(d)

\* The containers that are running fit with the limits they really have, also
\* while one site's change is half done or interrupted and another is admitted.
RunningFits ==
    \A d \in Dimensions :
        Total([x \in Sites \X Services |->
                 IF x[2] \in running[x[1]] THEN made[x[1]][x[2]][d] ELSE 0]) <= Budget(d)

\* A stopped site keeps its reservation: the start of a configured site is
\* refused for the budget only because of the disks, of other containers, or of
\* another site's containers that are larger than its configuration.
Oversized(s) == \E c \in Services, d \in Dimensions : made[s][c][d] > config[s][d]
ReservationHeld ==
    At("admit") /\ task.kind = "start" /\ task.limits # None
        /\ ~Check(task.site, task.limits)
        => \/ ~disk \/ other # None
           \/ \E s \in Sites \ {task.site} : Oversized(s)
=============================================================================
