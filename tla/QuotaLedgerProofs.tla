------------------------- MODULE QuotaLedgerProofs -------------------------
(***************************************************************************)
(* TLAPS proofs about QuotaLedger: no project ID is ever bound to two      *)
(* sites, a journal describes the data it is for, and a tagging is refused *)
(* only for a journal that was cut short, for any number of workers; and   *)
(* with one worker, tagged data are fenced.  All of it holds for any       *)
(* number of sites, inodes, projects, transitions and faults.              *)
(***************************************************************************)
EXTENDS QuotaLedger, TLAPS

-----------------------------------------------------------------------------
(* The inductive invariant of the project IDs *)

\* The project p stands for the site s in a file other than the ledger, or in
\* the request of the helper.
Bound(s, p) ==
    /\ p # 0
    /\ \/ <<s, p>> \in burned
       \/ p \in {guard[s], plan[s].project, journal[s].project}
       \/ helper # NoHelper /\ helper.site = s /\ helper.project = p

Unbound == \A s \in Sites : \A p \in Projects : ~Bound(s, p)

\* Sites never share a project, and there is none before the sentinel exists.
BoundApart ==
    /\ \A s, t \in Sites : \A p \in Projects :
          Bound(s, p) => p \notin Foreign /\ (Bound(t, p) => s = t)
    /\ ~sentinel => ledger = Missing /\ Unbound

\* The ledger, while it exists, has every binding.
LedgerRules ==
    ledger # Missing =>
        /\ \A s \in Sites : /\ \A p \in Projects : Bound(s, p) => p = ledger[s]
                           /\ ledger[s] \notin Foreign
        /\ \A s, t \in Sites : ledger[s] = ledger[t] => s = t \/ ledger[s] = 0

Resting == {"idle", "down", "undo"}
Unlocked == Resting \cup {"reserve", "lock"}
Beginnings == {"sentinel", "create"}
Owning == {"authority", "guard", "plan", "fence", "verify", "mark", "launch", "await",
           "prepared", "finish"}

\* What a transition knows of the ledger: only one that found no binding begins a
\* ledger, and the project of any other is the one the ledger has or will have.
Holds(t) ==
    /\ t.pc \in Beginnings => ledger = Missing /\ Unbound
    /\ t.pc = "create" => sentinel
    /\ t.pc = "identify" => t.again
    /\ t.pc \in {"reserve", "lock", "load", "identify"} \cup Beginnings =>
          /\ t.again /\ t.seen = NoPlan => t.project # 0
          /\ t.project # 0 => ledger # Missing /\ ledger[t.site] = t.project
    /\ t.pc \in {"allocate", "save", "identify"} \cup Owning => ledger # Missing
    /\ t.pc = "save" => /\ t.project \in Projects \ Foreign
                        /\ \A s \in Sites : ledger[s] # t.project
                        /\ ledger[t.site] = 0
    /\ t.pc \in Owning => t.project # 0 /\ ledger[t.site] = t.project

PCs == {"reserve", "lock", "load", "sentinel", "create", "allocate", "save", "identify",
        "undo"} \cup Owning

ProcHolds(w) ==
    /\ proc[w].pc \notin Unlocked => flock = w
    /\ proc[w].pc \notin Resting => Holds(proc[w])

ProjectsInv ==
    /\ LedgerTypeOK
    /\ BoundApart
    /\ LedgerRules
    /\ \A w \in Workers : ProcHolds(w)

-----------------------------------------------------------------------------
(* Types *)

\* A worker that is neither idle nor down has a transition.
LEMMA ProcTypes ==
    ASSUME LedgerTypeOK, NEW w \in Workers
    PROVE  /\ proc[w] \in Transitions \cup {Idle, Down}
           /\ proc[w].pc \notin {"idle", "down"} => proc[w] \in Transitions
           /\ proc[w].pc = "idle" => proc[w] = Idle
           /\ proc[w].pc = "down" => proc[w] = Down
BY DEF LedgerTypeOK, Transitions, Idle, Down

\* A helper that is anywhere in its work is a record of its request.
LEMMA HelperTypes ==
    ASSUME NativeTypeOK
    PROVE  /\ helper.pc # "none" => helper \in Helpers
           /\ helper # NoHelper => helper \in Helpers
           /\ helper.pc = "none" => helper = NoHelper
           /\ NoHelper.pc = "none" /\ NoHelper.by = "nobody"
BY DEF NativeTypeOK, Helpers, NoHelper

\* The stages by their names.
LEMMA StageNames ==
    /\ {Stages[n] : n \in 1..5} = {"none", "locked", "plans", "burned", "owned"}
    /\ \A n \in 1..4 : Stages[n + 1] \in {"locked", "plans", "burned", "owned"}
BY DEF Stages

\* A transition that goes to another of its steps is still a transition.
LEMMA ProcUpdate ==
    ASSUME LedgerTypeOK, NEW w \in Workers, NEW t \in Transitions \cup {Idle, Down},
           proc' = [proc EXCEPT ![w] = t]
    PROVE  /\ proc' \in [Workers -> Transitions \cup {Idle, Down}]
           /\ proc'[w] = t
           /\ \A v \in Workers \ {w} : proc'[v] = proc[v]
BY DEF LedgerTypeOK

\* Goto changes the next step and nothing else.
LEMMA GotoType ==
    ASSUME LedgerTypeOK, NEW w \in Workers, proc[w].pc \notin {"idle", "down"},
           NEW pc \in PCs, Goto(w, pc)
    PROVE  /\ proc' \in [Workers -> Transitions \cup {Idle, Down}]
           /\ proc'[w] = [proc[w] EXCEPT !.pc = pc]
           /\ proc'[w] \in Transitions
           /\ \A v \in Workers \ {w} : proc'[v] = proc[v]
<1>1. proc[w] \in Transitions
  BY ProcTypes
<1>2. [proc[w] EXCEPT !.pc = pc] \in Transitions
  BY <1>1 DEF Transitions, PCs, Owning
<1>3. proc' = [proc EXCEPT ![w] = [proc[w] EXCEPT !.pc = pc]]
  BY DEF Goto, LedgerTypeOK
<1> QED
  BY <1>2, <1>3, ProcUpdate

\* Every step of prepare() and of tag_data() keeps the types.
LEMMA NativeType ==
    ASSUME NativeTypeOK, HelperStep
    PROVE  NativeTypeOK'
<1> USE HelperTypes, MaxProjectAssumption, MaxWritesAssumption DEF NativeTypeOK, HelperAt, Advance
<1>1. CASE TakeLock
  <2>1. helper \in Helpers
    BY <1>1 DEF TakeLock
  <2>2. stage' \in {Stages[n] : n \in 1..5}
    BY <1>1, StageNames DEF TakeLock
  <2>3. ASSUME NEW b \in BOOLEAN
        PROVE  [helper EXCEPT !.pc = "open", !.fresh = b] \in Helpers
    BY <2>1 DEF Helpers
  <2>4. [helper EXCEPT !.pc = "refused"] \in Helpers
    BY <2>1 DEF Helpers
  <2>5. helper' \in Helpers
    <3>1. (stage = "none") \in BOOLEAN
      OBVIOUS
    <3>2. [helper EXCEPT !.pc = "open", !.fresh = (stage = "none")] \in Helpers
      BY <2>3, <3>1
    <3> QED
      BY <1>1, <2>4, <3>2 DEF TakeLock
  <2>6. UNCHANGED <<burned, journal, partial, tags, tree, unfit, outside>>
    BY <1>1 DEF TakeLock
  <2> QED
    BY <2>2, <2>5, <2>6
<1>2. CASE Initialize
  BY <1>2, StageNames DEF Initialize
<1>3. CASE CheckOwner
  BY <1>3 DEF CheckOwner, Helpers
<1>4. CASE InspectPrepare
  BY <1>4 DEF InspectPrepare, Helpers
<1>5. CASE Burn
  BY <1>5 DEF Burn, Helpers
<1>6. CASE WriteJournal
  BY <1>6 DEF WriteJournal, Helpers
<1>7. CASE Publish
  BY <1>7 DEF Publish, Helpers, Journals
<1>8. CASE InspectTag
  BY <1>8 DEF InspectTag, Helpers
<1>9. CASE TagNode
  BY <1>9 DEF TagNode, Helpers
<1>10. CASE TagsDone
  BY <1>10 DEF TagsDone, Helpers
<1>11. CASE ConfirmTags
  BY <1>11 DEF ConfirmTags, Helpers
<1> QED
  BY <1>1, <1>2, <1>3, <1>4, <1>5, <1>6, <1>7, <1>8, <1>9, <1>10, <1>11 DEF HelperStep

-----------------------------------------------------------------------------
(* Project IDs: the steps of a transition *)

\* No step binds a project that the ledger has not reserved for the site.
BindsReserved ==
    \A s \in Sites : \A p \in Projects :
        Bound(s, p)' => Bound(s, p) \/ (ledger # Missing /\ p = ledger[s])

\* A step of one worker that leaves the ledger alone, keeps the sentinel and binds what is reserved
\* preserves the invariant if it does for that worker.
LEMMA LocalStep ==
    ASSUME ProjectsInv, LedgerTypeOK', NEW w \in Workers,
           \A v \in Workers \ {w} : proc'[v] = proc[v] /\ (flock = v => flock' = v),
           ledger' = ledger, sentinel => sentinel',
           BindsReserved,
           ProcHolds(w)'
    PROVE  ProjectsInv'
<1>1. LedgerRules'
  BY DEF ProjectsInv, LedgerRules, BindsReserved
<1>2. BoundApart'
  BY DEF ProjectsInv, BoundApart, LedgerRules, Unbound, BindsReserved, Projects
<1>3. ledger = Missing /\ Unbound => Unbound'
  BY DEF Unbound, BindsReserved
<1>4. ASSUME NEW v \in Workers \ {w}
      PROVE  ProcHolds(v)'
  BY <1>3, <1>4 DEF ProjectsInv, ProcHolds, Holds
<1> QED
  BY <1>1, <1>2, <1>4 DEF ProjectsInv

\* The types of everything but the transitions and the lock.
DataTypeOK ==
    /\ NativeTypeOK
    /\ dir \in BOOLEAN /\ sentinel \in BOOLEAN
    /\ ledger \in [Sites -> 0..MaxProject] \cup {Missing}
    /\ authority \in {"none", "pending", "prepared"}
    /\ present \subseteq Sites /\ up \subseteq present
    /\ guard \in [Sites -> 0..MaxProject]
    /\ plan \in [Sites -> Plans]
    /\ transitions \in 0..MaxTransitions /\ faults \in 0..MaxFaults

\* A step that writes to no file keeps their types.
LEMMA DataTypeKept ==
    ASSUME LedgerTypeOK, UNCHANGED <<filesVars, siteVars, nativeVars>>,
           UNCHANGED boundVars \/ Fault
    PROVE  DataTypeOK'
BY LedgerFaultsAssumption
   DEF LedgerTypeOK, DataTypeOK, NativeTypeOK, filesVars, siteVars, nativeVars, boundVars, Fault

\* Nothing is bound by a step that leaves the files of the sites and the helper.
LEMMA BoundKept ==
    ASSUME UNCHANGED <<guard, plan, burned, journal, helper>>
    PROVE  BindsReserved /\ \A s \in Sites : \A p \in Projects : Bound(s, p)' => Bound(s, p)
BY DEF Bound, BindsReserved

\* A worker gives its transition a new state.
LEMMA MoveStep ==
    ASSUME ProjectsInv, DataTypeOK', NEW w \in Workers,
           NEW t \in Transitions \cup {Idle, Down}, proc' = [proc EXCEPT ![w] = t],
           flock' \in Workers \cup {"nobody"},
           flock' = flock \/ flock = w \/ flock = "nobody",
           ledger' = ledger, sentinel => sentinel',
           BindsReserved,
           ProcHolds(w)'
    PROVE  ProjectsInv'
<1>1. /\ proc' \in [Workers -> Transitions \cup {Idle, Down}]
      /\ proc'[w] = t
      /\ \A v \in Workers \ {w} : proc'[v] = proc[v]
  BY ProcUpdate DEF ProjectsInv
<1>2. LedgerTypeOK'
  BY <1>1 DEF LedgerTypeOK, DataTypeOK
<1>3. \A v \in Workers \ {w} : flock = v => flock' = v
  BY WorkersAssumption
<1> QED
  BY <1>1, <1>2, <1>3, LocalStep

\* A transition goes to another step and keeps the lock as it is.
LEMMA GotoStep ==
    ASSUME ProjectsInv, DataTypeOK', NEW w \in Workers, proc[w].pc \notin {"idle", "down"},
           NEW pc \in PCs, Goto(w, pc), flock' = flock,
           ledger' = ledger, sentinel => sentinel',
           BindsReserved,
           ProcHolds(w)'
    PROVE  ProjectsInv'
<1>1. LedgerTypeOK
  BY DEF ProjectsInv
<1>2. LedgerTypeOK'
  BY <1>1, GotoType DEF LedgerTypeOK, DataTypeOK
<1> QED
  BY <1>1, <1>2, GotoType, LocalStep

\* The deferred calls bind nothing.
LEMMA UndoStep ==
    ASSUME ProjectsInv, DataTypeOK', NEW w \in Workers, proc[w].pc \notin {"idle", "down"},
           Undo(w), ledger' = ledger, sentinel => sentinel',
           BindsReserved
    PROVE  ProjectsInv'
<1>1. LedgerTypeOK /\ Goto(w, "undo") /\ "undo" \in PCs
  BY DEF ProjectsInv, Undo, PCs
<1>2. proc'[w] = [proc[w] EXCEPT !.pc = "undo"] /\ proc[w] \in Transitions
  BY <1>1, GotoType, ProcTypes
<1>3. proc'[w].pc = "undo"
  BY <1>2 DEF Transitions
<1>4. ProcHolds(w)'
  BY <1>3 DEF ProcHolds, Resting, Unlocked
<1>5. /\ flock' \in Workers \cup {"nobody"}
      /\ \A v \in Workers \ {w} : flock = v => flock' = v
  BY <1>1 DEF Undo, LedgerTypeOK
<1>6. LedgerTypeOK'
  BY <1>1, <1>5, GotoType DEF LedgerTypeOK, DataTypeOK
<1> QED
  BY <1>1, <1>4, <1>5, <1>6, GotoType, LocalStep

\* What a transition at a step of its own is known to be.
LEMMA AtStep ==
    ASSUME ProjectsInv, NEW w \in Workers, proc[w].pc \notin Resting
    PROVE  /\ LedgerTypeOK /\ proc[w] \in Transitions /\ Holds(proc[w])
           /\ proc[w].pc \notin Unlocked => flock = w
           /\ proc[w].pc \notin {"idle", "down"}
           /\ proc[w].site \in Sites
BY ProcTypes DEF ProjectsInv, ProcHolds, Resting, Transitions

\* Reserve only looks.
LEMMA ReserveHolds ==
    ASSUME ProjectsInv, NEW w \in Workers, Reserve(w)
    PROVE  ProjectsInv'
<1>1. proc[w].pc = "reserve" /\ proc[w].pc \notin Resting
  BY DEF Reserve, ProcAt, Resting
<1>2. DataTypeOK' /\ BindsReserved
  BY <1>1, AtStep, DataTypeKept, BoundKept DEF Reserve, siteVars, nativeVars
<1>3. ledger' = ledger /\ (sentinel => sentinel')
  BY DEF Reserve, filesVars
<1>4. CASE Undo(w)
  BY <1>1, <1>2, <1>3, <1>4, AtStep, UndoStep
<1>5. CASE Goto(w, "lock") /\ UNCHANGED flock
  <2>1. "lock" \in PCs /\ proc'[w] = [proc[w] EXCEPT !.pc = "lock"]
    BY <1>1, <1>5, AtStep, GotoType DEF PCs
  <2>2. ProcHolds(w)'
    BY <1>1, <1>3, <1>5, <2>1, AtStep DEF ProcHolds, Holds, Transitions, Beginnings, Owning, Unlocked, Resting
  <2> QED
    BY <1>1, <1>2, <1>3, <1>5, <2>1, <2>2, AtStep, GotoStep
<1> QED
  BY <1>4, <1>5 DEF Reserve

\* Taking the lock changes nothing that is bound.
LEMMA LockHolds ==
    ASSUME ProjectsInv, NEW w \in Workers, LockQuotaLedger(w)
    PROVE  ProjectsInv'
<1>1. proc[w].pc = "lock" /\ proc[w].pc \notin Resting
  BY DEF LockQuotaLedger, ProcAt, Resting
<1>2. DataTypeOK' /\ BindsReserved
  <2>1. BindsReserved
    BY BoundKept DEF LockQuotaLedger, siteVars, nativeVars
  <2>2. /\ LedgerTypeOK /\ dir' \in BOOLEAN
        /\ UNCHANGED boundVars \/ Fault
    BY <1>1, AtStep DEF LockQuotaLedger, LedgerTypeOK
  <2> QED
    BY <2>1, <2>2, LedgerFaultsAssumption
    DEF LockQuotaLedger, DataTypeOK, LedgerTypeOK, NativeTypeOK, siteVars, nativeVars, boundVars, Fault
<1>3. ledger' = ledger /\ (sentinel => sentinel')
  BY DEF LockQuotaLedger
<1>4. CASE Undo(w)
  BY <1>1, <1>2, <1>3, <1>4, AtStep, UndoStep
<1>5. CASE flock = "nobody" /\ flock' = w /\ proc' = [proc EXCEPT ![w].pc = "load", ![w].fresh = ~dir]
  <2> DEFINE t == [proc[w] EXCEPT !.pc = "load", !.fresh = ~dir]
  <2>1. t \in Transitions
    <3>1. proc[w] \in Transitions /\ (~dir) \in BOOLEAN
      BY <1>1, AtStep
    <3>2. ASSUME NEW b \in BOOLEAN
          PROVE  [proc[w] EXCEPT !.pc = "load", !.fresh = b] \in Transitions
      BY <3>1 DEF Transitions
    <3> QED
      BY <3>1, <3>2
  <2>2. /\ t.pc = "load" /\ t.site = proc[w].site /\ t.project = proc[w].project
        /\ t.again = proc[w].again /\ t.seen = proc[w].seen
    BY <1>1, AtStep DEF Transitions
  <2>3. proc' = [proc EXCEPT ![w] = t] /\ proc'[w] = t
    BY <1>1, <1>5, AtStep DEF LedgerTypeOK
  <2> HIDE DEF t
  <2>4. ProcHolds(w)'
    BY <1>1, <1>3, <1>5, <2>2, <2>3, AtStep DEF ProcHolds, Holds, Beginnings, Owning, Unlocked, Resting
  <2> QED
    BY <1>1, <1>2, <1>3, <1>5, <2>1, <2>3, <2>4, MoveStep
<1> QED
  BY <1>4, <1>5 DEF LockQuotaLedger

\* Only a directory without any binding lets a ledger be begun.
LEMMA LoadHolds ==
    ASSUME ProjectsInv, NEW w \in Workers, LoadQuotaLedger(w)
    PROVE  ProjectsInv'
<1>1. proc[w].pc = "load" /\ proc[w].pc \notin Resting /\ proc[w].pc \notin Unlocked
  BY DEF LoadQuotaLedger, ProcAt, Resting, Unlocked
<1>2. DataTypeOK' /\ BindsReserved /\ \A s \in Sites : \A p \in Projects : Bound(s, p)' => Bound(s, p)
  BY <1>1, AtStep, DataTypeKept, BoundKept DEF LoadQuotaLedger, siteVars, nativeVars
<1>3. ledger' = ledger /\ (sentinel => sentinel')
  BY DEF LoadQuotaLedger, filesVars
<1>4. CASE Undo(w)
  BY <1>1, <1>2, <1>3, <1>4, AtStep, UndoStep
<1>5. CASE Beginning(proc[w].fresh) /\ Goto(w, "sentinel") /\ UNCHANGED flock
  <2>1. "sentinel" \in PCs /\ proc'[w] = [proc[w] EXCEPT !.pc = "sentinel"]
    BY <1>1, <1>5, AtStep, GotoType DEF PCs
  <2>2. ledger = Missing /\ Unbound /\ Unbound'
    BY <1>2, <1>5 DEF Beginning, ProjectsInv, BoundApart, Unbound
  <2>3. ProcHolds(w)'
    BY <1>1, <1>3, <1>5, <2>1, <2>2, AtStep DEF ProcHolds, Holds, Transitions, Beginnings, Owning, Unlocked, Resting
  <2> QED
    BY <1>1, <1>2, <1>3, <1>5, <2>1, <2>3, AtStep, GotoStep
<1>6. CASE /\ ledger # Missing /\ UNCHANGED flock
           /\ (Goto(w, "identify") /\ proc[w].again) \/ Goto(w, "allocate")
  <2>1. PICK pc \in {"identify", "allocate"} : Goto(w, pc) /\ (pc = "identify" => proc[w].again)
    BY <1>6
  <2>2. pc \in PCs /\ proc'[w] = [proc[w] EXCEPT !.pc = pc]
    BY <1>1, <2>1, AtStep, GotoType DEF PCs
  <2>3. ProcHolds(w)'
    BY <1>1, <1>3, <1>6, <2>1, <2>2, AtStep DEF ProcHolds, Holds, Transitions, Beginnings, Owning, Unlocked, Resting
  <2> QED
    BY <1>1, <1>2, <1>3, <1>6, <2>1, <2>2, <2>3, AtStep, GotoStep
<1> QED
  BY <1>4, <1>5, <1>6 DEF LoadQuotaLedger
\* The sentinel is written while nothing is bound.
LEMMA SentinelHolds ==
    ASSUME ProjectsInv, NEW w \in Workers, SaveSentinel(w)
    PROVE  ProjectsInv'
<1>1. proc[w].pc = "sentinel" /\ proc[w].pc \notin Resting /\ proc[w].pc \notin Unlocked
  BY DEF SaveSentinel, ProcAt, Resting, Unlocked
<1>2. BindsReserved /\ \A s \in Sites : \A p \in Projects : Bound(s, p)' => Bound(s, p)
  BY BoundKept DEF SaveSentinel, siteVars, nativeVars
<1>3. ledger' = ledger /\ (sentinel => sentinel') /\ sentinel' \in BOOLEAN
  <2>1. sentinel \in BOOLEAN
    BY DEF ProjectsInv, LedgerTypeOK
  <2>2. sentinel' = TRUE \/ sentinel' = sentinel
    BY Zenon DEF SaveSentinel, Saved
  <2> QED
    BY <2>1, <2>2, Zenon DEF SaveSentinel
<1>4. DataTypeOK'
  <2>1. UNCHANGED boundVars \/ Fault
    BY Zenon DEF SaveSentinel, Saved
  <2> QED
    BY <1>1, <1>3, <2>1, AtStep, LedgerFaultsAssumption
    DEF SaveSentinel, DataTypeOK, LedgerTypeOK, NativeTypeOK, siteVars, nativeVars, boundVars, Fault
<1>5. CASE Undo(w)
  BY <1>1, <1>2, <1>3, <1>4, <1>5, AtStep, UndoStep
<1>6. CASE sentinel' = TRUE /\ Goto(w, "create") /\ UNCHANGED flock
  <2>1. "create" \in PCs /\ proc'[w] = [proc[w] EXCEPT !.pc = "create"]
    BY <1>1, <1>6, AtStep, GotoType DEF PCs
  <2>2. Unbound'
    BY <1>1, <1>2, AtStep DEF Holds, Beginnings, Unbound
  <2>3. ProcHolds(w)'
    BY <1>1, <1>3, <1>6, <2>1, <2>2, AtStep DEF ProcHolds, Holds, Transitions, Beginnings, Owning, Unlocked, Resting
  <2> QED
    BY <1>1, <1>2, <1>3, <1>4, <1>6, <2>1, <2>3, AtStep, GotoStep
<1> QED
  BY <1>5, <1>6 DEF SaveSentinel, Saved

\* An empty ledger comes into a world without bindings, and no other transition
\* has a project.
LEMMA CreateHolds ==
    ASSUME ProjectsInv, NEW w \in Workers, CreateLedger(w)
    PROVE  ProjectsInv'
<1>1. proc[w].pc = "create" /\ proc[w].pc \notin Resting /\ proc[w].pc \notin Unlocked
  BY DEF CreateLedger, ProcAt, Resting, Unlocked
<1>2. BindsReserved /\ \A s \in Sites : \A p \in Projects : Bound(s, p)' => Bound(s, p)
  BY BoundKept DEF CreateLedger, siteVars, nativeVars
<1>3. /\ LedgerTypeOK /\ sentinel' = sentinel /\ sentinel /\ flock = w
      /\ ledger = Missing /\ Unbound /\ Unbound'
  BY <1>1, <1>2, AtStep DEF CreateLedger, Holds, Beginnings, Unbound
<1>4. ledger' \in {ledger, [s \in Sites |-> 0]}
  BY DEF CreateLedger, Saved
<1>5. DataTypeOK'
  BY <1>3, <1>4, MaxProjectAssumption, LedgerFaultsAssumption
  DEF CreateLedger, Saved, DataTypeOK, LedgerTypeOK, NativeTypeOK, siteVars, nativeVars, boundVars, Fault
<1>6. BoundApart' /\ LedgerRules'
  <2>1. \A s \in Sites : [q \in Sites |-> 0][s] = 0 /\ 0 \notin Foreign
    BY ForeignAssumption, MaxProjectAssumption
  <2> QED
    BY <1>3, <1>4, <2>1 DEF BoundApart, LedgerRules, Unbound
<1>7. ASSUME NEW v \in Workers \ {w}, proc'[v] = proc[v]
      PROVE  ProcHolds(v)'
  <2>1. proc[v].pc \in Unlocked
    BY <1>3 DEF ProjectsInv, ProcHolds
  <2>2. proc[v].pc \in {"reserve", "lock"} \/ proc[v].pc \in Resting
    BY <2>1 DEF Unlocked
  <2>3. CASE proc[v].pc \in Resting
    BY <1>7, <2>1, <2>3 DEF ProcHolds
  <2>4. CASE proc[v].pc \in {"reserve", "lock"}
    <3>1. Holds(proc[v])
      BY <2>4 DEF ProjectsInv, ProcHolds, Resting
    <3>2. proc[v].project = 0 /\ (proc[v].again /\ proc[v].seen = NoPlan => proc[v].project # 0)
      BY <1>3, <2>4, <3>1 DEF Holds
    <3> QED
      BY <1>7, <2>1, <2>4, <3>2 DEF ProcHolds, Holds, Beginnings, Owning
  <2> QED
    BY <2>2, <2>3, <2>4
<1>8. CASE Undo(w)
  <2>1. Goto(w, "undo") /\ "undo" \in PCs
    BY <1>8 DEF Undo, PCs
  <2>2. proc'[w] = [proc[w] EXCEPT !.pc = "undo"]
    BY <1>1, <1>3, <2>1, GotoType
  <2>3. ProcHolds(w)'
    BY <1>1, <2>2, AtStep DEF ProcHolds, Resting, Unlocked, Transitions
  <2>4. LedgerTypeOK'
    BY <1>1, <1>3, <1>5, <1>8, <2>1, GotoType DEF LedgerTypeOK, DataTypeOK, Undo
  <2> QED
    BY <1>1, <1>3, <1>6, <1>7, <2>1, <2>3, <2>4, GotoType DEF ProjectsInv
<1>9. CASE /\ ledger' = [s \in Sites |-> 0] /\ UNCHANGED flock
           /\ Goto(w, IF proc[w].again THEN "identify" ELSE "allocate")
  <2> DEFINE pc == IF proc[w].again THEN "identify" ELSE "allocate"
  <2>1. pc \in PCs /\ proc'[w] = [proc[w] EXCEPT !.pc = pc]
    BY <1>1, <1>3, <1>9, GotoType DEF PCs
  <2>2. proc[w].site \in Sites /\ ledger' # Missing
    <3>1. proc[w].site \in Sites
      BY <1>1, AtStep
    <3>2. DOMAIN ledger' = Sites /\ DOMAIN Missing = {}
      BY <1>9 DEF Missing
    <3> QED
      BY <3>1, <3>2
  <2>3. proc[w].project = 0 /\ (proc[w].again /\ proc[w].seen = NoPlan => proc[w].project # 0)
    BY <1>1, <1>3, AtStep DEF Holds, Beginnings
  <2>4. ProcHolds(w)'
    BY <1>1, <1>3, <1>9, <2>1, <2>2, <2>3, AtStep
    DEF ProcHolds, Holds, Transitions, Beginnings, Owning, Unlocked, Resting
  <2>5. LedgerTypeOK'
    BY <1>1, <1>3, <1>5, <1>9, <2>1, GotoType DEF LedgerTypeOK, DataTypeOK
  <2> QED
    BY <1>1, <1>3, <1>6, <1>7, <1>9, <2>1, <2>4, <2>5, GotoType DEF ProjectsInv
<1> QED
  BY <1>8, <1>9 DEF CreateLedger, Saved
\* The project that is chosen is in no file: the ledger has every binding.
LEMMA AllocateHolds ==
    ASSUME ProjectsInv, NEW w \in Workers, Allocate(w)
    PROVE  ProjectsInv'
<1>1. proc[w].pc = "allocate" /\ proc[w].pc \notin Resting /\ proc[w].pc \notin Unlocked
  BY DEF Allocate, ProcAt, Resting, Unlocked
<1>2. DataTypeOK' /\ BindsReserved
  <2>1. UNCHANGED boundVars \/ Fault
    BY DEF Allocate
  <2> QED
    BY <1>1, <2>1, AtStep, DataTypeKept, BoundKept DEF Allocate, siteVars, nativeVars
<1>3. ledger' = ledger /\ (sentinel => sentinel')
  BY DEF Allocate, filesVars
<1>4. /\ LedgerTypeOK /\ proc[w] \in Transitions /\ flock = w /\ ledger # Missing
      /\ proc[w].site \in Sites /\ ledger[proc[w].site] \in 0..MaxProject
  BY <1>1, AtStep DEF Holds, LedgerTypeOK
<1>5. CASE Undo(w)
  BY <1>1, <1>2, <1>3, <1>5, AtStep, UndoStep
<1>6. CASE /\ ledger[proc[w].site] # 0 /\ flock' = "nobody"
           /\ proc' = [proc EXCEPT ![w].pc = "lock", ![w].again = TRUE,
                                   ![w].project = ledger[proc[w].site]]
  <2> DEFINE t == [proc[w] EXCEPT !.pc = "lock", !.again = TRUE, !.project = ledger[proc[w].site]]
  <2>1. t \in Transitions
    BY <1>4 DEF Transitions
  <2>2. /\ t.pc = "lock" /\ t.site = proc[w].site /\ t.project = ledger[proc[w].site]
        /\ proc' = [proc EXCEPT ![w] = t] /\ proc'[w] = t
    BY <1>4, <1>6 DEF Transitions, LedgerTypeOK
  <2> HIDE DEF t
  <2>3. ProcHolds(w)'
    BY <1>3, <1>4, <1>6, <2>2 DEF ProcHolds, Holds, Beginnings, Owning, Unlocked, Resting
  <2> QED
    BY <1>2, <1>3, <1>4, <1>6, <2>1, <2>2, <2>3, MoveStep
<1>7. ASSUME NEW p \in FreeProjects, ledger[proc[w].site] = 0, UNCHANGED flock,
             proc' = [proc EXCEPT ![w].pc = "save", ![w].project = p]
      PROVE  ProjectsInv'
  <2> DEFINE t == [proc[w] EXCEPT !.pc = "save", !.project = p]
  <2>1. /\ p \in Projects \ Foreign /\ \A s \in Sites : ledger[s] # p
        /\ p \in 0..MaxProject
    BY <1>7, MaxProjectAssumption DEF FreeProjects, Occupied, Census, Used, Projects
  <2>2. t \in Transitions
    BY <1>4, <2>1 DEF Transitions
  <2>3. /\ t.pc = "save" /\ t.site = proc[w].site /\ t.project = p
        /\ proc' = [proc EXCEPT ![w] = t] /\ proc'[w] = t
    BY <1>4, <1>7 DEF Transitions, LedgerTypeOK
  <2> HIDE DEF t
  <2>4. ProcHolds(w)'
    BY <1>3, <1>4, <1>7, <2>1, <2>3 DEF ProcHolds, Holds, Beginnings, Owning, Unlocked, Resting
  <2> QED
    BY <1>2, <1>3, <1>4, <1>7, <2>2, <2>3, <2>4, MoveStep
<1> QED
  BY <1>5, <1>6, <1>7 DEF Allocate

\* Saving the reservation binds a project nobody has to a site that has none.
LEMMA ReservationHolds ==
    ASSUME ProjectsInv, NEW w \in Workers, SaveReservation(w)
    PROVE  ProjectsInv'
<1> DEFINE s0 == proc[w].site
           p0 == proc[w].project
           new == [ledger EXCEPT ![s0] = p0]
<1>1. proc[w].pc = "save" /\ proc[w].pc \notin Resting /\ proc[w].pc \notin Unlocked
  BY DEF SaveReservation, ProcAt, Resting, Unlocked
<1>2. BindsReserved /\ \A s \in Sites : \A p \in Projects : Bound(s, p)' => Bound(s, p)
  BY BoundKept DEF SaveReservation, siteVars, nativeVars
<1>3. /\ LedgerTypeOK /\ proc[w] \in Transitions /\ flock = w /\ ledger # Missing
      /\ s0 \in Sites /\ p0 \in Projects \ Foreign /\ ledger[s0] = 0
      /\ \A s \in Sites : ledger[s] # p0
      /\ sentinel' = sentinel
  BY <1>1, AtStep DEF Holds, SaveReservation
<1>4. /\ ledger \in [Sites -> 0..MaxProject] /\ new \in [Sites -> 0..MaxProject]
      /\ new[s0] = p0 /\ \A s \in Sites \ {s0} : new[s] = ledger[s]
      /\ new # Missing
  <2>1. ledger \in [Sites -> 0..MaxProject] /\ p0 \in 0..MaxProject
    BY <1>3, MaxProjectAssumption DEF LedgerTypeOK, Projects
  <2>2. DOMAIN new = Sites /\ DOMAIN Missing = {}
    BY <2>1 DEF Missing
  <2> QED
    BY <1>3, <2>1, <2>2
<1>5. ledger' \in {ledger, new}
  BY DEF SaveReservation
<1> HIDE DEF new
<1>6. DataTypeOK'
  <2>1. UNCHANGED boundVars \/ Fault
    BY DEF SaveReservation
  <2> QED
    BY <1>3, <1>4, <1>5, <2>1, LedgerFaultsAssumption
    DEF SaveReservation, DataTypeOK, LedgerTypeOK, NativeTypeOK, siteVars, nativeVars, boundVars, Fault
<1>7. BoundApart'
  BY <1>2, <1>3 DEF ProjectsInv, BoundApart, Unbound
<1>8. LedgerRules'
  <2>1. \A p \in Projects : ~Bound(s0, p)
    BY <1>3 DEF ProjectsInv, LedgerRules, Bound
  <2> QED
    BY <1>2, <1>3, <1>4, <1>5, <2>1 DEF ProjectsInv, LedgerRules
<1>9. ASSUME NEW v \in Workers \ {w}, proc'[v] = proc[v]
      PROVE  ProcHolds(v)'
  <2>1. proc[v].pc \in Unlocked /\ ProcHolds(v) /\ ledger' # Missing
    BY <1>3, <1>4, <1>5 DEF ProjectsInv, ProcHolds
  <2>2. proc[v].pc \in {"reserve", "lock"} \/ proc[v].pc \in Resting
    BY <2>1 DEF Unlocked
  <2>3. CASE proc[v].pc \in Resting
    BY <1>9, <2>1, <2>3 DEF ProcHolds
  <2>4. CASE proc[v].pc \in {"reserve", "lock"}
    <3>1. Holds(proc[v]) /\ proc[v].site \in Sites
      BY <1>3, <2>1, <2>4, ProcTypes DEF ProcHolds, Resting, Transitions
    <3>2. proc[v].project # 0 => ledger'[proc[v].site] = proc[v].project
      BY <1>3, <1>4, <1>5, <2>4, <3>1 DEF Holds
    <3> QED
      BY <1>9, <2>1, <2>4, <3>1, <3>2 DEF ProcHolds, Holds, Beginnings, Owning
  <2> QED
    BY <2>2, <2>3, <2>4
<1>10. CASE Undo(w)
  <2>1. Goto(w, "undo") /\ "undo" \in PCs
    BY <1>10 DEF Undo, PCs
  <2>2. proc'[w] = [proc[w] EXCEPT !.pc = "undo"]
    BY <1>1, <1>3, <2>1, GotoType
  <2>3. ProcHolds(w)'
    BY <1>1, <2>2, AtStep DEF ProcHolds, Resting, Unlocked, Transitions
  <2>4. LedgerTypeOK'
    BY <1>1, <1>3, <1>6, <1>10, <2>1, GotoType DEF LedgerTypeOK, DataTypeOK, Undo
  <2> QED
    BY <1>1, <1>3, <1>7, <1>8, <1>9, <2>1, <2>3, <2>4, GotoType DEF ProjectsInv
<1>11. CASE /\ ledger' = new /\ flock' = "nobody"
            /\ proc' = [proc EXCEPT ![w].pc = "lock", ![w].again = TRUE]
  <2> DEFINE t == [proc[w] EXCEPT !.pc = "lock", !.again = TRUE]
  <2>1. t \in Transitions
    BY <1>3 DEF Transitions
  <2>2. /\ t.pc = "lock" /\ t.site = s0 /\ t.project = p0 /\ t.again = TRUE
        /\ proc' = [proc EXCEPT ![w] = t]
    BY <1>3, <1>11 DEF Transitions, LedgerTypeOK
  <2> HIDE DEF t
  <2>3. /\ proc' \in [Workers -> Transitions \cup {Idle, Down}]
        /\ proc'[w] = t
        /\ \A v \in Workers \ {w} : proc'[v] = proc[v]
    BY <1>3, <2>1, <2>2, ProcUpdate
  <2>4. p0 # 0
    BY <1>3 DEF Projects
  <2>5. ProcHolds(w)'
    BY <1>3, <1>4, <1>11, <2>2, <2>3, <2>4 DEF ProcHolds, Holds, Beginnings, Owning, Unlocked, Resting
  <2>6. LedgerTypeOK'
    BY <1>6, <1>11, <2>3 DEF LedgerTypeOK, DataTypeOK
  <2> QED
    BY <1>7, <1>8, <1>9, <2>3, <2>5, <2>6 DEF ProjectsInv
<1> QED
  BY <1>10, <1>11 DEF SaveReservation, new
\* The transition takes its project from the ledger.
LEMMA IdentifyHolds ==
    ASSUME ProjectsInv, NEW w \in Workers, Identify(w)
    PROVE  ProjectsInv'
<1>1. proc[w].pc = "identify" /\ proc[w].pc \notin Resting /\ proc[w].pc \notin Unlocked
  BY DEF Identify, ProcAt, Resting, Unlocked
<1>2. DataTypeOK' /\ BindsReserved
  BY <1>1, AtStep, DataTypeKept, BoundKept DEF Identify, siteVars, nativeVars
<1>3. ledger' = ledger /\ (sentinel => sentinel')
  BY DEF Identify, filesVars
<1>4. /\ LedgerTypeOK /\ proc[w] \in Transitions /\ flock = w /\ ledger # Missing
      /\ proc[w].site \in Sites /\ ledger[proc[w].site] \in 0..MaxProject
  BY <1>1, AtStep DEF Holds, LedgerTypeOK
<1>5. CASE Undo(w)
  BY <1>1, <1>2, <1>3, <1>5, AtStep, UndoStep
<1>6. ASSUME NEW pc \in {"authority", "guard", "fence"}, UNCHANGED flock,
             proc[w].seen # NoPlan => ledger[proc[w].site] # 0,
             proc' = [proc EXCEPT ![w].pc = pc, ![w].project =
                         IF proc[w].seen = NoPlan THEN @ ELSE ledger[proc[w].site]]
      PROVE  ProjectsInv'
  <2> DEFINE q == IF proc[w].seen = NoPlan THEN proc[w].project ELSE ledger[proc[w].site]
             t == [proc[w] EXCEPT !.pc = pc, !.project = q]
  <2>1. q \in 0..MaxProject /\ (proc[w].again => q # 0 /\ q = ledger[proc[w].site])
    BY <1>1, <1>4, <1>6, AtStep DEF Holds, Transitions
  <2>2. proc[w].again
    BY <1>1, AtStep DEF Holds
  <2>3. t \in Transitions
    BY <1>4, <2>1 DEF Transitions
  <2>4. /\ t.pc = pc /\ t.site = proc[w].site /\ t.project = q
        /\ proc' = [proc EXCEPT ![w] = t] /\ proc'[w] = t
    BY <1>4, <1>6 DEF Transitions, LedgerTypeOK
  <2> HIDE DEF t, q
  <2>5. ProcHolds(w)'
    BY <1>3, <1>4, <1>6, <2>1, <2>2, <2>4 DEF ProcHolds, Holds, Beginnings, Owning, Unlocked, Resting
  <2> QED
    BY <1>2, <1>3, <1>4, <1>6, <2>3, <2>4, <2>5, MoveStep
<1> QED
  BY <1>5, <1>6 DEF Identify

\* A transition that has its project keeps it from step to step.
LEMMA OwningStep ==
    ASSUME ProjectsInv, NEW w \in Workers, proc[w].pc \in Owning, NEW pc \in Owning,
           Undo(w) \/ (Goto(w, pc) /\ UNCHANGED flock),
           DataTypeOK', BindsReserved, ledger' = ledger, sentinel => sentinel'
    PROVE  ProjectsInv'
<1>1. /\ proc[w].pc \notin Resting /\ proc[w].pc \notin Unlocked
      /\ pc \in PCs /\ pc \notin Resting /\ pc \notin Unlocked
  BY DEF Owning, Resting, Unlocked, PCs
<1>2. CASE Undo(w)
  BY <1>1, <1>2, AtStep, UndoStep
<1>3. CASE Goto(w, pc) /\ UNCHANGED flock
  <2>1. proc'[w] = [proc[w] EXCEPT !.pc = pc]
    BY <1>1, <1>3, AtStep, GotoType
  <2>2. ProcHolds(w)'
    BY <1>1, <1>3, <2>1, AtStep DEF ProcHolds, Holds, Transitions, Beginnings, Owning
  <2> QED
    BY <1>1, <1>3, <2>2, AtStep, GotoStep
<1> QED
  BY <1>2, <1>3

\* What a transition with a project is known to be.
LEMMA AtOwning ==
    ASSUME ProjectsInv, NEW w \in Workers, proc[w].pc \in Owning
    PROVE  /\ LedgerTypeOK /\ proc[w] \in Transitions /\ flock = w
           /\ proc[w].site \in Sites /\ proc[w].project \in Projects
           /\ ledger # Missing /\ ledger[proc[w].site] = proc[w].project
<1>1. proc[w].pc \notin Resting /\ proc[w].pc \notin Unlocked
  BY DEF Owning, Resting, Unlocked
<1>2. LedgerTypeOK /\ proc[w] \in Transitions /\ Holds(proc[w]) /\ flock = w
  BY <1>1, AtStep
<1> QED
  BY <1>2, MaxProjectAssumption DEF Holds, Transitions, Projects

\* The phase of the authority says nothing of projects.
LEMMA AuthorityHolds ==
    ASSUME ProjectsInv, NEW w \in Workers, SaveAuthority(w) \/ ConfirmAuthority(w)
    PROVE  ProjectsInv'
<1>1. proc[w].pc \in Owning
  BY DEF SaveAuthority, ConfirmAuthority, ProcAt, Owning
<1>2. PICK pc \in {"guard", "finish"} : Undo(w) \/ (Goto(w, pc) /\ UNCHANGED flock)
  BY DEF SaveAuthority, ConfirmAuthority, Saved
<1>3. BindsReserved /\ ledger' = ledger /\ sentinel' = sentinel
  BY BoundKept DEF SaveAuthority, ConfirmAuthority, siteVars, nativeVars
<1>4. DataTypeOK'
  <2>1. (UNCHANGED boundVars \/ Fault) /\ authority' \in {authority, "pending", "prepared"}
    BY DEF SaveAuthority, ConfirmAuthority, Saved
  <2> QED
    BY <1>1, <2>1, AtOwning, LedgerFaultsAssumption
    DEF SaveAuthority, ConfirmAuthority, DataTypeOK, LedgerTypeOK, NativeTypeOK, siteVars,
        nativeVars, boundVars, Fault
<1>5. pc \in Owning
  BY DEF Owning
<1> QED
  BY <1>1, <1>2, <1>3, <1>4, <1>5, OwningStep

\* The record of a site is written for the project reserved for it.
LEMMA GuardHolds ==
    ASSUME ProjectsInv, NEW w \in Workers, SaveGuard(w)
    PROVE  ProjectsInv'
<1> DEFINE s0 == proc[w].site
           p0 == proc[w].project
<1>1. proc[w].pc \in Owning /\ "plan" \in Owning
  BY DEF SaveGuard, ProcAt, Owning
<1>2. Undo(w) \/ (Goto(w, "plan") /\ UNCHANGED flock)
  BY DEF SaveGuard, Saved
<1>3. guard' \in {guard, [guard EXCEPT ![s0] = p0]} /\ (UNCHANGED boundVars \/ Fault)
  BY DEF SaveGuard, Saved
<1>4. DataTypeOK'
  BY <1>1, <1>3, AtOwning, LedgerFaultsAssumption
  DEF SaveGuard, DataTypeOK, LedgerTypeOK, NativeTypeOK, Transitions, filesVars, nativeVars, boundVars, Fault
<1>5. BindsReserved
  BY <1>1, <1>3, AtOwning DEF SaveGuard, BindsReserved, Bound, LedgerTypeOK, nativeVars
<1>6. ledger' = ledger /\ sentinel' = sentinel
  BY DEF SaveGuard, filesVars
<1> QED
  BY <1>1, <1>2, <1>4, <1>5, <1>6, OwningStep

\* So is its plan, in every phase.
LEMMA PlanKept ==
    ASSUME ProjectsInv, NEW w \in Workers, proc[w].pc \in Owning, NEW phase \in Phases,
           plan' \in {plan, [plan EXCEPT ![proc[w].site] =
                                 [phase |-> phase, project |-> proc[w].project]]},
           UNCHANGED boundVars \/ Fault,
           UNCHANGED <<filesVars, present, up, guard, nativeVars>>
    PROVE  DataTypeOK' /\ BindsReserved /\ ledger' = ledger /\ sentinel' = sentinel
<1> DEFINE q == [phase |-> phase, project |-> proc[w].project]
<1>1. /\ LedgerTypeOK /\ q \in Plans /\ proc[w].site \in Sites
      /\ q.project = ledger[proc[w].site] /\ ledger # Missing
  BY AtOwning, MaxProjectAssumption DEF Plans, Projects
<1> HIDE DEF q
<1>2. plan' \in {plan, [plan EXCEPT ![proc[w].site] = q]}
  BY DEF q
<1>3. DataTypeOK'
  BY <1>1, <1>2, LedgerFaultsAssumption
  DEF DataTypeOK, LedgerTypeOK, NativeTypeOK, filesVars, nativeVars, boundVars, Fault
<1>4. \A s \in Sites : plan'[s] = plan[s] \/ (s = proc[w].site /\ plan'[s] = q)
  BY <1>1, <1>2 DEF LedgerTypeOK
<1>5. BindsReserved
  BY <1>1, <1>4 DEF BindsReserved, Bound, nativeVars
<1> QED
  BY <1>3, <1>5 DEF filesVars

\* The plan becomes pending, or tagging.
LEMMA SavePlanHolds ==
    ASSUME ProjectsInv, NEW w \in Workers, SavePending(w) \/ MarkTagging(w)
    PROVE  ProjectsInv'
<1>1. proc[w].pc \in Owning
  BY DEF SavePending, MarkTagging, ProcAt, Owning
<1>2. PICK pc \in {"fence", "launch"} : Undo(w) \/ (Goto(w, pc) /\ UNCHANGED flock)
  BY DEF SavePending, MarkTagging, SavePlan, Saved
<1>3. PICK phase \in {"pending", "tagging"} :
          plan' \in {plan, [plan EXCEPT ![proc[w].site] =
                                [phase |-> phase, project |-> proc[w].project]]}
  BY DEF SavePending, MarkTagging, SavePlan, Saved, siteVars
<1>4. /\ UNCHANGED boundVars \/ Fault
      /\ UNCHANGED <<filesVars, present, up, guard, nativeVars>>
  BY DEF SavePending, MarkTagging, SavePlan, Saved, siteVars
<1>5. DataTypeOK' /\ BindsReserved /\ ledger' = ledger /\ sentinel' = sentinel
  BY <1>1, <1>3, <1>4, PlanKept DEF Phases
<1>6. pc \in Owning
  BY DEF Owning
<1> QED
  BY <1>1, <1>2, <1>5, <1>6, OwningStep
\* fenceQuotaSite may take the helper away.
LEMMA FencedKept ==
    ASSUME LedgerTypeOK, NEW s \in Sites, Fenced(s), UNCHANGED filesVars,
           UNCHANGED boundVars \/ Fault
    PROVE  DataTypeOK' /\ BindsReserved /\ ledger' = ledger /\ sentinel' = sentinel
<1>1. helper' \in {helper, NoHelper} /\ up' = up \ {s}
  BY DEF Fenced
<1>2. DataTypeOK'
  BY <1>1, LedgerFaultsAssumption
  DEF Fenced, DataTypeOK, LedgerTypeOK, NativeTypeOK, filesVars, boundVars, Fault
<1>3. BindsReserved
  BY <1>1 DEF Fenced, BindsReserved, Bound
<1> QED
  BY <1>2, <1>3 DEF filesVars

\* Fencing and its verification.
LEMMA FenceSiteHolds ==
    ASSUME ProjectsInv, NEW w \in Workers, FenceSite(w) \/ VerifyStopped(w)
    PROVE  ProjectsInv'
<1>1. proc[w].pc \in Owning
  BY DEF FenceSite, VerifyStopped, ProcAt, Owning
<1>2. PICK pc \in {"verify", "mark", "launch"} : Undo(w) \/ (Goto(w, pc) /\ UNCHANGED flock)
  BY DEF FenceSite, VerifyStopped
<1>3. DataTypeOK' /\ BindsReserved /\ ledger' = ledger /\ sentinel' = sentinel
  <2>1. CASE Fenced(proc[w].site) /\ UNCHANGED filesVars /\ UNCHANGED boundVars
    BY <1>1, <2>1, AtOwning, FencedKept
  <2>2. CASE UNCHANGED <<filesVars, siteVars, nativeVars>> /\ (UNCHANGED boundVars \/ Fault)
    BY <1>1, <2>2, AtOwning, DataTypeKept, BoundKept DEF siteVars, nativeVars, filesVars
  <2> QED
    BY <2>1, <2>2 DEF FenceSite, VerifyStopped
<1>4. pc \in Owning
  BY DEF Owning
<1> QED
  BY <1>1, <1>2, <1>3, <1>4, OwningStep

\* The helper is given the project of its transition.
LEMMA LaunchHolds ==
    ASSUME ProjectsInv, NEW w \in Workers, Launch(w)
    PROVE  ProjectsInv'
<1> DEFINE t == proc[w]
           h == [site |-> t.site, tag |-> t.tag, claim |-> Claims(t), project |-> t.project,
                 pc |-> "lock", fresh |-> FALSE, tree |-> 0, by |-> w]
<1>1. proc[w].pc \in Owning /\ "await" \in Owning
  BY DEF Launch, ProcAt, Owning
<1>2. /\ Undo(w) \/ (Goto(w, "await") /\ UNCHANGED flock)
      /\ helper' \in {helper, h}
  BY DEF Launch
<1>3. Claims(t) \in BOOLEAN
  BY DEF Claims
<1>4. h \in Helpers /\ h.site = t.site /\ h.project = ledger[t.site]
  BY <1>1, <1>3, AtOwning, MaxWritesAssumption DEF Helpers, Transitions
<1> HIDE DEF h
<1>5. DataTypeOK'
  BY <1>1, <1>2, <1>4, AtOwning
  DEF Launch, DataTypeOK, LedgerTypeOK, NativeTypeOK, filesVars, siteVars, boundVars
<1>6. BindsReserved
  BY <1>1, <1>2, <1>4, AtOwning DEF Launch, BindsReserved, Bound, siteVars
<1>7. ledger' = ledger /\ sentinel' = sentinel
  BY DEF Launch, filesVars
<1> QED
  BY <1>1, <1>2, <1>5, <1>6, <1>7, OwningStep

\* A helper that is left alone still has its project.
LEMMA HelperLeft ==
    ASSUME LedgerTypeOK,
           helper' \in {helper, NoHelper} \/
               (helper # NoHelper /\ helper' = [helper EXCEPT !.by = "nobody"]),
           UNCHANGED <<filesVars, siteVars, stage, burned, journal, partial, tags, tree,
                       unfit, outside>>,
           UNCHANGED boundVars \/ Fault
    PROVE  DataTypeOK' /\ BindsReserved /\ ledger' = ledger /\ sentinel' = sentinel
<1>1. NativeTypeOK
  BY DEF LedgerTypeOK
<1>2. helper' \in {helper, NoHelper} \/ (helper' \in Helpers /\ helper # NoHelper /\
           helper'.site = helper.site /\ helper'.project = helper.project)
  BY <1>1, HelperTypes DEF Helpers
<1>3. helper' \in Helpers \cup {NoHelper}
  BY <1>1, <1>2 DEF NativeTypeOK
<1>4. DataTypeOK'
  BY <1>3, LedgerFaultsAssumption
  DEF DataTypeOK, LedgerTypeOK, NativeTypeOK, filesVars, siteVars, boundVars, Fault
<1>5. BindsReserved
  BY <1>2 DEF BindsReserved, Bound, siteVars
<1> QED
  BY <1>4, <1>5 DEF filesVars

\* The answer is taken, or is not waited for any longer.
LEMMA CollectHolds ==
    ASSUME ProjectsInv, NEW w \in Workers, Collect(w)
    PROVE  ProjectsInv'
<1>1. proc[w].pc \in Owning /\ "prepared" \in Owning
  BY DEF Collect, ProcAt, Owning
<1>2. Undo(w) \/ (Goto(w, "prepared") /\ UNCHANGED flock)
  BY DEF Collect
<1>3. helper' \in {helper, NoHelper} \/
          (helper.by = w /\ helper' = [helper EXCEPT !.by = "nobody"])
  BY DEF Collect
<1>4. helper.by = w => helper # NoHelper
  BY WorkersAssumption DEF NoHelper
<1>5. UNCHANGED boundVars \/ Fault
  BY DEF Collect
<1>6. DataTypeOK' /\ BindsReserved /\ ledger' = ledger /\ sentinel' = sentinel
  BY <1>1, <1>3, <1>4, <1>5, AtOwning, HelperLeft DEF Collect
<1> QED
  BY <1>1, <1>2, <1>6, OwningStep

\* A worker whose transition is over.
LEMMA RestStep ==
    ASSUME ProjectsInv, NEW w \in Workers, NEW t \in {Idle, Down},
           proc' = [proc EXCEPT ![w] = t],
           flock' = flock \/ (flock = w /\ flock' = "nobody"),
           DataTypeOK', BindsReserved, ledger' = ledger, sentinel => sentinel'
    PROVE  ProjectsInv'
<1>1. t.pc \in Resting /\ t.pc \in Unlocked
  BY DEF Idle, Down, Resting, Unlocked
<1>2. proc'[w] = t /\ flock' \in Workers \cup {"nobody"}
  BY DEF ProjectsInv, LedgerTypeOK
<1>3. ProcHolds(w)'
  BY <1>1, <1>2 DEF ProcHolds
<1> QED
  BY <1>2, <1>3, MoveStep

\* The confirmed phase is written, and both locks are released.
LEMMA FinishHolds ==
    ASSUME ProjectsInv, NEW w \in Workers, Finish(w)
    PROVE  ProjectsInv'
<1>1. proc[w].pc \in Owning /\ "finish" \in Owning
  BY DEF Finish, ProcAt, Owning
<1>2. PICK phase \in {"tagged", "prepared"} :
          plan' \in {plan, [plan EXCEPT ![proc[w].site] =
                                [phase |-> phase, project |-> proc[w].project]]}
  BY DEF Finish
<1>3. /\ UNCHANGED boundVars \/ Fault
      /\ UNCHANGED <<filesVars, present, up, guard, nativeVars>>
  BY DEF Finish
<1>4. DataTypeOK' /\ BindsReserved /\ ledger' = ledger /\ sentinel' = sentinel
  BY <1>1, <1>2, <1>3, PlanKept DEF Phases
<1>5. CASE Undo(w)
  BY <1>1, <1>4, <1>5, OwningStep
<1>6. CASE proc' = [proc EXCEPT ![w] = Idle] /\ flock' = "nobody"
  BY <1>1, <1>4, <1>6, AtOwning, RestStep
<1> QED
  BY <1>5, <1>6 DEF Finish

\* The site is fenced once more, or that fails.
LEMMA FailureHolds ==
    ASSUME ProjectsInv, NEW w \in Workers, FenceFailure(w)
    PROVE  ProjectsInv'
<1>1. LedgerTypeOK /\ proc[w].site \in Sites
  BY ProcTypes DEF ProjectsInv, FenceFailure, ProcAt, Transitions
<1>2. DataTypeOK' /\ BindsReserved /\ ledger' = ledger /\ sentinel' = sentinel
  <2>1. CASE Fenced(proc[w].site) /\ UNCHANGED boundVars
    BY <1>1, <2>1, FencedKept DEF FenceFailure
  <2>2. CASE Fault /\ UNCHANGED <<siteVars, nativeVars>>
    BY <1>1, <2>2, DataTypeKept, BoundKept DEF FenceFailure, siteVars, nativeVars, filesVars
  <2> QED
    BY <2>1, <2>2 DEF FenceFailure
<1> QED
  BY <1>2, RestStep DEF FenceFailure

\* Every step of a transition.
LEMMA StepHolds ==
    ASSUME ProjectsInv, NEW w \in Workers, Step(w)
    PROVE  ProjectsInv'
BY ReserveHolds, LockHolds, LoadHolds, SentinelHolds, CreateHolds, AllocateHolds,
   ReservationHolds, IdentifyHolds, AuthorityHolds, GuardHolds, SavePlanHolds, FenceSiteHolds,
   LaunchHolds, CollectHolds, FinishHolds, FailureHolds DEF Step
-----------------------------------------------------------------------------
(* Project IDs: everything else *)

\* A transition is begun with what the plan of the site says.
LEMMA EnterHolds ==
    ASSUME ProjectsInv, NEW w \in Workers, NEW s \in Sites, NEW tag \in BOOLEAN, Enter(w, s, tag)
    PROVE  ProjectsInv'
<1>1. LedgerTypeOK /\ flock' = flock /\ flock \in Workers \cup {"nobody"} /\ plan[s] \in Plans
  BY DEF ProjectsInv, LedgerTypeOK, Enter
<1>2. DataTypeOK' /\ BindsReserved /\ ledger' = ledger /\ sentinel' = sentinel
  <2>1. transitions' \in 0..MaxTransitions
    BY <1>1, MaxTransitionsAssumption DEF Enter, LedgerTypeOK
  <2>2. DataTypeOK'
    BY <1>1, <2>1 DEF Enter, DataTypeOK, LedgerTypeOK, NativeTypeOK, filesVars, siteVars, nativeVars
  <2> QED
    BY <2>2, BoundKept DEF Enter, filesVars, siteVars, nativeVars
<1>3. PICK pc \in {"undo", "reserve", "lock"} : proc' = [proc EXCEPT ![w] =
          [site |-> s, tag |-> tag, pc |-> pc, seen |-> plan[s],
           project |-> 0, fresh |-> FALSE, again |-> plan[s] # NoPlan]]
  BY DEF Enter
<1> DEFINE t == [site |-> s, tag |-> tag, pc |-> pc, seen |-> plan[s],
                 project |-> 0, fresh |-> FALSE, again |-> plan[s] # NoPlan]
<1>4. t \in Transitions
  BY <1>1, MaxProjectAssumption DEF Transitions
<1>5. /\ t.pc = pc /\ t.project = 0 /\ t.seen = plan[s] /\ (t.again => t.seen # NoPlan)
      /\ proc' = [proc EXCEPT ![w] = t] /\ proc'[w] = t
  BY <1>1, <1>3 DEF LedgerTypeOK
<1> HIDE DEF t
<1>6. ProcHolds(w)'
  BY <1>5 DEF ProcHolds, Holds, Unlocked, Resting, Beginnings, Owning
<1> QED
  BY <1>1, <1>2, <1>4, <1>5, <1>6, MoveStep

\* A step outside the transitions.
LEMMA StillStep ==
    ASSUME ProjectsInv, UNCHANGED <<proc, flock>>, DataTypeOK', BindsReserved,
           ledger' = ledger, sentinel => sentinel'
    PROVE  ProjectsInv'
<1>1. LedgerTypeOK'
  BY DEF ProjectsInv, LedgerTypeOK, DataTypeOK
<1>2. LedgerRules'
  BY DEF ProjectsInv, LedgerRules, BindsReserved
<1>3. BoundApart'
  BY DEF ProjectsInv, BoundApart, LedgerRules, Unbound, BindsReserved, Projects
<1>4. ledger = Missing /\ Unbound => Unbound'
  BY DEF Unbound, BindsReserved
<1>5. ASSUME NEW v \in Workers
      PROVE  ProcHolds(v)'
  BY <1>4, <1>5 DEF ProjectsInv, ProcHolds, Holds
<1> QED
  BY <1>1, <1>2, <1>3, <1>5 DEF ProjectsInv

\* Starting, sweeping and fencing sites.
LEMMA StartHolds ==
    ASSUME ProjectsInv, NEW w \in Workers, Sweep(w) \/ \E s \in Sites : StartSite(w, s)
    PROVE  ProjectsInv'
<1>1. LedgerTypeOK /\ UNCHANGED <<proc, flock, filesVars, boundVars>>
  BY DEF ProjectsInv, Sweep, StartSite
<1>2. PICK s \in Sites : \/ Fenced(s)
                        \/ UNCHANGED <<siteVars, nativeVars>>
                        \/ /\ s \in present /\ up' = up \cup {s}
                           /\ UNCHANGED <<present, guard, plan, nativeVars>>
  <2>1. CASE Sweep(w)
    BY <2>1 DEF Sweep
  <2>2. CASE \E s \in Sites : StartSite(w, s)
    BY <2>2 DEF StartSite
  <2> QED
    BY <2>1, <2>2
<1>3. DataTypeOK' /\ BindsReserved
  <2>1. CASE Fenced(s)
    BY <1>1, <2>1, FencedKept
  <2>2. CASE UNCHANGED <<siteVars, nativeVars>>
    BY <1>1, <2>2, DataTypeKept, BoundKept DEF siteVars, nativeVars
  <2>3. CASE s \in present /\ up' = up \cup {s} /\ UNCHANGED <<present, guard, plan, nativeVars>>
    <3>1. DataTypeOK'
      BY <1>1, <2>3 DEF DataTypeOK, LedgerTypeOK, NativeTypeOK, filesVars, nativeVars, boundVars
    <3> QED
      BY <2>3, <3>1, BoundKept DEF nativeVars
  <2> QED
    BY <1>2, <2>1, <2>2, <2>3
<1> QED
  BY <1>1, <1>3, StillStep DEF filesVars

\* A deletion takes the site's files, and with them bindings.
LEMMA DeleteHolds ==
    ASSUME ProjectsInv, NEW w \in Workers, NEW s \in Sites, DeleteSite(w, s)
    PROVE  ProjectsInv'
<1>1. LedgerTypeOK
  BY DEF ProjectsInv
<1>2. NoPlan \in Plans /\ NoPlan.project = 0
  BY MaxProjectAssumption DEF NoPlan, Plans, Phases
<1>3. DataTypeOK'
  BY <1>1, <1>2, MaxProjectAssumption
  DEF DeleteSite, DataTypeOK, LedgerTypeOK, NativeTypeOK, filesVars, boundVars
<1>4. BindsReserved
  BY <1>1, <1>2 DEF DeleteSite, BindsReserved, Bound, LedgerTypeOK
<1> QED
  BY <1>3, <1>4, StillStep DEF DeleteSite, filesVars

\* Writing data touches none of the files.
LEMMA WriteHolds ==
    ASSUME ProjectsInv, NEW s \in Sites, WriteData(s)
    PROVE  ProjectsInv'
<1>1. LedgerTypeOK
  BY DEF ProjectsInv
<1>2. DataTypeOK'
  BY <1>1, MaxWritesAssumption
  DEF WriteData, DataTypeOK, LedgerTypeOK, NativeTypeOK, filesVars, siteVars, boundVars
<1> QED
  BY <1>2, BoundKept, StillStep DEF WriteData, filesVars, siteVars

\* A worker ends and begins again; a helper is killed.
LEMMA CrashHolds ==
    ASSUME ProjectsInv,
           KillHelper \/ \E w \in Workers : CrashWorker(w) \/ Boot(w)
    PROVE  ProjectsInv'
<1>1. LedgerTypeOK
  BY DEF ProjectsInv
<1>2. ASSUME NEW w \in Workers, CrashWorker(w)
      PROVE  ProjectsInv'
  <2>1. helper.by = w => helper # NoHelper
    BY WorkersAssumption DEF NoHelper
  <2>2. DataTypeOK' /\ BindsReserved /\ ledger' = ledger /\ sentinel' = sentinel
    BY <1>1, <1>2, <2>1, HelperLeft DEF CrashWorker
  <2> QED
    BY <1>2, <2>2, RestStep DEF CrashWorker
<1>3. ASSUME NEW w \in Workers, Boot(w)
      PROVE  ProjectsInv'
  <2>1. DataTypeOK' /\ BindsReserved /\ ledger' = ledger /\ sentinel' = sentinel
    BY <1>1, <1>3, HelperLeft DEF Boot
  <2> QED
    BY <1>3, <2>1, RestStep DEF Boot
<1>4. CASE KillHelper
  <2>1. DataTypeOK' /\ BindsReserved /\ ledger' = ledger /\ sentinel' = sentinel
    BY <1>1, <1>4, HelperLeft DEF KillHelper
  <2> QED
    BY <1>4, <2>1, StillStep DEF KillHelper
<1> QED
  BY <1>2, <1>3, <1>4

\* The loss of .quota leaves the bindings as they are, and nobody has a transition.
LEMMA LossHolds ==
    ASSUME ProjectsInv, LoseDirectory
    PROVE  ProjectsInv'
<1>1. LedgerTypeOK
  BY DEF ProjectsInv
<1>2. LedgerTypeOK'
  <2>1. /\ dir' = FALSE /\ ledger' = Missing /\ authority' = "none"
        /\ faults' \in 0..MaxFaults /\ transitions' = transitions
        /\ UNCHANGED <<proc, flock, sentinel, siteVars, nativeVars>>
    BY <1>1, LedgerFaultsAssumption DEF LoseDirectory, Fault, LedgerTypeOK
  <2>2. NativeTypeOK'
    BY <1>1, <2>1 DEF LedgerTypeOK, NativeTypeOK, nativeVars
  <2> QED
    BY <1>1, <2>1, <2>2 DEF LedgerTypeOK, siteVars
<1>3. \A s \in Sites : \A p \in Projects : Bound(s, p)' = Bound(s, p)
  BY DEF LoseDirectory, Bound, siteVars, nativeVars
<1>4. BoundApart' /\ LedgerRules'
  BY <1>3 DEF LoseDirectory, ProjectsInv, BoundApart, LedgerRules, Unbound
<1>5. \A w \in Workers : ProcHolds(w)'
  BY DEF LoseDirectory, ProcHolds, Idle, Down, Resting, Unlocked
<1> QED
  BY <1>2, <1>4, <1>5 DEF ProjectsInv

\* What others do to the file system touches none of the files.
LEMMA InterfereHolds ==
    ASSUME ProjectsInv, Interfere
    PROVE  ProjectsInv'
<1>1. LedgerTypeOK
  BY DEF ProjectsInv
<1>2. PICK x \in Acts : \/ Fault /\ x \notin outside /\ outside' = outside \cup {x}
                        \/ x \in outside /\ outside' = outside \ {x} /\ UNCHANGED boundVars
  BY DEF Interfere
<1>3. outside' \subseteq Interferences
  BY <1>1, <1>2, ActsAssumption DEF LedgerTypeOK, NativeTypeOK
<1>4. DataTypeOK'
  BY <1>1, <1>2, <1>3, LedgerFaultsAssumption
  DEF Interfere, DataTypeOK, LedgerTypeOK, NativeTypeOK, filesVars, siteVars, boundVars, Fault
<1> QED
  BY <1>4, BoundKept, StillStep DEF Interfere, filesVars, siteVars

\* The helper binds no project but its own.
LEMMA NativeHolds ==
    ASSUME ProjectsInv, Native
    PROVE  ProjectsInv'
<1>1. LedgerTypeOK /\ NativeTypeOK /\ NativeTypeOK'
  BY NativeType DEF ProjectsInv, LedgerTypeOK, Native
<1>2. DataTypeOK'
  BY <1>1 DEF Native, DataTypeOK, LedgerTypeOK, filesVars, siteVars, boundVars
<1>3. /\ helper \in Helpers /\ helper # NoHelper
      /\ helper'.site = helper.site /\ helper'.project = helper.project
  BY <1>1, HelperTypes
  DEF Native, HelperStep, HelperAt, Advance, TakeLock, Initialize, CheckOwner, InspectPrepare, Burn,
      WriteJournal, Publish, InspectTag, TagNode, TagsDone, ConfirmTags, Helpers
<1>4. /\ burned' \subseteq burned \cup {<<helper.site, helper.project>>}
      /\ \A s \in Sites : \/ journal'[s].project = journal[s].project
                          \/ s = helper.site /\ journal'[s].project = helper.project
  <2>1. CASE Publish
    BY <1>1, <1>3, <2>1 DEF Publish, NativeTypeOK
  <2>2. CASE Burn
    BY <2>2 DEF Burn
  <2>3. CASE UNCHANGED <<burned, journal>>
    BY <2>3
  <2> QED
    BY <2>1, <2>2, <2>3
    DEF Native, HelperStep, TakeLock, Initialize, CheckOwner, InspectPrepare, WriteJournal,
        InspectTag, TagNode, TagsDone, ConfirmTags
<1>5. BindsReserved
  BY <1>3, <1>4 DEF Native, BindsReserved, Bound, siteVars
<1> QED
  BY <1>2, <1>5, StillStep DEF Native, filesVars

\* Every step.
LEMMA ProjectsStep ==
    ASSUME ProjectsInv, [LedgerNext]_ledgerVars
    PROVE  ProjectsInv'
<1>1. CASE UNCHANGED ledgerVars
  BY <1>1 DEF ledgerVars, filesVars, siteVars, boundVars, nativeVars, ProjectsInv, LedgerTypeOK,
              NativeTypeOK, BoundApart, LedgerRules, Unbound, Bound, ProcHolds, Holds
<1> QED
  BY <1>1, EnterHolds, StepHolds, StartHolds, DeleteHolds, WriteHolds, CrashHolds, LossHolds,
     NativeHolds, InterfereHolds DEF LedgerNext

\* The initial states.
LEMMA ProjectsInit ==
    ASSUME LedgerInit
    PROVE  ProjectsInv
<1>1. LedgerTypeOK
  <2>1. NoPlan \in Plans
    BY MaxProjectAssumption DEF NoPlan, Plans, Phases
  <2>2. NativeTypeOK
    BY MaxWritesAssumption, StageNames DEF LedgerInit, NativeInit, NativeTypeOK
  <2>3. dir \in BOOLEAN /\ sentinel \in BOOLEAN
    BY Zenon DEF LedgerInit
  <2>4. /\ proc \in [Workers -> Transitions \cup {Idle, Down}]
        /\ present \subseteq Sites /\ up \subseteq present
        /\ guard \in [Sites -> 0..MaxProject] /\ plan \in [Sites -> Plans]
        /\ transitions \in 0..MaxTransitions /\ faults \in 0..MaxFaults
    BY <2>1, MaxProjectAssumption, MaxTransitionsAssumption, LedgerFaultsAssumption DEF LedgerInit
  <2> QED
    BY <2>2, <2>3, <2>4 DEF LedgerInit, LedgerTypeOK
<1>2. Unbound /\ ledger = Missing
  BY DEF LedgerInit, NativeInit, Unbound, Bound, NoPlan, NoJournal
<1>3. \A w \in Workers : ProcHolds(w)
  BY DEF LedgerInit, ProcHolds, Idle, Resting, Unlocked
<1> QED
  BY <1>1, <1>2, <1>3 DEF ProjectsInv, BoundApart, LedgerRules, Unbound

\* The invariant of the project IDs, for any number of workers.
THEOREM ProjectsSafety == LedgerSpec => []ProjectsInv
BY ProjectsInit, ProjectsStep, PTL DEF LedgerSpec

\* No two sites are ever bound to one project by any file, and none to a project of
\* others: concurrent workers, crashes between two saves and the loss of .quota
\* included (loadQuotaLedger, reserveQuotaProject).
THEOREM ProjectsUniqueHolds == LedgerSpec => []ProjectsUnique
<1>1. ProjectsInv => ProjectsUnique
  <2> SUFFICES ASSUME ProjectsInv, NEW s \in Sites, NEW t \in Sites, NEW p \in ProjectsOf(s)
               PROVE  p \notin Foreign /\ (p \in ProjectsOf(t) => s = t)
    BY DEF ProjectsUnique
  <2>1. p \in Projects /\ p # 0
    BY DEF ProjectsOf, Projects
  <2>2. \A q \in Sites : p \in ProjectsOf(q) => Bound(q, p) \/ (ledger # Missing /\ p = ledger[q])
    BY <2>1 DEF ProjectsOf, Bound
  <2> QED
    BY <2>1, <2>2 DEF ProjectsInv, BoundApart, LedgerRules
<1> QED
  BY <1>1, ProjectsSafety, PTL
-----------------------------------------------------------------------------
(* The inductive invariant of the journals *)

\* A site that exists cannot be started, and is not running.
Shut(s) == s \in present => Marked(s) /\ s \notin up

\* The site has its journal and the authority is complete, which lasts.
Ready(s) == journal[s] # NoJournal /\ stage = "owned"

SitesKept ==
    \A s \in Sites :
        /\ journal[s] # NoJournal =>
              /\ <<s, journal[s].project>> \in burned
              /\ Shut(s)
              /\ s \in present => journal[s].tree = tree[s]
        /\ plan[s].phase \in {"prepared", "tagging", "tagged"} => Ready(s)

\* A helper works on a site that is shut, the snapshot it took is that of the
\* data, and one that tags has the journal it needs.
HelperKept ==
    /\ Working => helper.site \in present /\ Shut(helper.site)
    /\ Working /\ helper.tag =>
          /\ helper.pc \notin {"burn", "write", "publish"}
          /\ Ready(helper.site) /\ journal[helper.site].project = helper.project
    /\ helper.pc \in {"write", "publish"} => <<helper.site, helper.project>> \in burned
    /\ helper.pc \in {"burn", "write", "publish"} => helper.tree = tree[helper.site]
    /\ helper.pc \in {"tag", "confirm"} => helper.tag
    /\ helper.pc \in {"inspect", "burn", "write", "publish", "tag", "confirm", "verified"} =>
          stage = "owned"
    /\ helper.pc = "confirm" => tags[helper.site] = Nodes
    /\ helper.pc = "verified" => journal[helper.site] # NoJournal

Marking == {"plan", "fence", "verify"}
Shutting == {"mark", "launch", "await", "prepared", "finish"}
Confirmed == {"prepared", "finish"}
Readied == Confirmed \cup {"mark"}

\* A transition has marked its site, then shut it, before a helper is started.
Kept(t) ==
    /\ (t.seen # NoPlan \/ t.pc \in Marking) /\ t.site \in present => Marked(t.site)
    /\ t.tag \/ t.pc \in Readied => Ready(t.site)
    /\ t.pc \in Shutting => Shut(t.site)

ProcKept(w) ==
    /\ proc[w].pc \notin Resting => Kept(proc[w])
    /\ helper.by = w => /\ proc[w].pc = "await"
                        /\ helper.site = proc[w].site /\ helper.tag = proc[w].tag

JournalInv ==
    /\ SitesKept
    /\ HelperKept
    /\ \A w \in Workers : ProcKept(w)

-----------------------------------------------------------------------------
(* The inductive invariant of the tags, for one worker *)

\* Until it has saved the plan, a transition knows the one on disk; then the plan
\* is in a phase of the transition's own kind.
Planned(t) ==
    /\ t.site \in present
    /\ t.pc \notin Owning \/ t.pc \in {"authority", "guard", "plan"} => plan[t.site] = t.seen
    /\ t.pc \in {"authority", "guard", "plan"} => t.seen = NoPlan
    /\ t.pc = "mark" => t.tag
    /\ t.tag => plan[t.site].phase \notin {"none", "pending"}
    /\ ~t.tag => plan[t.site].phase \notin {"tagging", "tagged"}
    /\ t.tag /\ t.pc \in Shutting \ {"mark"} =>
          plan[t.site].phase = "tagging" /\ guard[t.site] = t.project
    /\ t.tag /\ t.pc \in Confirmed => tags[t.site] = Nodes

\* A helper that tags has its plan and its record.
HelperPlanned ==
    /\ Working /\ helper.tag => /\ plan[helper.site].phase \in {"tagging", "tagged"}
                                /\ guard[helper.site] = helper.project
    /\ helper.pc \in {"burn", "write", "publish"} => tags[helper.site] = {}
    /\ helper.pc = "verified" /\ helper.tag /\ helper.by \in Workers =>
          tags[helper.site] = Nodes

TagInv ==
    /\ TagsPlanned
    /\ HelperPlanned
    /\ \A w \in Workers : proc[w].pc \notin Resting => Planned(proc[w])
-----------------------------------------------------------------------------
(* Journals: what every step leaves as it is *)

\* A marked site stays marked and stays down while it exists, and what is ready
\* stays ready.
Steady ==
    /\ present' \subseteq present
    /\ \A s \in Sites : s \in present' /\ Marked(s) => Marked(s)' /\ (s \notin up => s \notin up')
    /\ \A s \in Sites : Ready(s) => Ready(s)'

\* A step that changes nothing of the sites and the authority is steady.
LEMMA SteadyStill ==
    ASSUME UNCHANGED <<present, up, guard, plan, journal, stage>>
    PROVE  Steady
BY DEF Steady, Marked, Ready

\* What is known of the sites survives a steady step that makes no journal.
LEMMA SteadySites ==
    ASSUME SitesKept, Steady, UNCHANGED <<journal, burned, tree>>,
           \A s \in Sites : plan'[s].phase \in {"prepared", "tagging", "tagged"} =>
                               plan[s].phase \in {"prepared", "tagging", "tagged"} \/ Ready(s)
    PROVE  SitesKept'
BY DEF SitesKept, Steady, Shut

\* What is known of a transition survives a steady step of somebody else.
LEMMA SteadyProc ==
    ASSUME LedgerTypeOK, Steady, NEW v \in Workers, proc'[v] = proc[v], ProcKept(v),
           helper'.by = v => helper.by = v /\ helper'.site = helper.site /\ helper'.tag = helper.tag
    PROVE  ProcKept(v)'
<1>1. proc[v].pc \notin Resting => Kept(proc[v])'
  <2> SUFFICES ASSUME proc[v].pc \notin Resting
               PROVE  Kept(proc[v])'
    OBVIOUS
  <2>1. Kept(proc[v]) /\ proc[v].site \in Sites
    BY ProcTypes DEF ProcKept, Resting, Transitions
  <2> QED
    BY <2>1 DEF Kept, Steady, Shut
<1> QED
  BY <1>1 DEF ProcKept

\* What is known of the helper survives a steady step of the workers.
LEMMA SteadyHelper ==
    ASSUME LedgerTypeOK, HelperKept, Steady,
           UNCHANGED <<stage, burned, journal, partial, tree>>,
           \/ helper' = NoHelper
           \/ helper' = helper
           \/ helper # NoHelper /\ helper' = [helper EXCEPT !.by = "nobody"],
           Working => helper.site \in present' /\ tags'[helper.site] = tags[helper.site]
    PROVE  HelperKept'
<1>1. CASE helper' = NoHelper
  BY <1>1 DEF HelperKept, Working, NoHelper
<1>2. CASE helper' # NoHelper
  <2>1. /\ helper \in Helpers
        /\ helper'.site = helper.site /\ helper'.tag = helper.tag /\ helper'.pc = helper.pc
        /\ helper'.project = helper.project /\ helper'.tree = helper.tree
    BY <1>2, HelperTypes DEF LedgerTypeOK, Helpers
  <2>2. helper.site \in Sites /\ helper # NoHelper
    BY <1>2, <2>1 DEF Helpers, NoHelper
  <2>3. Working' = Working /\ (helper.pc \in {"confirm"} => Working)
    BY <1>2, <2>1, <2>2 DEF Working
  <2>4. Working => helper.site \in present' /\ Shut(helper.site)'
    BY <2>1, <2>2 DEF HelperKept, Steady, Shut
  <2>5. Ready(helper.site) => Ready(helper.site)'
    BY <2>1, <2>2 DEF Steady
  <2> QED
    BY <2>1, <2>2, <2>3, <2>4, <2>5 DEF HelperKept
<1> QED
  BY <1>1, <1>2
\* A transition goes on with the site, the kind and the plan it began with.
Same(w) ==
    /\ \A v \in Workers \ {w} : proc'[v] = proc[v]
    /\ proc'[w].site = proc[w].site
    /\ proc'[w].tag = proc[w].tag
    /\ proc'[w].seen = proc[w].seen

\* Goto and Undo do.
LEMMA GotoSame ==
    ASSUME LedgerTypeOK, NEW w \in Workers, proc[w].pc \notin {"idle", "down"}, NEW pc \in PCs,
           Goto(w, pc)
    PROVE  Same(w) /\ proc'[w].pc = pc /\ proc'[w].project = proc[w].project
<1>1. proc'[w] = [proc[w] EXCEPT !.pc = pc] /\ proc[w] \in Transitions
  BY GotoType, ProcTypes
<1> QED
  BY <1>1, GotoType DEF Same, Transitions

\* Undo is a Goto.
LEMMA UndoSame ==
    ASSUME LedgerTypeOK, NEW w \in Workers, proc[w].pc \notin {"idle", "down"}, Undo(w)
    PROVE  Same(w) /\ proc'[w].pc = "undo"
BY GotoSame DEF Undo, PCs

\* A transition that goes on keeps what it knows, if its next step asks no more.
LEMMA KeptOnward ==
    ASSUME LedgerTypeOK, NEW w \in Workers, proc[w].pc \notin Resting, ProcKept(w), Steady, Same(w),
           proc[w].pc # "await", helper'.by # w \/ helper'.by = helper.by,
           proc'[w].pc \in Marking => (proc[w].site \in present' => Marked(proc[w].site)'),
           proc'[w].pc \in Readied => Ready(proc[w].site)',
           proc'[w].pc \in Shutting => Shut(proc[w].site)'
    PROVE  ProcKept(w)'
<1>1. Kept(proc[w]) /\ proc[w].site \in Sites /\ helper.by # w
  BY ProcTypes DEF ProcKept, Resting, Transitions
<1>2. Kept(proc[w])'
  BY <1>1 DEF Kept, Same, Steady, Shut
<1> QED
  BY <1>1, <1>2 DEF ProcKept

\* A step of a transition that leaves the sites and the authority alone.
LEMMA QuietKept ==
    ASSUME ProjectsInv, JournalInv, NEW w \in Workers, UNCHANGED <<siteVars, nativeVars>>,
           \A v \in Workers \ {w} : proc'[v] = proc[v],
           ProcKept(w)'
    PROVE  JournalInv'
<1>1. LedgerTypeOK /\ Steady
  BY SteadyStill DEF ProjectsInv, siteVars, nativeVars
<1>2. SitesKept'
  BY <1>1, SteadySites DEF JournalInv, siteVars, nativeVars
<1>3. HelperKept'
  <2>1. Working => helper.site \in present' /\ tags'[helper.site] = tags[helper.site]
    BY DEF JournalInv, HelperKept, siteVars, nativeVars
  <2> QED
    BY <1>1, <2>1, SteadyHelper DEF JournalInv, nativeVars
<1>4. \A v \in Workers \ {w} : ProcKept(v)'
  BY <1>1, SteadyProc DEF JournalInv, nativeVars
<1> QED
  BY <1>2, <1>3, <1>4 DEF JournalInv

\* The steps before anything is marked.
LEMMA EarlyShape ==
    ASSUME LedgerTypeOK, NEW w \in Workers, proc[w].pc \notin Resting,
           \/ Reserve(w) \/ LockQuotaLedger(w) \/ LoadQuotaLedger(w) \/ SaveSentinel(w)
           \/ CreateLedger(w) \/ Allocate(w) \/ SaveReservation(w) \/ SaveAuthority(w)
    PROVE  /\ Same(w) /\ UNCHANGED <<siteVars, nativeVars>> /\ proc[w].pc # "await"
           /\ proc'[w].pc \notin Marking /\ proc'[w].pc \notin Shutting
           /\ proc[w].pc \notin Owning \/ proc[w].pc = "authority"
           /\ proc'[w].pc \in {"authority", "guard"} => proc[w].pc = "authority"
<1> DEFINE Calm(pc) == /\ pc \in PCs /\ pc \notin Marking /\ pc \notin Shutting
                       /\ pc \in {"authority", "guard"} => proc[w].pc = "authority"
<1>1. proc[w].pc \notin {"idle", "down"} /\ proc[w] \in Transitions
  BY ProcTypes DEF Resting
<1>2. ASSUME NEW pc, Calm(pc), Goto(w, pc)
      PROVE  /\ Same(w) /\ proc'[w].pc \notin Marking /\ proc'[w].pc \notin Shutting
             /\ proc'[w].pc \in {"authority", "guard"} => proc[w].pc = "authority"
  BY <1>1, <1>2, GotoSame
<1>3. Undo(w) => /\ Same(w) /\ proc'[w].pc \notin Marking /\ proc'[w].pc \notin Shutting
                 /\ proc'[w].pc \notin {"authority", "guard"}
  BY <1>1, UndoSame DEF Marking, Shutting
<1>4. /\ Calm("lock") /\ Calm("sentinel") /\ Calm("create") /\ Calm("identify")
      /\ Calm("allocate") /\ (proc[w].pc = "authority" => Calm("guard"))
  BY DEF PCs, Marking, Shutting, Owning
<1> HIDE DEF Calm
<1> USE DEF ProcAt, Marking, Shutting, Owning
<1>5. CASE Reserve(w)
  BY <1>2, <1>3, <1>4, <1>5 DEF Reserve
<1>6. CASE LockQuotaLedger(w)
  <2>1. CASE proc' = [proc EXCEPT ![w].pc = "load", ![w].fresh = ~dir]
    BY <1>1, <1>6, <2>1 DEF LockQuotaLedger, Same, LedgerTypeOK, Transitions
  <2> QED
    BY <1>3, <1>6, <2>1 DEF LockQuotaLedger
<1>7. CASE LoadQuotaLedger(w)
  BY <1>2, <1>3, <1>4, <1>7 DEF LoadQuotaLedger
<1>8. CASE SaveSentinel(w)
  BY <1>2, <1>3, <1>4, <1>8 DEF SaveSentinel, Saved
<1>9. CASE CreateLedger(w)
  BY <1>2, <1>3, <1>4, <1>9 DEF CreateLedger, Saved
<1>10. CASE Allocate(w)
  <2>1. CASE proc' = [proc EXCEPT ![w].pc = "lock", ![w].again = TRUE,
                                  ![w].project = ledger[proc[w].site]]
    BY <1>1, <1>10, <2>1 DEF Allocate, Same, LedgerTypeOK, Transitions
  <2>2. ASSUME NEW p, proc' = [proc EXCEPT ![w].pc = "save", ![w].project = p]
        PROVE  Same(w) /\ proc'[w].pc = "save"
    BY <1>1, <2>2 DEF Same, LedgerTypeOK, Transitions
  <2> QED
    BY <1>3, <1>10, <2>1, <2>2 DEF Allocate
<1>11. CASE SaveReservation(w)
  <2>1. CASE proc' = [proc EXCEPT ![w].pc = "lock", ![w].again = TRUE]
    BY <1>1, <1>11, <2>1 DEF SaveReservation, Same, LedgerTypeOK, Transitions
  <2> QED
    BY <1>3, <1>11, <2>1 DEF SaveReservation
<1>12. CASE SaveAuthority(w)
  BY <1>2, <1>3, <1>4, <1>12 DEF SaveAuthority, Saved
<1> QED
  BY <1>5, <1>6, <1>7, <1>8, <1>9, <1>10, <1>11, <1>12
-----------------------------------------------------------------------------
(* Journals: the steps *)

\* What a transition at work is known to be.
LEMMA AtKept ==
    ASSUME ProjectsInv, JournalInv, NEW w \in Workers, proc[w].pc \notin Resting
    PROVE  /\ LedgerTypeOK /\ proc[w] \in Transitions /\ proc[w].site \in Sites
           /\ proc[w].pc \notin {"idle", "down"}
           /\ ProcKept(w) /\ Kept(proc[w])
BY AtStep DEF JournalInv, ProcKept

\* The steps before anything is marked.
LEMMA EarlyKept ==
    ASSUME ProjectsInv, JournalInv, NEW w \in Workers,
           \/ Reserve(w) \/ LockQuotaLedger(w) \/ LoadQuotaLedger(w) \/ SaveSentinel(w)
           \/ CreateLedger(w) \/ Allocate(w) \/ SaveReservation(w) \/ SaveAuthority(w)
    PROVE  JournalInv'
<1>1. proc[w].pc \notin Resting
  BY DEF Reserve, LockQuotaLedger, LoadQuotaLedger, SaveSentinel, CreateLedger, Allocate,
         SaveReservation, SaveAuthority, ProcAt, Resting
<1>2. /\ Same(w) /\ UNCHANGED <<siteVars, nativeVars>> /\ proc[w].pc # "await"
      /\ proc'[w].pc \notin Marking /\ proc'[w].pc \notin Shutting
  BY <1>1, EarlyShape DEF ProjectsInv
<1>3. Steady
  BY <1>2, SteadyStill DEF siteVars, nativeVars
<1>4. ProcKept(w)'
  BY <1>1, <1>2, <1>3, AtKept, KeptOnward DEF nativeVars, Confirmed, Readied, Shutting
<1> QED
  BY <1>2, <1>4, QuietKept DEF Same

\* A plan that was read is a mark; verification finds the site down; the phase of
\* the authority is confirmed.
LEMMA MiddleKept ==
    ASSUME ProjectsInv, JournalInv, NEW w \in Workers,
           Identify(w) \/ VerifyStopped(w) \/ ConfirmAuthority(w)
    PROVE  JournalInv'
<1>1. proc[w].pc \notin Resting /\ UNCHANGED <<siteVars, nativeVars>> /\ proc[w].pc # "await"
  BY DEF Identify, VerifyStopped, ConfirmAuthority, ProcAt, Resting
<1>2. Steady
  BY <1>1, SteadyStill DEF siteVars, nativeVars
<1>3. CASE Undo(w)
  <2>1. Same(w) /\ proc'[w].pc = "undo"
    BY <1>1, <1>3, AtKept, UndoSame
  <2>2. ProcKept(w)'
    BY <1>1, <1>2, <2>1, AtKept, KeptOnward DEF nativeVars, Marking, Confirmed, Readied, Shutting
  <2> QED
    BY <1>1, <2>1, <2>2, QuietKept DEF Same
<1>4. CASE Identify(w) /\ ~Undo(w)
  <2>1. PICK pc \in {"authority", "guard", "fence"} :
            /\ pc = "fence" => proc[w].seen # NoPlan
            /\ proc' = [proc EXCEPT ![w].pc = pc, ![w].project =
                            IF proc[w].seen = NoPlan THEN @ ELSE ledger[proc[w].site]]
    BY <1>4 DEF Identify
  <2>2. Same(w) /\ proc'[w].pc = pc
    BY <1>1, <2>1, AtKept DEF Same, LedgerTypeOK, Transitions
  <2>3. proc'[w].pc \in Marking => (proc[w].site \in present' => Marked(proc[w].site)')
    BY <1>1, <1>2, <2>1, <2>2, AtKept DEF Marking, Kept, Steady, Same
  <2>4. ProcKept(w)'
    BY <1>1, <1>2, <2>2, <2>3, AtKept, KeptOnward DEF nativeVars, Confirmed, Readied, Shutting
  <2> QED
    BY <1>1, <2>2, <2>4, QuietKept DEF Same
<1>5. CASE VerifyStopped(w) /\ ~Undo(w)
  <2>1. PICK pc \in {"mark", "launch"} : /\ Goto(w, pc) /\ (pc = "mark" => proc[w].tag)
                                        /\ proc[w].site \notin up /\ proc[w].pc = "verify"
    BY <1>5 DEF VerifyStopped, Verified, ProcAt
  <2>2. Same(w) /\ proc'[w].pc = pc
    BY <1>1, <2>1, AtKept, GotoSame DEF PCs, Owning
  <2>3. Shut(proc[w].site)'
    BY <1>1, <1>2, <2>1, <2>2, AtKept DEF Shut, Kept, Marking, Steady, Same
  <2>4. pc = "mark" => Ready(proc[w].site)'
    BY <1>1, <1>2, <2>1, <2>2, AtKept DEF Kept, Steady, Same
  <2>5. ProcKept(w)'
    BY <1>1, <1>2, <2>2, <2>3, <2>4, AtKept, KeptOnward DEF nativeVars, Confirmed, Readied, Marking
  <2> QED
    BY <1>1, <2>2, <2>5, QuietKept DEF Same
<1>6. CASE ConfirmAuthority(w) /\ ~Undo(w)
  <2>1. Goto(w, "finish") /\ proc[w].pc = "prepared"
    BY <1>6 DEF ConfirmAuthority, Saved, ProcAt
  <2>2. Same(w) /\ proc'[w].pc = "finish"
    BY <1>1, <2>1, AtKept, GotoSame DEF PCs, Owning
  <2>3. Shut(proc[w].site)' /\ Ready(proc[w].site)'
    BY <1>1, <1>2, <2>1, <2>2, AtKept DEF Shut, Kept, Shutting, Confirmed, Readied, Steady, Same
  <2>4. ProcKept(w)'
    BY <1>1, <1>2, <2>2, <2>3, AtKept, KeptOnward DEF nativeVars, Marking
  <2> QED
    BY <1>1, <2>2, <2>4, QuietKept DEF Same
<1> QED
  BY <1>3, <1>4, <1>5, <1>6

\* A transition that begins has read the plan as it is.
LEMMA EnterKept ==
    ASSUME ProjectsInv, JournalInv, NEW w \in Workers, NEW s \in Sites, NEW tag \in BOOLEAN,
           Enter(w, s, tag)
    PROVE  JournalInv'
<1>1. LedgerTypeOK /\ UNCHANGED <<siteVars, nativeVars>> /\ proc[w].pc = "idle" /\ plan[s] \in Plans
  BY DEF ProjectsInv, LedgerTypeOK, Enter, Idle
<1>2. PICK pc \in {"undo", "reserve", "lock"} :
          /\ pc # "undo" => Begins(plan[s], tag)
          /\ proc' = [proc EXCEPT ![w] =
                 [site |-> s, tag |-> tag, pc |-> pc, seen |-> plan[s],
                  project |-> 0, fresh |-> FALSE, again |-> plan[s] # NoPlan]]
  BY DEF Enter
<1>3. /\ proc'[w].site = s /\ proc'[w].tag = tag /\ proc'[w].pc = pc /\ proc'[w].seen = plan[s]
      /\ \A v \in Workers \ {w} : proc'[v] = proc[v]
  BY <1>1, <1>2 DEF LedgerTypeOK
<1>4. helper.by # w
  BY <1>1 DEF JournalInv, ProcKept
<1>5. pc # "undo" /\ tag => Ready(s)
  BY <1>1, <1>2 DEF Begins, JournalInv, SitesKept, Plans, Phases
<1>6. Ready(s)' = Ready(s) /\ Marked(s)' = Marked(s)
  BY <1>1 DEF Ready, Marked, siteVars, nativeVars
<1>7. Kept(proc[w])' \/ pc = "undo"
  BY <1>2, <1>3, <1>5, <1>6 DEF Kept, Marking, Confirmed, Readied, Shutting, Marked
<1>8. ProcKept(w)'
  BY <1>1, <1>3, <1>4, <1>7 DEF ProcKept, Resting, nativeVars
<1> QED
  BY <1>1, <1>3, <1>8, QuietKept
\* A steady step of one worker, which may leave or remove the helper.
LEMMA WorkerKept ==
    ASSUME ProjectsInv, JournalInv, NEW w \in Workers, Steady,
           UNCHANGED <<stage, burned, journal, partial, tree>>,
           \A s \in Sites : plan'[s].phase \in {"prepared", "tagging", "tagged"} =>
                               plan[s].phase \in {"prepared", "tagging", "tagged"} \/ Ready(s),
           \/ helper' = NoHelper
           \/ helper' = helper
           \/ helper # NoHelper /\ helper' = [helper EXCEPT !.by = "nobody"],
           Working => helper.site \in present' /\ tags'[helper.site] = tags[helper.site],
           \A v \in Workers \ {w} : proc'[v] = proc[v],
           ProcKept(w)'
    PROVE  JournalInv'
<1>1. LedgerTypeOK
  BY DEF ProjectsInv
<1>2. SitesKept'
  BY <1>1, SteadySites DEF JournalInv
<1>3. HelperKept'
  BY <1>1, SteadyHelper DEF JournalInv
<1>4. ASSUME NEW v \in Workers \ {w}
      PROVE  ProcKept(v)'
  <2>1. helper'.by = v => helper'.by = helper.by /\ helper' = helper
    BY <1>1, <1>4, WorkersAssumption, HelperTypes DEF LedgerTypeOK, NoHelper, Helpers
  <2> QED
    BY <1>1, <1>4, <2>1, SteadyProc DEF JournalInv
<1> QED
  BY <1>2, <1>3, <1>4 DEF JournalInv

\* The record is saved: the site is marked.
LEMMA GuardKept ==
    ASSUME ProjectsInv, JournalInv, NEW w \in Workers, SaveGuard(w)
    PROVE  JournalInv'
<1> DEFINE s0 == proc[w].site
           p0 == proc[w].project
<1>1. /\ proc[w].pc \in Owning /\ proc[w].pc \notin Resting /\ proc[w].pc # "await"
      /\ UNCHANGED <<present, up, plan, nativeVars>>
  BY DEF SaveGuard, ProcAt, Owning, Resting
<1>2. LedgerTypeOK /\ p0 # 0 /\ s0 \in Sites /\ guard \in [Sites -> 0..MaxProject]
  BY <1>1, AtOwning DEF Projects, LedgerTypeOK
<1>3. guard' \in {guard, [guard EXCEPT ![s0] = p0]}
  BY DEF SaveGuard, Saved
<1>4. Steady
  BY <1>1, <1>2, <1>3 DEF Steady, Marked, Ready, nativeVars
<1>5. Undo(w) \/ (Goto(w, "plan") /\ (s0 \in present => guard'[s0] # 0))
  BY <1>2 DEF SaveGuard, Saved
<1>6. Same(w) /\ (proc'[w].pc = "undo" \/ (proc'[w].pc = "plan" /\ (s0 \in present => guard'[s0] # 0)))
  BY <1>1, <1>5, AtKept, UndoSame, GotoSame DEF PCs, Owning
<1>7. proc'[w].pc \in Marking => (s0 \in present' => Marked(s0)')
  BY <1>1, <1>6 DEF Marking, Marked, Same
<1>8. ProcKept(w)'
  BY <1>1, <1>4, <1>6, <1>7, AtKept, KeptOnward DEF nativeVars, Confirmed, Readied, Shutting
<1>9. Working => helper.site \in present'
  BY <1>1 DEF JournalInv, HelperKept
<1> QED
  BY <1>1, <1>4, <1>6, <1>8, <1>9, WorkerKept DEF Same, nativeVars

\* A plan that is saved is a mark, in whatever phase.
LEMMA PlanSteady ==
    ASSUME ProjectsInv, NEW w \in Workers, proc[w].pc \in Owning, NEW phase,
           plan' \in {plan, [plan EXCEPT ![proc[w].site] =
                                 [phase |-> phase, project |-> proc[w].project]]},
           UNCHANGED <<present, up, guard, nativeVars>>
    PROVE  /\ Steady
           /\ \A s \in Sites : \/ plan'[s] = plan[s]
                               \/ s = proc[w].site /\ plan'[s].phase = phase
<1>1. LedgerTypeOK /\ proc[w].project # 0 /\ proc[w].site \in Sites
  BY AtOwning DEF Projects
<1>2. \A s \in Sites : \/ plan'[s] = plan[s]
                       \/ s = proc[w].site /\ plan'[s].phase = phase /\ plan'[s].project # 0
  BY <1>1 DEF LedgerTypeOK
<1>3. \A s \in Sites : Marked(s) => Marked(s)'
  BY <1>2 DEF Marked, NoPlan
<1> QED
  BY <1>2, <1>3 DEF Steady, Ready, nativeVars

\* The plan becomes pending.
LEMMA PendingKept ==
    ASSUME ProjectsInv, JournalInv, NEW w \in Workers, SavePending(w)
    PROVE  JournalInv'
<1>1. /\ proc[w].pc \in Owning /\ proc[w].pc \notin Resting /\ proc[w].pc = "plan"
      /\ UNCHANGED <<present, up, guard, nativeVars>>
  BY DEF SavePending, SavePlan, ProcAt, Owning, Resting
<1>2. plan' \in {plan, [plan EXCEPT ![proc[w].site] =
                            [phase |-> "pending", project |-> proc[w].project]]}
  BY DEF SavePending, SavePlan, Saved
<1>3. /\ Steady
      /\ \A s \in Sites : \/ plan'[s] = plan[s]
                          \/ s = proc[w].site /\ plan'[s].phase = "pending"
  BY <1>1, <1>2, PlanSteady
<1>4. Undo(w) \/ Goto(w, "fence")
  BY DEF SavePending, SavePlan, Saved
<1>5. Same(w) /\ proc'[w].pc \in {"undo", "fence"}
  BY <1>1, <1>4, AtKept, UndoSame, GotoSame DEF PCs, Owning
<1>6. proc[w].site \in present' => Marked(proc[w].site)'
  BY <1>1, <1>3, <1>5, AtKept DEF Kept, Marking, Steady, Same
<1>7. ProcKept(w)'
  BY <1>1, <1>3, <1>5, <1>6, AtKept, KeptOnward DEF nativeVars, Confirmed, Readied, Shutting
<1>8. Working => helper.site \in present'
  BY <1>1 DEF JournalInv, HelperKept
<1> QED
  BY <1>1, <1>3, <1>5, <1>7, <1>8, WorkerKept DEF Same, nativeVars

\* The plan becomes tagging: only a transition that has found a journal tags.
LEMMA TaggingKept ==
    ASSUME ProjectsInv, JournalInv, NEW w \in Workers, MarkTagging(w)
    PROVE  JournalInv'
<1>1. /\ proc[w].pc \in Owning /\ proc[w].pc \notin Resting /\ proc[w].pc = "mark"
      /\ UNCHANGED <<present, up, guard, nativeVars>>
  BY DEF MarkTagging, SavePlan, ProcAt, Owning, Resting, siteVars
<1>2. plan' \in {plan, [plan EXCEPT ![proc[w].site] =
                            [phase |-> "tagging", project |-> proc[w].project]]}
  BY DEF MarkTagging, SavePlan, Saved, siteVars
<1>3. /\ Steady
      /\ \A s \in Sites : \/ plan'[s] = plan[s]
                          \/ s = proc[w].site /\ plan'[s].phase = "tagging"
  BY <1>1, <1>2, PlanSteady
<1>4. Undo(w) \/ Goto(w, "launch")
  BY DEF MarkTagging, SavePlan, Saved
<1>5. Same(w) /\ proc'[w].pc \in {"undo", "launch"}
  BY <1>1, <1>4, AtKept, UndoSame, GotoSame DEF PCs, Owning
<1>6. Shut(proc[w].site)' /\ Ready(proc[w].site)
  BY <1>1, <1>3, <1>5, AtKept DEF Kept, Shutting, Readied, Shut, Steady, Same
<1>7. ProcKept(w)'
  BY <1>1, <1>3, <1>5, <1>6, AtKept, KeptOnward DEF nativeVars, Confirmed, Readied, Marking
<1>8. Working => helper.site \in present'
  BY <1>1 DEF JournalInv, HelperKept
<1> QED
  BY <1>1, <1>3, <1>5, <1>6, <1>7, <1>8, WorkerKept DEF Same, nativeVars
\* fenceQuotaSite is steady, and removes a helper with nobody left to answer.
LEMMA FencedSteady ==
    ASSUME LedgerTypeOK, NEW s \in Sites, Fenced(s)
    PROVE  /\ Steady /\ helper' \in {helper, NoHelper}
           /\ UNCHANGED <<present, guard, plan, stage, burned, journal, partial, tags, tree>>
BY DEF Fenced, Steady, Marked, Ready

\* A worker at rest.
LEMMA RestKept ==
    ASSUME LedgerTypeOK, NEW w \in Workers, proc'[w].pc \in Resting, helper'.by # w
    PROVE  ProcKept(w)'
BY DEF ProcKept

\* The site is fenced by its transition.
LEMMA FenceKept ==
    ASSUME ProjectsInv, JournalInv, NEW w \in Workers, FenceSite(w)
    PROVE  JournalInv'
<1>1. proc[w].pc = "fence" /\ proc[w].pc \notin Resting
  BY DEF FenceSite, ProcAt, Resting
<1>2. LedgerTypeOK /\ proc[w].site \in Sites /\ helper.by # w /\ NoHelper.by # w
  BY <1>1, AtKept, WorkersAssumption DEF ProcKept, NoHelper
<1>3. /\ Steady /\ helper' \in {helper, NoHelper}
      /\ UNCHANGED <<present, guard, plan, stage, burned, journal, partial, tags, tree>>
  <2>1. CASE Fenced(proc[w].site)
    BY <1>2, <2>1, FencedSteady
  <2>2. CASE UNCHANGED <<siteVars, nativeVars>>
    BY <2>2, SteadyStill DEF siteVars, nativeVars
  <2> QED
    BY <2>1, <2>2 DEF FenceSite
<1>4. Undo(w) \/ Goto(w, "verify")
  BY DEF FenceSite
<1>5. Same(w) /\ proc'[w].pc \in {"undo", "verify"}
  BY <1>1, <1>4, AtKept, UndoSame, GotoSame DEF PCs, Owning
<1>6. proc[w].site \in present' => Marked(proc[w].site)'
  BY <1>1, <1>3, <1>5, AtKept DEF Kept, Marking, Steady, Same
<1>7. ProcKept(w)'
  BY <1>1, <1>2, <1>3, <1>5, <1>6, AtKept, KeptOnward DEF Confirmed, Readied, Shutting
<1>8. Working => helper.site \in present'
  BY <1>3 DEF JournalInv, HelperKept
<1> QED
  BY <1>3, <1>5, <1>7, <1>8, WorkerKept DEF Same

\* The end of a transition that failed, and everything a worker does in between.
LEMMA IdleKept ==
    ASSUME ProjectsInv, JournalInv, NEW w \in Workers,
           FenceFailure(w) \/ Sweep(w) \/ \E s \in Sites : StartSite(w, s)
    PROVE  JournalInv'
<1>1. LedgerTypeOK /\ NoHelper.by # w
  BY WorkersAssumption DEF ProjectsInv, NoHelper
<1>2. /\ proc[w].pc \in {"idle", "undo"} /\ proc'[w].pc = "idle"
      /\ \A v \in Workers \ {w} : proc'[v] = proc[v]
  BY <1>1 DEF FenceFailure, Sweep, StartSite, ProcAt, Idle, LedgerTypeOK
<1>3. helper.by # w
  BY <1>2 DEF JournalInv, ProcKept
<1>4. \/ \E s \in Sites : Fenced(s)
      \/ UNCHANGED <<siteVars, nativeVars>>
      \/ \E s \in Sites : /\ ~Marked(s) /\ up' = up \cup {s}
                          /\ UNCHANGED <<present, guard, plan, nativeVars>>
  <2>1. CASE FenceFailure(w)
    <3>1. proc[w].site \in Sites
      BY <1>1, <2>1, ProcTypes DEF FenceFailure, ProcAt, Transitions
    <3> QED
      BY <2>1, <3>1 DEF FenceFailure
  <2>2. CASE Sweep(w)
    BY <2>2 DEF Sweep
  <2>3. CASE \E s \in Sites : StartSite(w, s)
    BY <2>3 DEF StartSite
  <2> QED
    BY <2>1, <2>2, <2>3
<1>5. /\ Steady /\ helper' \in {helper, NoHelper}
      /\ UNCHANGED <<present, guard, plan, stage, burned, journal, partial, tags, tree>>
  <2>1. CASE \E s \in Sites : Fenced(s)
    BY <1>1, <2>1, FencedSteady
  <2>2. CASE UNCHANGED <<siteVars, nativeVars>>
    BY <2>2, SteadyStill DEF siteVars, nativeVars
  <2>3. ASSUME NEW s \in Sites, ~Marked(s), up' = up \cup {s},
               UNCHANGED <<present, guard, plan, nativeVars>>
        PROVE  Steady
    BY <2>3 DEF Steady, Marked, Ready, nativeVars
  <2> QED
    BY <1>4, <2>1, <2>2, <2>3 DEF nativeVars
<1>6. ProcKept(w)'
  BY <1>1, <1>2, <1>3, <1>5, RestKept DEF Resting
<1>7. Working => helper.site \in present'
  BY <1>5 DEF JournalInv, HelperKept
<1> QED
  BY <1>2, <1>5, <1>6, <1>7, WorkerKept

\* A helper is only started for a site that is shut, and tags only what has a
\* journal of the same project.
LEMMA LaunchKept ==
    ASSUME ProjectsInv, JournalInv, NEW w \in Workers, Launch(w)
    PROVE  JournalInv'
<1> DEFINE s0 == proc[w].site
           h == [site |-> s0, tag |-> proc[w].tag, claim |-> Claims(proc[w]),
                 project |-> proc[w].project, pc |-> "lock", fresh |-> FALSE, tree |-> 0, by |-> w]
<1>1. /\ proc[w].pc = "launch" /\ proc[w].pc \notin Resting /\ proc[w].pc \in Owning
      /\ UNCHANGED <<siteVars, stage, burned, journal, partial, tags, tree, unfit, outside>>
  BY DEF Launch, ProcAt, Resting, Owning
<1>2. /\ LedgerTypeOK /\ s0 \in Sites /\ helper.by # w
      /\ Kept(proc[w]) /\ ledger # Missing /\ ledger[s0] = proc[w].project
  BY <1>1, AtKept, AtOwning DEF ProcKept
<1>3. Steady
  BY <1>1, SteadyStill DEF siteVars
<1>4. CASE Undo(w) /\ UNCHANGED helper
  <2>1. Same(w) /\ proc'[w].pc = "undo"
    BY <1>1, <1>4, AtKept, UndoSame
  <2>2. ProcKept(w)'
    BY <1>2, <1>4, <2>1, RestKept DEF Resting
  <2> QED
    BY <1>1, <1>4, <2>1, <2>2, QuietKept DEF Same, nativeVars
<1>5. CASE s0 \in present /\ helper' = h /\ Goto(w, "await")
  <2>1. Same(w) /\ proc'[w].pc = "await"
    BY <1>1, <1>5, AtKept, GotoSame DEF PCs, Owning
  <2>2. SitesKept'
    BY <1>1, <1>3, SteadySites DEF JournalInv, siteVars
  <2>3. Shut(s0)' /\ (proc[w].tag => Ready(s0)') /\ (Marked(s0)' \/ s0 \notin present')
    BY <1>1, <1>2, <1>3, <2>1 DEF Kept, Shutting, Shut, Steady, Same
  <2>4. proc[w].tag => journal[s0].project = proc[w].project
    <3> SUFFICES ASSUME proc[w].tag
                 PROVE  journal[s0].project = proc[w].project
      OBVIOUS
    <3>1. journal[s0] # NoJournal /\ journal[s0] \in Journals
      BY <1>2 DEF Kept, Ready, LedgerTypeOK, NativeTypeOK
    <3>2. journal[s0].project \in Projects /\ journal[s0].project # 0
      BY <3>1 DEF Journals, Projects
    <3>3. Bound(s0, journal[s0].project)
      BY <3>2 DEF Bound
    <3> QED
      BY <1>2, <3>2, <3>3 DEF ProjectsInv, LedgerRules
  <2>5. /\ helper'.site = s0 /\ helper'.tag = proc[w].tag /\ helper'.project = proc[w].project
        /\ helper'.pc = "lock" /\ helper'.by = w /\ helper' # NoHelper
    BY <1>5 DEF NoHelper
  <2>6. HelperKept'
    BY <1>1, <1>5, <2>1, <2>3, <2>4, <2>5 DEF HelperKept, Working, Same, siteVars
  <2>7. Kept(proc[w])'
    BY <1>2, <1>3, <2>1, <2>3 DEF Kept, Same, Steady, Confirmed, Readied, Marking
  <2>8. ProcKept(w)'
    BY <2>1, <2>5, <2>7 DEF ProcKept, Same
  <2>9. ASSUME NEW v \in Workers \ {w}
        PROVE  ProcKept(v)'
    BY <1>2, <1>3, <2>1, <2>5, <2>9, SteadyProc DEF JournalInv, Same
  <2> QED
    BY <2>2, <2>6, <2>8, <2>9 DEF JournalInv
<1> QED
  BY <1>4, <1>5 DEF Launch
\* An answer that is taken is the one to the transition's own request.
LEMMA CollectKept ==
    ASSUME ProjectsInv, JournalInv, NEW w \in Workers, Collect(w)
    PROVE  JournalInv'
<1>1. /\ proc[w].pc = "await" /\ proc[w].pc \notin Resting
      /\ UNCHANGED <<siteVars, stage, burned, journal, partial, tags, tree>>
  BY DEF Collect, ProcAt, Resting
<1>2. /\ LedgerTypeOK /\ proc[w].site \in Sites /\ Kept(proc[w]) /\ ProcKept(w)
      /\ NoHelper.by # w /\ "nobody" # w
  BY <1>1, AtKept, WorkersAssumption DEF NoHelper
<1>3. Steady
  BY <1>1, SteadyStill DEF siteVars
<1>4. \/ helper' = NoHelper
      \/ helper' = helper
      \/ helper # NoHelper /\ helper' = [helper EXCEPT !.by = "nobody"]
  BY <1>2 DEF Collect
<1>5. Working => helper.site \in present'
  BY <1>1 DEF JournalInv, HelperKept, siteVars
<1>6. helper'.by # w
  <2>1. helper.by = w => helper \in Helpers
    BY <1>2, HelperTypes DEF LedgerTypeOK
  <2>2. helper' = NoHelper \/ (helper' = helper /\ helper.by # w) \/
        (helper.by = w /\ helper' = [helper EXCEPT !.by = "nobody"])
    BY DEF Collect, Answer
  <2> QED
    BY <1>2, <2>1, <2>2 DEF Helpers
<1>7. CASE Undo(w)
  <2>1. Same(w) /\ proc'[w].pc = "undo"
    BY <1>1, <1>7, AtKept, UndoSame
  <2>2. ProcKept(w)'
    BY <1>2, <1>6, <2>1, RestKept DEF Resting
  <2> QED
    BY <1>1, <1>3, <1>4, <1>5, <2>1, <2>2, WorkerKept DEF Same, siteVars
<1>8. CASE helper.by = w /\ helper.pc = "verified" /\ Goto(w, "prepared")
  <2>1. Same(w) /\ proc'[w].pc = "prepared"
    BY <1>1, <1>8, AtKept, GotoSame DEF PCs, Owning
  <2>2. Ready(proc[w].site) /\ Shut(proc[w].site)
    BY <1>1, <1>2, <1>8 DEF JournalInv, HelperKept, ProcKept, Kept, Shutting, Ready
  <2>3. Kept(proc[w])'
    BY <1>2, <1>3, <2>1, <2>2 DEF Kept, Same, Steady, Shut, Marking
  <2>4. ProcKept(w)'
    BY <1>6, <2>3 DEF ProcKept
  <2> QED
    BY <1>1, <1>3, <1>4, <1>5, <2>1, <2>4, WorkerKept DEF Same, siteVars
<1> QED
  BY <1>7, <1>8 DEF Collect, Answer

\* The confirmed phase is that of a site with a journal.
LEMMA FinishKept ==
    ASSUME ProjectsInv, JournalInv, NEW w \in Workers, Finish(w)
    PROVE  JournalInv'
<1>1. /\ proc[w].pc = "finish" /\ proc[w].pc \notin Resting /\ proc[w].pc \in Owning
      /\ UNCHANGED <<present, up, guard, nativeVars>>
  BY DEF Finish, ProcAt, Resting, Owning
<1>2. PICK phase \in {"tagged", "prepared"} :
          plan' \in {plan, [plan EXCEPT ![proc[w].site] =
                                [phase |-> phase, project |-> proc[w].project]]}
  BY DEF Finish
<1>3. /\ Steady
      /\ \A s \in Sites : \/ plan'[s] = plan[s]
                          \/ s = proc[w].site /\ plan'[s].phase = phase
  BY <1>1, <1>2, PlanSteady
<1>4. LedgerTypeOK /\ Ready(proc[w].site) /\ helper.by # w
  BY <1>1, AtKept DEF Kept, ProcKept, Confirmed, Readied
<1>5. /\ \A v \in Workers \ {w} : proc'[v] = proc[v]
      /\ proc'[w].pc \in Resting
  <2>1. CASE Undo(w)
    BY <1>1, <2>1, AtKept, UndoSame DEF Same, Resting
  <2>2. CASE proc' = [proc EXCEPT ![w] = Idle]
    BY <1>4, <2>2 DEF LedgerTypeOK, Idle, Resting
  <2> QED
    BY <2>1, <2>2 DEF Finish
<1>6. ProcKept(w)'
  BY <1>1, <1>4, <1>5, RestKept DEF nativeVars
<1>7. Working => helper.site \in present'
  BY <1>1 DEF JournalInv, HelperKept
<1> QED
  BY <1>1, <1>3, <1>4, <1>5, <1>6, <1>7, WorkerKept DEF nativeVars

\* A site that is deleted is not one a helper works on.
LEMMA DeleteKept ==
    ASSUME ProjectsInv, JournalInv, NEW w \in Workers, NEW s \in Sites, DeleteSite(w, s)
    PROVE  JournalInv'
<1>1. /\ LedgerTypeOK /\ UNCHANGED <<proc, stage, burned, journal, partial, tree, helper>>
      /\ present' = present \ {s} /\ up' = up \ {s}
  BY DEF ProjectsInv, DeleteSite
<1>2. /\ \A q \in Sites \ {s} : guard'[q] = guard[q] /\ plan'[q] = plan[q] /\ tags'[q] = tags[q]
      /\ plan'[s] = NoPlan
  BY <1>1 DEF DeleteSite, LedgerTypeOK, NativeTypeOK
<1>3. Steady
  BY <1>1, <1>2 DEF Steady, Marked, Ready
<1>4. Working => helper.site # s /\ helper.site \in present /\ helper.site \in Sites
  BY <1>1, HelperTypes DEF DeleteSite, JournalInv, HelperKept, LedgerTypeOK, Working, Helpers
<1>5. ProcKept(w)'
  <2>1. proc'[w] = Idle /\ helper.by # w
    BY <1>1 DEF DeleteSite, JournalInv, ProcKept, Idle
  <2> QED
    BY <1>1, <2>1, RestKept DEF Idle, Resting
<1>6. NoPlan.phase = "none"
  BY DEF NoPlan
<1> QED
  BY <1>1, <1>2, <1>3, <1>4, <1>5, <1>6, WorkerKept

\* Data change only while the site is up, which one with a journal is not.
LEMMA WriteKept ==
    ASSUME ProjectsInv, JournalInv, NEW s \in Sites, WriteData(s)
    PROVE  JournalInv'
<1>1. /\ LedgerTypeOK /\ s \in up /\ s \in present
      /\ UNCHANGED <<proc, siteVars, stage, burned, journal, partial, tags, helper>>
      /\ \A q \in Sites \ {s} : tree'[q] = tree[q]
  BY DEF ProjectsInv, LedgerTypeOK, NativeTypeOK, WriteData
<1>2. Steady
  BY <1>1, SteadyStill DEF siteVars
<1>3. ~Shut(s) /\ journal[s] = NoJournal
  BY <1>1 DEF Shut, JournalInv, SitesKept
<1>4. SitesKept'
  BY <1>1, <1>2, <1>3 DEF JournalInv, SitesKept, Steady, Shut, siteVars
<1>5. HelperKept'
  <2>1. helper.pc \in {"burn", "write", "publish"} => helper.site \in Sites \ {s}
    BY <1>1, <1>3, HelperTypes DEF JournalInv, HelperKept, Working, LedgerTypeOK, Helpers
  <2>2. Working' = Working
    BY <1>1 DEF Working
  <2> QED
    BY <1>1, <2>1, <2>2 DEF JournalInv, HelperKept, Shut, Ready, Marked, siteVars
<1>6. \A v \in Workers : ProcKept(v)'
  BY <1>1, <1>2, SteadyProc DEF JournalInv
<1> QED
  BY <1>4, <1>5, <1>6 DEF JournalInv
\* A worker ends or begins again: a helper is abandoned or removed, and what it has
\* done stays.
LEMMA CrashKept ==
    ASSUME ProjectsInv, JournalInv, NEW w \in Workers, CrashWorker(w) \/ Boot(w)
    PROVE  JournalInv'
<1>1. /\ LedgerTypeOK /\ NoHelper.by # w /\ "nobody" # w
      /\ UNCHANGED <<siteVars, stage, burned, journal, partial, tags, tree>>
  BY WorkersAssumption DEF ProjectsInv, CrashWorker, Boot, NoHelper
<1>2. Steady
  BY <1>1, SteadyStill DEF siteVars
<1>3. /\ proc'[w].pc \in Resting
      /\ \A v \in Workers \ {w} : proc'[v] = proc[v]
  BY <1>1 DEF CrashWorker, Boot, Idle, Down, Resting, LedgerTypeOK
<1>4. Boot(w) => helper.by # w
  BY DEF Boot, Down, JournalInv, ProcKept
<1>5. /\ \/ helper' = NoHelper
         \/ helper' = helper
         \/ helper # NoHelper /\ helper' = [helper EXCEPT !.by = "nobody"]
      /\ helper'.by # w
  <2>1. helper.by = w => helper \in Helpers
    BY <1>1, HelperTypes DEF LedgerTypeOK
  <2> QED
    BY <1>1, <1>4, <2>1 DEF CrashWorker, Boot, Helpers
<1>6. ProcKept(w)'
  BY <1>1, <1>3, <1>5, RestKept
<1>7. Working => helper.site \in present'
  BY <1>1 DEF JournalInv, HelperKept, siteVars
<1> QED
  BY <1>1, <1>2, <1>3, <1>5, <1>6, <1>7, WorkerKept DEF siteVars

\* The helper is killed, .quota is lost, or others use the file system.
LEMMA LossKept ==
    ASSUME ProjectsInv, JournalInv, KillHelper \/ LoseDirectory \/ Interfere
    PROVE  JournalInv'
<1>1. /\ LedgerTypeOK /\ helper' \in {helper, NoHelper}
      /\ UNCHANGED <<proc, siteVars, stage, burned, journal, partial, tags, tree>>
  BY DEF ProjectsInv, KillHelper, LoseDirectory, Interfere, nativeVars
<1>2. Steady
  BY <1>1, SteadyStill DEF siteVars
<1>3. SitesKept'
  BY <1>1, <1>2, SteadySites DEF JournalInv, siteVars
<1>4. Working => helper.site \in present'
  BY <1>1 DEF JournalInv, HelperKept, siteVars
<1>5. HelperKept'
  BY <1>1, <1>2, <1>4, SteadyHelper DEF JournalInv
<1>6. ASSUME NEW v \in Workers
      PROVE  ProcKept(v)'
  <2>1. helper'.by = v => helper' = helper
    BY <1>1, WorkersAssumption DEF NoHelper
  <2> QED
    BY <1>1, <1>2, <2>1, SteadyProc DEF JournalInv
<1> QED
  BY <1>3, <1>5, <1>6 DEF JournalInv

\* The helper's own steps: a journal is published for the data it describes.
LEMMA HelperStepKept ==
    ASSUME ProjectsInv, JournalInv, HelperStep, UNCHANGED siteVars
    PROVE  HelperKept' /\ SitesKept' /\ Steady
<1>1. LedgerTypeOK /\ NativeTypeOK /\ HelperKept /\ SitesKept
  BY DEF ProjectsInv, LedgerTypeOK, JournalInv
<1>2. helper \in Helpers /\ helper # NoHelper /\ helper.site \in Sites /\ Working
  BY <1>1, HelperTypes
  DEF HelperStep, HelperAt, TakeLock, Initialize, CheckOwner, InspectPrepare, Burn, WriteJournal,
      Publish, InspectTag, TagNode, TagsDone, ConfirmTags, Helpers, Working
<1>3. helper.site \in present /\ Shut(helper.site)
  BY <1>1, <1>2 DEF HelperKept
<1>4. \A s \in Sites : Marked(s)' = Marked(s) /\ Shut(s)' = Shut(s)
  BY DEF siteVars, Marked, Shut
<1> DEFINE Keeps == /\ helper'.site = helper.site /\ helper'.tag = helper.tag
                    /\ helper'.project = helper.project /\ helper'.by = helper.by
<1>5. ASSUME UNCHANGED <<burned, journal, tree>>, stage = "owned" => stage' = "owned"
      PROVE  SitesKept' /\ Steady
  BY <1>1, <1>4, <1>5 DEF SitesKept, Steady, Ready, siteVars
<1> USE DEF HelperAt, Advance
<1>6. CASE TakeLock
  <2>1. /\ Keeps /\ helper'.pc \in {"open", "refused"} /\ helper' # NoHelper
        /\ stage = "owned" => stage' = "owned"
        /\ UNCHANGED <<burned, journal, partial, tags, tree>>
    BY <1>2, <1>6 DEF TakeLock, Helpers, NoHelper
  <2>2. SitesKept' /\ Steady
    BY <1>5, <2>1
  <2> QED
    BY <1>1, <1>2, <1>3, <1>4, <2>1, <2>2 DEF HelperKept, Ready, Working, siteVars
<1>7. CASE Initialize
  <2>1. /\ helper' = helper /\ helper.pc = "open" /\ stage # "owned"
        /\ UNCHANGED <<burned, journal, partial, tags, tree>>
    BY <1>7 DEF Initialize
  <2>2. SitesKept' /\ Steady
    BY <1>5, <2>1
  <2> QED
    BY <1>1, <1>2, <1>3, <1>4, <2>1, <2>2 DEF HelperKept, Ready, Working, siteVars
<1>8. CASE CheckOwner
  <2>1. /\ Keeps /\ helper'.pc = (IF stage = "owned" THEN "inspect" ELSE "refused")
        /\ helper' # NoHelper
        /\ UNCHANGED <<stage, burned, journal, partial, tags, tree>>
    BY <1>2, <1>8 DEF CheckOwner, Helpers, NoHelper
  <2>2. SitesKept' /\ Steady
    BY <1>5, <2>1
  <2> QED
    BY <1>1, <1>2, <1>3, <1>4, <2>1, <2>2 DEF HelperKept, Ready, Working, siteVars
<1>9. CASE InspectPrepare
  <2>1. /\ Keeps /\ helper' # NoHelper /\ ~helper.tag /\ helper.pc = "inspect"
        /\ helper'.pc \in {"refused", "verified", "burn"}
        /\ helper'.pc = "verified" => helper.site \in Journaled
        /\ helper'.tree = tree[helper.site]
        /\ UNCHANGED <<stage, burned, journal, partial, tags, tree>>
    BY <1>2, <1>9 DEF InspectPrepare, Helpers, NoHelper
  <2>2. SitesKept' /\ Steady
    BY <1>5, <2>1
  <2> QED
    BY <1>1, <1>2, <1>3, <1>4, <2>1, <2>2 DEF HelperKept, Ready, Working, Journaled, siteVars
<1>10. CASE Burn
  <2>1. /\ Keeps /\ helper' # NoHelper /\ helper.pc = "burn" /\ helper'.pc = "write"
        /\ helper'.tree = helper.tree
        /\ burned' = burned \cup {<<helper.site, helper.project>>}
        /\ UNCHANGED <<stage, journal, partial, tags, tree>>
    BY <1>2, <1>10 DEF Burn, Helpers, NoHelper
  <2>2. SitesKept' /\ Steady
    BY <1>1, <1>4, <2>1 DEF SitesKept, Steady, Ready, siteVars
  <2> QED
    BY <1>1, <1>2, <1>3, <1>4, <2>1, <2>2 DEF HelperKept, Ready, Working, siteVars
<1>11. CASE WriteJournal
  <2>1. /\ Keeps /\ helper' # NoHelper /\ helper.pc = "write" /\ helper'.pc = "publish"
        /\ helper'.tree = helper.tree
        /\ UNCHANGED <<stage, burned, journal, tags, tree>>
    BY <1>2, <1>11 DEF WriteJournal, Helpers, NoHelper
  <2>2. SitesKept' /\ Steady
    BY <1>5, <2>1
  <2> QED
    BY <1>1, <1>2, <1>3, <1>4, <2>1, <2>2 DEF HelperKept, Ready, Working, siteVars
<1>12. CASE Publish
  <2> DEFINE j == [project |-> helper.project, tree |-> helper.tree]
  <2>1. /\ Keeps /\ helper' # NoHelper /\ helper.pc = "publish" /\ helper'.pc = "verified"
        /\ UNCHANGED <<stage, burned, tags, tree>>
    BY <1>2, <1>12 DEF Publish, Helpers, NoHelper
  <2>2. j # NoJournal /\ j.project = helper.project /\ j.tree = helper.tree
    BY <1>2 DEF NoJournal, Helpers, Projects
  <2>3. journal'[helper.site] = j /\ \A s \in Sites \ {helper.site} : journal'[s] = journal[s]
    BY <1>1, <1>2, <1>12 DEF Publish, NativeTypeOK
  <2> HIDE DEF j
  <2>4. SitesKept' /\ Steady
    BY <1>1, <1>2, <1>3, <1>4, <2>1, <2>2, <2>3 DEF SitesKept, Steady, HelperKept, Ready, siteVars
  <2> QED
    BY <1>1, <1>2, <1>3, <1>4, <2>1, <2>2, <2>3, <2>4 DEF HelperKept, Ready, Working, siteVars
<1>13. CASE InspectTag
  <2>1. /\ Keeps /\ helper' # NoHelper /\ helper.tag /\ helper.pc = "inspect"
        /\ helper'.pc \in {"tag", "refused"}
        /\ UNCHANGED <<stage, burned, journal, partial, tags, tree>>
    BY <1>2, <1>13 DEF InspectTag, Helpers, NoHelper
  <2>2. SitesKept' /\ Steady
    BY <1>5, <2>1
  <2> QED
    BY <1>1, <1>2, <1>3, <1>4, <2>1, <2>2 DEF HelperKept, Ready, Working, siteVars
<1>14. CASE TagNode
  <2>1. /\ helper' = helper /\ helper.pc = "tag"
        /\ UNCHANGED <<stage, burned, journal, partial, tree>>
    BY <1>14 DEF TagNode
  <2>2. SitesKept' /\ Steady
    BY <1>5, <2>1
  <2> QED
    BY <1>1, <1>2, <1>3, <1>4, <2>1, <2>2 DEF HelperKept, Ready, Working, siteVars
<1>15. CASE TagsDone
  <2>1. /\ Keeps /\ helper' # NoHelper /\ helper.pc = "tag" /\ helper'.pc = "confirm"
        /\ tags[helper.site] = Nodes
        /\ UNCHANGED <<stage, burned, journal, partial, tags, tree>>
    BY <1>2, <1>15 DEF TagsDone, Helpers, NoHelper
  <2>2. SitesKept' /\ Steady
    BY <1>5, <2>1
  <2> QED
    BY <1>1, <1>2, <1>3, <1>4, <2>1, <2>2 DEF HelperKept, Ready, Working, siteVars
<1>16. CASE ConfirmTags
  <2>1. /\ Keeps /\ helper' # NoHelper /\ helper.pc = "confirm"
        /\ helper'.pc \in {"verified", "refused"}
        /\ UNCHANGED <<stage, burned, journal, partial, tags, tree>>
    BY <1>2, <1>16 DEF ConfirmTags, Helpers, NoHelper
  <2>2. SitesKept' /\ Steady
    BY <1>5, <2>1
  <2> QED
    BY <1>1, <1>2, <1>3, <1>4, <2>1, <2>2 DEF HelperKept, Ready, Working, siteVars
<1> QED
  BY <1>6, <1>7, <1>8, <1>9, <1>10, <1>11, <1>12, <1>13, <1>14, <1>15, <1>16 DEF HelperStep
\* The helper and the workers.
LEMMA NativeKept ==
    ASSUME ProjectsInv, JournalInv, Native
    PROVE  JournalInv'
<1>1. HelperKept' /\ SitesKept' /\ Steady /\ LedgerTypeOK /\ UNCHANGED proc
  BY HelperStepKept DEF Native, ProjectsInv
<1>2. helper'.by = helper.by /\ helper'.site = helper.site /\ helper'.tag = helper.tag
  <2>1. helper \in Helpers
    BY <1>1, HelperTypes
    DEF Native, HelperStep, HelperAt, TakeLock, Initialize, CheckOwner, InspectPrepare, Burn,
        WriteJournal, Publish, InspectTag, TagNode, TagsDone, ConfirmTags, LedgerTypeOK
  <2> QED
    BY <2>1
    DEF Native, HelperStep, Advance, TakeLock, Initialize, CheckOwner, InspectPrepare, Burn,
        WriteJournal, Publish, InspectTag, TagNode, TagsDone, ConfirmTags, Helpers
<1>3. \A v \in Workers : ProcKept(v)'
  BY <1>1, <1>2, SteadyProc DEF JournalInv
<1> QED
  BY <1>1, <1>3 DEF JournalInv

\* Every step.
LEMMA JournalStep ==
    ASSUME ProjectsInv, JournalInv, [LedgerNext]_ledgerVars
    PROVE  JournalInv'
<1>1. CASE UNCHANGED ledgerVars
  <2>1. Steady /\ LedgerTypeOK
    BY <1>1, SteadyStill DEF ledgerVars, siteVars, nativeVars, ProjectsInv
  <2>2. SitesKept'
    BY <1>1, <2>1, SteadySites DEF ledgerVars, siteVars, nativeVars, JournalInv
  <2>3. Working => helper.site \in present'
    BY <1>1 DEF JournalInv, HelperKept, ledgerVars, siteVars
  <2>4. HelperKept'
    BY <1>1, <2>1, <2>3, SteadyHelper DEF ledgerVars, nativeVars, JournalInv
  <2>5. \A v \in Workers : ProcKept(v)'
    BY <1>1, <2>1, SteadyProc DEF ledgerVars, nativeVars, JournalInv
  <2> QED
    BY <2>2, <2>4, <2>5 DEF JournalInv
<1>2. ASSUME NEW w \in Workers, Step(w)
      PROVE  JournalInv'
  BY <1>2, EarlyKept, MiddleKept, GuardKept, PendingKept, TaggingKept, FenceKept, IdleKept,
     LaunchKept, CollectKept, FinishKept DEF Step
<1> QED
  BY <1>1, <1>2, EnterKept, IdleKept, DeleteKept, WriteKept, CrashKept, LossKept, NativeKept
  DEF LedgerNext

\* The initial states.
LEMMA JournalInit ==
    ASSUME LedgerInit
    PROVE  JournalInv
<1>1. SitesKept
  BY DEF LedgerInit, NativeInit, SitesKept, NoPlan
<1>2. HelperKept
  BY DEF LedgerInit, NativeInit, HelperKept, Working, NoHelper
<1>3. \A w \in Workers : ProcKept(w)
  BY WorkersAssumption DEF LedgerInit, NativeInit, ProcKept, Idle, Resting, NoHelper
<1> QED
  BY <1>1, <1>2, <1>3 DEF JournalInv

\* The invariant of the journals, for any number of workers.
THEOREM JournalSafety == LedgerSpec => [](ProjectsInv /\ JournalInv)
<1>1. LedgerInit => ProjectsInv /\ JournalInv
  BY ProjectsInit, JournalInit
<1>2. ProjectsInv /\ JournalInv /\ [LedgerNext]_ledgerVars => (ProjectsInv /\ JournalInv)'
  BY ProjectsStep, JournalStep
<1> QED
  BY <1>1, <1>2, PTL DEF LedgerSpec

\* A journal has its entry in the index, the project of the ledger, and describes the
\* data as they are, with any number of workers (storage-authority.c, prepare).
THEOREM JournalCurrentHolds == LedgerSpec => []JournalCurrent
<1>1. ProjectsInv /\ JournalInv => JournalCurrent
  <2> SUFFICES ASSUME ProjectsInv, JournalInv, NEW s \in Journaled
               PROVE  /\ <<s, journal[s].project>> \in burned
                      /\ ledger # Missing => ledger[s] = journal[s].project
                      /\ s \in present => journal[s].tree = tree[s]
    BY DEF JournalCurrent
  <2>1. s \in Sites /\ journal[s] # NoJournal
    BY DEF Journaled
  <2>2. journal[s].project \in Projects /\ journal[s].project # 0
    BY <2>1 DEF ProjectsInv, LedgerTypeOK, NativeTypeOK, Journals, Projects
  <2>3. Bound(s, journal[s].project)
    BY <2>2 DEF Bound
  <2> QED
    BY <2>1, <2>2, <2>3 DEF JournalInv, SitesKept, ProjectsInv, LedgerRules
<1> QED
  BY <1>1, JournalSafety, PTL

\* A helper that is to tag a site finds its journal for the data as they are, and no
\* other site has its project: only others can stand in the way.
LEMMA TagPinned ==
    ASSUME ProjectsInv, JournalInv, Working, helper.tag
    PROVE  Pinned(helper) \/ <<"inode", helper.project>> \in outside \/ ~Unlimited(helper.project)
<1>1. LedgerTypeOK /\ NativeTypeOK /\ HelperKept /\ SitesKept
  BY DEF ProjectsInv, LedgerTypeOK, JournalInv
<1>2. helper \in Helpers /\ helper.site \in Sites
  BY <1>1 DEF NativeTypeOK, Working, Helpers
<1>3. /\ helper.site \in present /\ journal[helper.site] # NoJournal
      /\ journal[helper.site].project = helper.project
  BY <1>1 DEF HelperKept, Ready
<1>4. journal[helper.site] \in Journals /\ journal[helper.site].tree = tree[helper.site]
  BY <1>1, <1>2, <1>3 DEF SitesKept, NativeTypeOK
<1>5. journal[helper.site] = [project |-> helper.project, tree |-> tree[helper.site]]
  BY <1>3, <1>4 DEF Journals
<1>6. helper.project \in Projects /\ helper.project # 0
  BY <1>2 DEF Helpers, Projects
<1>7. Bound(helper.site, helper.project)
  BY <1>3, <1>6 DEF Bound
<1>8. \A s \in Sites : journal[s].project = helper.project => s = helper.site
  BY <1>2, <1>6, <1>7 DEF ProjectsInv, BoundApart, Bound
<1>9. helper.project \notin Foreign
  BY <1>2, <1>6, <1>7 DEF ProjectsInv, BoundApart
<1> QED
  BY <1>5, <1>8, <1>9 DEF Pinned, Used

\* A step of a tagging helper that refuses has a cause.
LEMMA RefusalCaused ==
    ASSUME ProjectsInv, JournalInv, HelperStep, helper.tag, helper'.pc = "refused"
    PROVE  Cause(helper)
<1>1. LedgerTypeOK /\ HelperKept
  BY DEF ProjectsInv, JournalInv
<1>2. helper \in Helpers /\ helper # NoHelper /\ Working
  BY <1>1, HelperTypes
  DEF LedgerTypeOK, HelperStep, HelperAt, TakeLock, Initialize, CheckOwner, InspectPrepare, Burn,
      WriteJournal, Publish, InspectTag, TagNode, TagsDone, ConfirmTags, Helpers, Working
<1>3. Pinned(helper) \/ <<"inode", helper.project>> \in outside \/ ~Unlimited(helper.project)
  BY <1>2, TagPinned
<1>4. helper.pc \notin {"burn", "write", "publish"} /\ stage = "owned"
  BY <1>1, <1>2 DEF HelperKept, Ready
<1> USE DEF HelperAt, Advance
<1>5. CASE TakeLock
  <2>1. Enforced => helper'.pc = "open"
    BY <1>2, <1>5 DEF TakeLock, Helpers
  <2> QED
    BY <2>1 DEF Cause
<1>6. CASE CheckOwner
  BY <1>2, <1>4, <1>6 DEF CheckOwner, Helpers
<1>7. CASE InspectTag
  <2>1. unfit[helper.site] = {} /\ JournalsSound /\ Pinned(helper) => helper'.pc = "tag"
    BY <1>2, <1>7 DEF InspectTag, Helpers
  <2> QED
    BY <1>3, <2>1 DEF Cause
<1>8. CASE ConfirmTags
  <2>1. tags[helper.site] = Nodes
    BY <1>1, <1>8 DEF ConfirmTags, HelperKept
  <2>2. Pinned(helper) => helper'.pc = "verified"
    BY <1>2, <1>8, <2>1 DEF ConfirmTags, Helpers
  <2> QED
    BY <1>3, <2>2 DEF Cause
<1>9. CASE Initialize \/ TagNode
  BY <1>9 DEF Initialize, TagNode
<1>10. CASE TagsDone
  BY <1>2, <1>10 DEF TagsDone, Helpers
<1> QED
  BY <1>4, <1>5, <1>6, <1>7, <1>8, <1>9, <1>10
  DEF HelperStep, InspectPrepare, Burn, WriteJournal, Publish

\* Nothing but a helper's own steps makes it refuse.
LEMMA OnlyHelperRefuses ==
    ASSUME LedgerTypeOK, LedgerNext, ~Native, helper # NoHelper, helper.pc # "refused"
    PROVE  helper'.pc # "refused"
<1>1. helper \in Helpers /\ NoHelper.pc # "refused"
  BY HelperTypes DEF LedgerTypeOK, NativeTypeOK, NoHelper
<1>2. \A w : [helper EXCEPT !.by = w].pc = helper.pc
  BY <1>1 DEF Helpers
<1>3. helper' \in {helper, NoHelper} => helper'.pc # "refused"
  BY <1>1
<1>4. ASSUME NEW s, Fenced(s)
      PROVE  helper' \in {helper, NoHelper}
  BY <1>4 DEF Fenced
<1>5. ASSUME NEW w \in Workers, Step(w)
      PROVE  helper'.pc # "refused"
  <2>1. CASE FenceSite(w) \/ FenceFailure(w)
    BY <1>3, <1>4, <2>1 DEF FenceSite, FenceFailure, nativeVars
  <2>2. CASE Launch(w)
    BY <1>3, <2>2 DEF Launch
  <2>3. CASE Collect(w)
    BY <1>2, <1>3, <2>3 DEF Collect
  <2>4. CASE UNCHANGED nativeVars
    BY <1>3, <2>4 DEF nativeVars
  <2> QED
    BY <1>5, <2>1, <2>2, <2>3, <2>4
    DEF Step, Reserve, LockQuotaLedger, LoadQuotaLedger, SaveSentinel, CreateLedger, Allocate,
        SaveReservation, Identify, SaveAuthority, SaveGuard, SavePending, SavePlan, VerifyStopped,
        MarkTagging, ConfirmAuthority, Finish
<1>6. ASSUME NEW w \in Workers,
             \/ \E s \in Sites : \/ \E tag \in BOOLEAN : Enter(w, s, tag)
                                \/ StartSite(w, s) \/ DeleteSite(w, s)
             \/ Sweep(w) \/ CrashWorker(w) \/ Boot(w)
      PROVE  helper'.pc # "refused"
  BY <1>2, <1>3, <1>4, <1>6
  DEF Enter, StartSite, DeleteSite, Sweep, CrashWorker, Boot, nativeVars
<1>7. CASE KillHelper \/ LoseDirectory \/ Interfere \/ \E s \in Sites : WriteData(s)
  BY <1>3, <1>7 DEF KillHelper, LoseDirectory, Interfere, WriteData, nativeVars
<1> QED
  BY <1>5, <1>6, <1>7 DEF LedgerNext

\* A helper that is to tag a site refuses only for a cause it finds at that moment: a
\* journal cut short, data that are never tagged, a use or a limit of the project by
\* others, a changed file system.  Neither its own earlier work nor anything the
\* workers or the other helpers do stands in its way, with any number of workers and
\* whatever others may do (storage-tagging.h, tag_data).
THEOREM RefusedForCauseHolds == LedgerSpec => RefusedForCause
<1> DEFINE Caused == helper # NoHelper /\ helper.tag /\ helper.pc # "refused"
                       /\ helper'.pc = "refused" => Cause(helper)
<1>1. ProjectsInv /\ JournalInv /\ [LedgerNext]_ledgerVars => [Caused]_ledgerVars
  <2> SUFFICES ASSUME ProjectsInv, JournalInv, LedgerNext, helper # NoHelper, helper.tag,
                      helper.pc # "refused", helper'.pc = "refused"
               PROVE  Cause(helper)
    OBVIOUS
  <2>1. LedgerTypeOK
    BY DEF ProjectsInv
  <2>2. Native
    BY <2>1, OnlyHelperRefuses
  <2> QED
    BY <2>2, RefusalCaused DEF Native
<1>2. RefusedForCause <=> [][Caused]_ledgerVars
  BY DEF RefusedForCause
<1> HIDE DEF Caused
<1> QED
  BY <1>1, <1>2, JournalSafety, PTL DEF LedgerSpec
-----------------------------------------------------------------------------
(* Tags, for one worker *)

\* There is one worker: the service of compose.yaml.
OneWorker == \A v, w \in Workers : v = w

\* A site that newly runs carries no tag.
StartsUntagged == \A s \in Sites : s \in up' => s \in up \/ tags[s] = {}

\* What the files say of the tags stays true while neither they nor the tags change.
LEMMA TagsQuiet ==
    ASSUME LedgerTypeOK, TagInv, UNCHANGED <<tags, plan, guard, journal>>, StartsUntagged,
           \/ helper' = NoHelper
           \/ helper' = helper
           \/ helper # NoHelper /\ helper' = [helper EXCEPT !.by = "nobody"]
    PROVE  TagsPlanned' /\ HelperPlanned'
<1>1. TagsPlanned'
  BY DEF TagInv, TagsPlanned, StartsUntagged
<1>2. CASE helper' = NoHelper
  BY <1>1, <1>2 DEF HelperPlanned, Working, NoHelper
<1>3. CASE helper' # NoHelper
  <2>1. /\ helper \in Helpers /\ helper # NoHelper
        /\ helper'.site = helper.site /\ helper'.tag = helper.tag /\ helper'.pc = helper.pc
        /\ helper'.project = helper.project /\ helper'.by \in {helper.by, "nobody"}
    BY <1>3, HelperTypes DEF LedgerTypeOK, Helpers
  <2>2. Working' = Working
    BY <1>3, <2>1 DEF Working
  <2> QED
    BY <1>1, <2>1, <2>2, WorkersAssumption DEF TagInv, HelperPlanned
<1> QED
  BY <1>2, <1>3

\* What the only worker's transition at work is known to be.
LEMMA AtPlanned ==
    ASSUME ProjectsInv, TagInv, NEW w \in Workers, proc[w].pc \notin Resting
    PROVE  /\ LedgerTypeOK /\ proc[w] \in Transitions /\ proc[w].site \in Sites
           /\ proc[w].pc \notin {"idle", "down"} /\ proc[w].tag \in BOOLEAN
           /\ Planned(proc[w]) /\ TagsPlanned /\ HelperPlanned
BY AtStep DEF TagInv, Transitions

\* With one worker its transition is the only one.
LEMMA OnlyWorker ==
    ASSUME OneWorker, NEW w \in Workers, TagsPlanned', HelperPlanned',
           proc'[w].pc \in Resting \/ Planned(proc[w])'
    PROVE  TagInv'
BY DEF OneWorker, TagInv

\* A step of the transition that leaves the sites and the authority alone.
LEMMA QuietPlanned ==
    ASSUME OneWorker, ProjectsInv, TagInv, NEW w \in Workers, UNCHANGED <<siteVars, nativeVars>>,
           proc'[w].pc \in Resting \/ Planned(proc[w])'
    PROVE  TagInv'
<1>1. StartsUntagged /\ LedgerTypeOK
  BY DEF StartsUntagged, siteVars, ProjectsInv
<1>2. TagsPlanned' /\ HelperPlanned'
  BY <1>1, TagsQuiet DEF siteVars, nativeVars
<1> QED
  BY <1>2, OnlyWorker

\* The deferred calls, after a step that left the sites and the authority alone.
LEMMA UndoPlanned ==
    ASSUME ProjectsInv, NEW w \in Workers, proc[w].pc \notin Resting, Undo(w)
    PROVE  proc'[w].pc \in Resting
BY AtStep, UndoSame DEF Resting

\* The steps before anything is marked, and those that only look.
LEMMA EarlyPlanned ==
    ASSUME OneWorker, ProjectsInv, TagInv, NEW w \in Workers,
           \/ Reserve(w) \/ LockQuotaLedger(w) \/ LoadQuotaLedger(w) \/ SaveSentinel(w)
           \/ CreateLedger(w) \/ Allocate(w) \/ SaveReservation(w) \/ SaveAuthority(w)
    PROVE  TagInv'
<1>1. proc[w].pc \notin Resting
  BY DEF Reserve, LockQuotaLedger, LoadQuotaLedger, SaveSentinel, CreateLedger, Allocate,
         SaveReservation, SaveAuthority, ProcAt, Resting
<1>2. /\ Same(w) /\ UNCHANGED <<siteVars, nativeVars>>
      /\ proc'[w].pc \notin Marking /\ proc'[w].pc \notin Shutting
      /\ proc[w].pc \notin Owning \/ proc[w].pc = "authority"
      /\ proc'[w].pc \in {"authority", "guard"} => proc[w].pc = "authority"
  BY <1>1, EarlyShape DEF ProjectsInv
<1>3. Planned(proc[w])'
  BY <1>1, <1>2, AtPlanned DEF Planned, Same, Marking, Shutting, Confirmed, siteVars, nativeVars
<1> QED
  BY <1>2, <1>3, QuietPlanned

\* A transition with a plan goes on to the fence, one without to its record; a
\* verified site is marked for a tagging only.
LEMMA MiddlePlanned ==
    ASSUME OneWorker, ProjectsInv, TagInv, NEW w \in Workers,
           Identify(w) \/ VerifyStopped(w) \/ ConfirmAuthority(w)
    PROVE  TagInv'
<1>1. proc[w].pc \notin Resting /\ UNCHANGED <<siteVars, nativeVars>>
  BY DEF Identify, VerifyStopped, ConfirmAuthority, ProcAt, Resting
<1>2. CASE Undo(w)
  BY <1>1, <1>2, UndoPlanned, QuietPlanned
<1>3. CASE Identify(w) /\ ~Undo(w)
  <2>1. PICK pc \in {"authority", "guard", "fence"} :
            /\ pc \in {"authority", "guard"} => proc[w].seen = NoPlan
            /\ proc' = [proc EXCEPT ![w].pc = pc, ![w].project =
                            IF proc[w].seen = NoPlan THEN @ ELSE ledger[proc[w].site]]
    BY <1>3 DEF Identify
  <2>2. Same(w) /\ proc'[w].pc = pc /\ proc[w].pc = "identify"
    BY <1>1, <1>3, <2>1, AtPlanned DEF Same, LedgerTypeOK, Transitions, Identify, ProcAt
  <2>3. Planned(proc[w])'
    BY <1>1, <2>1, <2>2, AtPlanned
    DEF Planned, Same, Owning, Marking, Shutting, Confirmed, siteVars, nativeVars
  <2> QED
    BY <1>1, <2>3, QuietPlanned
<1>4. CASE VerifyStopped(w) /\ ~Undo(w)
  <2>1. PICK pc \in {"mark", "launch"} :
            Goto(w, pc) /\ proc[w].pc = "verify" /\ (pc = "mark" <=> proc[w].tag)
    BY <1>4 DEF VerifyStopped, ProcAt
  <2>2. Same(w) /\ proc'[w].pc = pc
    BY <1>1, <2>1, AtPlanned, GotoSame DEF PCs, Owning
  <2>3. Planned(proc[w])'
    BY <1>1, <2>1, <2>2, AtPlanned
    DEF Planned, Same, Owning, Marking, Shutting, Confirmed, siteVars, nativeVars
  <2> QED
    BY <1>1, <2>3, QuietPlanned
<1>5. CASE ConfirmAuthority(w) /\ ~Undo(w)
  <2>1. Goto(w, "finish") /\ proc[w].pc = "prepared"
    BY <1>5 DEF ConfirmAuthority, Saved, ProcAt
  <2>2. Same(w) /\ proc'[w].pc = "finish" /\ proc'[w].project = proc[w].project
    BY <1>1, <2>1, AtPlanned, GotoSame DEF PCs, Owning
  <2>3. Planned(proc[w])'
    BY <1>1, <2>1, <2>2, AtPlanned
    DEF Planned, Same, Owning, Marking, Shutting, Confirmed, siteVars, nativeVars
  <2> QED
    BY <1>1, <2>3, QuietPlanned
<1> QED
  BY <1>2, <1>3, <1>4, <1>5

\* A transition that begins has read the plan that is on disk.
LEMMA EnterPlanned ==
    ASSUME OneWorker, ProjectsInv, TagInv, NEW w \in Workers, NEW s \in Sites, NEW tag \in BOOLEAN,
           Enter(w, s, tag)
    PROVE  TagInv'
<1>1. LedgerTypeOK /\ UNCHANGED <<siteVars, nativeVars>> /\ s \in present
  BY DEF ProjectsInv, Enter
<1>2. PICK pc \in {"undo", "reserve", "lock"} :
          /\ pc # "undo" => Begins(plan[s], tag)
          /\ proc' = [proc EXCEPT ![w] =
                 [site |-> s, tag |-> tag, pc |-> pc, seen |-> plan[s],
                  project |-> 0, fresh |-> FALSE, again |-> plan[s] # NoPlan]]
  BY DEF Enter
<1>3. proc'[w].site = s /\ proc'[w].tag = tag /\ proc'[w].pc = pc /\ proc'[w].seen = plan[s]
  BY <1>1, <1>2 DEF LedgerTypeOK
<1>4. proc'[w].pc \in Resting \/ Planned(proc[w])'
  BY <1>1, <1>2, <1>3 DEF Planned, Begins, Resting, Owning, Shutting, Confirmed, siteVars
<1> QED
  BY <1>1, <1>4, QuietPlanned

\* A site that has no plan has no tags and no helper that tags, so that its record
\* and its plan may be made.
LEMMA GuardPlanned ==
    ASSUME OneWorker, ProjectsInv, TagInv, NEW w \in Workers, SaveGuard(w)
    PROVE  TagInv'
<1> DEFINE s0 == proc[w].site
<1>1. proc[w].pc = "guard" /\ proc[w].pc \notin Resting /\ UNCHANGED <<present, up, plan, nativeVars>>
  BY DEF SaveGuard, ProcAt, Resting
<1>2. /\ LedgerTypeOK /\ s0 \in Sites /\ plan[s0] = NoPlan /\ TagsPlanned /\ HelperPlanned
      /\ Planned(proc[w])
  BY <1>1, AtPlanned DEF Planned, Owning
<1>3. plan[s0].phase = "none"
  BY <1>2 DEF NoPlan
<1>4. \A s \in Sites \ {s0} : guard'[s] = guard[s]
  BY <1>2 DEF SaveGuard, Saved, LedgerTypeOK
<1>5. TagsPlanned'
  BY <1>1, <1>2, <1>3, <1>4 DEF TagsPlanned, nativeVars
<1>6. HelperPlanned'
  <2>1. Working /\ helper.tag => helper.site \in Sites \ {s0}
    BY <1>2, <1>3, HelperTypes DEF HelperPlanned, LedgerTypeOK, Working, Helpers
  <2> QED
    BY <1>1, <1>2, <1>4, <2>1 DEF HelperPlanned, nativeVars, Working
<1>7. proc'[w].pc \in Resting \/ Planned(proc[w])'
  <2>1. CASE Undo(w)
    BY <1>1, <2>1, UndoPlanned
  <2>2. CASE Goto(w, "plan")
    <3>1. Same(w) /\ proc'[w].pc = "plan"
      BY <1>1, <2>2, AtPlanned, GotoSame DEF PCs, Owning
    <3> QED
      BY <1>1, <1>2, <1>3, <3>1 DEF Planned, Same, Owning, Shutting, Confirmed, nativeVars
  <2> QED
    BY <2>1, <2>2 DEF SaveGuard, Saved
<1> QED
  BY <1>5, <1>6, <1>7, OnlyWorker

\* The first phase of a plan.
LEMMA PendingPlanned ==
    ASSUME OneWorker, ProjectsInv, TagInv, NEW w \in Workers, SavePending(w)
    PROVE  TagInv'
<1> DEFINE s0 == proc[w].site
           p0 == proc[w].project
           q0 == [phase |-> "pending", project |-> p0]
<1>1. proc[w].pc = "plan" /\ proc[w].pc \notin Resting /\ UNCHANGED <<present, up, guard, nativeVars>>
  BY DEF SavePending, SavePlan, ProcAt, Resting
<1>2. /\ LedgerTypeOK /\ s0 \in Sites /\ plan[s0] = NoPlan /\ TagsPlanned /\ HelperPlanned
      /\ Planned(proc[w])
  BY <1>1, AtPlanned DEF Planned, Owning
<1>3. plan[s0].phase = "none" /\ q0.phase = "pending" /\ plan \in [Sites -> Plans]
  BY <1>2 DEF NoPlan, LedgerTypeOK
<1>4. plan' = plan \/ plan' = [plan EXCEPT ![s0] = q0]
  BY DEF SavePending, SavePlan, Saved
<1> HIDE DEF q0
<1>5. /\ \A s \in Sites \ {s0} : plan'[s] = plan[s]
      /\ plan'[s0].phase \in {"none", "pending"}
  BY <1>2, <1>3, <1>4
<1>6. TagsPlanned'
  BY <1>1, <1>2, <1>3, <1>5 DEF TagsPlanned, nativeVars
<1>7. HelperPlanned'
  <2>1. Working /\ helper.tag => helper.site \in Sites \ {s0}
    BY <1>2, <1>3, HelperTypes DEF HelperPlanned, LedgerTypeOK, Working, Helpers
  <2> QED
    BY <1>1, <1>2, <1>5, <2>1 DEF HelperPlanned, nativeVars, Working
<1>8. proc'[w].pc \in Resting \/ Planned(proc[w])'
  <2>1. CASE Undo(w)
    BY <1>1, <2>1, UndoPlanned
  <2>2. CASE Goto(w, "fence")
    <3>1. Same(w) /\ proc'[w].pc = "fence"
      BY <1>1, <2>2, AtPlanned, GotoSame DEF PCs, Owning
    <3> QED
      BY <1>1, <1>2, <1>3, <1>5, <3>1 DEF Planned, Same, Owning, Shutting, Confirmed, nativeVars
  <2> QED
    BY <2>1, <2>2 DEF SavePending, SavePlan, Saved
<1> QED
  BY <1>6, <1>7, <1>8, OnlyWorker

\* The phase is "tagging" before a helper is started that tags.
LEMMA TaggingPlanned ==
    ASSUME OneWorker, ProjectsInv, TagInv, NEW w \in Workers, MarkTagging(w)
    PROVE  TagInv'
<1> DEFINE s0 == proc[w].site
           p0 == proc[w].project
           q0 == [phase |-> "tagging", project |-> p0]
<1>1. proc[w].pc = "mark" /\ proc[w].pc \notin Resting /\ UNCHANGED <<present, up, guard, nativeVars>>
  BY DEF MarkTagging, SavePlan, ProcAt, Resting, siteVars
<1>2. /\ LedgerTypeOK /\ s0 \in Sites /\ TagsPlanned /\ HelperPlanned
      /\ Planned(proc[w]) /\ proc[w].tag
  BY <1>1, AtPlanned DEF Planned
<1>3. q0.phase = "tagging" /\ plan \in [Sites -> Plans]
  BY <1>2 DEF LedgerTypeOK
<1>4. plan' = plan \/ plan' = [plan EXCEPT ![s0] = q0]
  BY DEF MarkTagging, SavePlan, Saved, siteVars
<1>5. CASE Undo(w)
  <2> HIDE DEF q0
  <2>1. /\ \A s \in Sites \ {s0} : plan'[s] = plan[s]
        /\ plan'[s0] = plan[s0] \/ plan'[s0].phase = "tagging"
    BY <1>2, <1>3, <1>4
  <2>2. TagsPlanned'
    BY <1>1, <1>2, <2>1 DEF TagsPlanned, nativeVars
  <2>3. HelperPlanned'
    <3>1. Working => helper.site \in Sites
      BY <1>2, HelperTypes DEF LedgerTypeOK, Working, Helpers
    <3> QED
      BY <1>1, <1>2, <2>1, <3>1 DEF HelperPlanned, nativeVars, Working
  <2> QED
    BY <1>1, <1>5, <2>2, <2>3, UndoPlanned, OnlyWorker
<1>6. CASE ~Undo(w)
  <2>1. Goto(w, "launch") /\ guard[s0] = p0 /\ plan' = [plan EXCEPT ![s0] = q0]
    BY <1>6 DEF MarkTagging, SavePlan, Saved
  <2> HIDE DEF q0
  <2>2. plan'[s0].phase = "tagging" /\ \A s \in Sites \ {s0} : plan'[s] = plan[s]
    BY <1>2, <1>3, <2>1
  <2>3. TagsPlanned'
    BY <1>1, <1>2, <2>2 DEF TagsPlanned, nativeVars
  <2>4. HelperPlanned'
    <3>1. Working => helper.site \in Sites
      BY <1>2, HelperTypes DEF LedgerTypeOK, Working, Helpers
    <3> QED
      BY <1>1, <1>2, <2>2, <3>1 DEF HelperPlanned, nativeVars, Working
  <2>5. Same(w) /\ proc'[w].pc = "launch" /\ proc'[w].project = p0
    BY <1>1, <2>1, AtPlanned, GotoSame DEF PCs, Owning
  <2>6. Planned(proc[w])'
    BY <1>1, <1>2, <2>1, <2>2, <2>5 DEF Planned, Same, Owning, Confirmed, nativeVars
  <2> QED
    BY <2>3, <2>4, <2>6, OnlyWorker
<1> QED
  BY <1>5, <1>6

\* A fence starts nothing and removes at most the helper.
LEMMA FencedQuiet ==
    ASSUME LedgerTypeOK, TagInv, NEW s \in Sites, Fenced(s)
    PROVE  TagsPlanned' /\ HelperPlanned'
<1>1. /\ UNCHANGED <<tags, plan, guard, journal>> /\ StartsUntagged
      /\ helper' = NoHelper \/ helper' = helper
  BY DEF Fenced, StartsUntagged
<1> QED
  BY <1>1, TagsQuiet

\* The site of the transition is fenced.
LEMMA FencePlanned ==
    ASSUME OneWorker, ProjectsInv, TagInv, NEW w \in Workers, FenceSite(w)
    PROVE  TagInv'
<1>1. proc[w].pc = "fence" /\ proc[w].pc \notin Resting
  BY DEF FenceSite, ProcAt, Resting
<1>2. CASE Undo(w) /\ UNCHANGED <<siteVars, nativeVars>>
  BY <1>1, <1>2, UndoPlanned, QuietPlanned
<1>3. CASE Fenced(proc[w].site) /\ Goto(w, "verify")
  <2>1. Same(w) /\ proc'[w].pc = "verify"
    BY <1>1, <1>3, AtPlanned, GotoSame DEF PCs, Owning
  <2>2. TagsPlanned' /\ HelperPlanned'
    BY <1>1, <1>3, AtPlanned, FencedQuiet
  <2>3. Planned(proc[w])'
    BY <1>1, <1>3, <2>1, AtPlanned DEF Fenced, Planned, Same, Owning, Shutting, Confirmed
  <2> QED
    BY <2>2, <2>3, OnlyWorker
<1> QED
  BY <1>2, <1>3 DEF FenceSite

\* A worker without a transition at work: the deferred fence, a start, the supervisor.
LEMMA RestPlanned ==
    ASSUME OneWorker, ProjectsInv, TagInv, NEW w \in Workers,
           FenceFailure(w) \/ Sweep(w) \/ \E s \in Sites : StartSite(w, s)
    PROVE  TagInv'
<1>1. LedgerTypeOK
  BY DEF ProjectsInv
<1>2. proc'[w].pc \in Resting
  BY <1>1 DEF FenceFailure, Sweep, StartSite, Idle, Resting, LedgerTypeOK
<1>3. FenceFailure(w) => proc[w].site \in Sites
  BY <1>1, ProcTypes DEF FenceFailure, ProcAt, Transitions
<1>4. CASE UNCHANGED <<siteVars, nativeVars>>
  BY <1>2, <1>4, QuietPlanned
<1>5. CASE \E s \in Sites : Fenced(s)
  BY <1>1, <1>2, <1>5, FencedQuiet, OnlyWorker
<1>6. CASE \E s \in Sites : ~Marked(s) /\ up' = up \cup {s} /\ UNCHANGED <<present, guard, plan, nativeVars>>
  <2>1. PICK s \in Sites : ~Marked(s) /\ up' = up \cup {s} /\ UNCHANGED <<present, guard, plan, nativeVars>>
    BY <1>6
  <2>2. tags[s] = {}
    BY <2>1 DEF Marked, NoPlan, TagInv, TagsPlanned
  <2>3. TagsPlanned' /\ HelperPlanned'
    BY <1>1, <2>1, <2>2, TagsQuiet DEF StartsUntagged, nativeVars
  <2> QED
    BY <1>2, <2>3, OnlyWorker
<1> QED
  BY <1>3, <1>4, <1>5, <1>6 DEF FenceFailure, Sweep, StartSite

\* A helper that tags is started under the plan and the record it needs.
LEMMA LaunchPlanned ==
    ASSUME OneWorker, ProjectsInv, TagInv, NEW w \in Workers, Launch(w)
    PROVE  TagInv'
<1> DEFINE h == [site |-> proc[w].site, tag |-> proc[w].tag, claim |-> Claims(proc[w]),
                 project |-> proc[w].project, pc |-> "lock", fresh |-> FALSE, tree |-> 0, by |-> w]
<1>1. /\ proc[w].pc = "launch" /\ proc[w].pc \notin Resting
      /\ UNCHANGED <<siteVars, stage, burned, journal, partial, tags, tree, unfit, outside>>
  BY DEF Launch, ProcAt, Resting
<1>2. CASE Undo(w) /\ UNCHANGED helper
  BY <1>1, <1>2, UndoPlanned, QuietPlanned DEF nativeVars
<1>3. CASE helper' = h /\ Goto(w, "await")
  <2>1. Same(w) /\ proc'[w].pc = "await" /\ proc'[w].project = proc[w].project
    BY <1>1, <1>3, AtPlanned, GotoSame DEF PCs, Owning
  <2>2. h.site = proc[w].site /\ h.tag = proc[w].tag /\ h.project = proc[w].project /\ h.pc = "lock"
    OBVIOUS
  <2> HIDE DEF h
  <2>3. TagsPlanned'
    BY <1>1 DEF TagInv, TagsPlanned, siteVars
  <2>4. Planned(proc[w])
    BY <1>1, AtPlanned
  <2>5. HelperPlanned'
    BY <1>1, <1>3, <2>2, <2>4 DEF HelperPlanned, Planned, Shutting, Confirmed, siteVars
  <2>6. Planned(proc[w])'
    BY <1>1, <2>1, <2>4 DEF Planned, Same, Owning, Shutting, Confirmed, siteVars
  <2> QED
    BY <2>3, <2>5, <2>6, OnlyWorker
<1> QED
  BY <1>2, <1>3 DEF Launch

\* An answer to a tagging is that of the helper that has tagged every inode.
LEMMA CollectPlanned ==
    ASSUME OneWorker, ProjectsInv, JournalInv, TagInv, NEW w \in Workers, Collect(w)
    PROVE  TagInv'
<1>1. /\ proc[w].pc = "await" /\ proc[w].pc \notin Resting
      /\ UNCHANGED <<siteVars, stage, burned, journal, partial, tags, tree>>
  BY DEF Collect, ProcAt, Resting
<1>2. /\ LedgerTypeOK /\ w # "nobody" /\ Planned(proc[w]) /\ HelperPlanned
      /\ helper.by = w => helper # NoHelper /\ helper.site = proc[w].site /\ helper.tag = proc[w].tag
  BY <1>1, AtPlanned, WorkersAssumption DEF NoHelper, JournalInv, ProcKept
<1>3. \/ helper' = NoHelper
      \/ helper' = helper
      \/ helper # NoHelper /\ helper' = [helper EXCEPT !.by = "nobody"]
  BY <1>2 DEF Collect
<1>4. TagsPlanned' /\ HelperPlanned'
  <2>1. StartsUntagged
    BY <1>1 DEF StartsUntagged, siteVars
  <2> QED
    BY <1>1, <1>2, <1>3, <2>1, TagsQuiet DEF siteVars
<1>5. CASE Undo(w)
  BY <1>1, <1>4, <1>5, UndoPlanned, OnlyWorker
<1>6. CASE Answer(w) /\ helper.pc = "verified" /\ Goto(w, "prepared")
  <2>1. Same(w) /\ proc'[w].pc = "prepared" /\ proc'[w].project = proc[w].project
    BY <1>1, <1>6, AtPlanned, GotoSame DEF PCs, Owning
  <2>2. proc[w].tag => tags[proc[w].site] = Nodes
    BY <1>2, <1>6 DEF Answer, HelperPlanned
  <2>3. Planned(proc[w])'
    BY <1>1, <1>2, <2>1, <2>2 DEF Planned, Same, Owning, Shutting, Confirmed, siteVars
  <2> QED
    BY <1>4, <2>3, OnlyWorker
<1> QED
  BY <1>5, <1>6 DEF Collect

\* "tagged" is saved for data that are tagged, "prepared" for data that are not.
LEMMA FinishPlanned ==
    ASSUME OneWorker, ProjectsInv, TagInv, NEW w \in Workers, Finish(w)
    PROVE  TagInv'
<1> DEFINE s0 == proc[w].site
           f0 == IF proc[w].tag THEN "tagged" ELSE "prepared"
           q0 == [phase |-> f0, project |-> proc[w].project]
<1>1. proc[w].pc = "finish" /\ proc[w].pc \notin Resting /\ UNCHANGED <<present, up, guard, nativeVars>>
  BY DEF Finish, ProcAt, Resting
<1>2. /\ LedgerTypeOK /\ s0 \in Sites /\ plan \in [Sites -> Plans] /\ proc[w].tag \in BOOLEAN
      /\ Planned(proc[w]) /\ TagsPlanned /\ HelperPlanned
  BY <1>1, AtPlanned DEF LedgerTypeOK
<1>3. plan' = plan \/ plan' = [plan EXCEPT ![s0] = q0]
  BY DEF Finish
<1>4. q0.phase = f0
  OBVIOUS
<1>5. proc'[w].pc \in Resting
  <2>1. CASE Undo(w)
    BY <1>1, <2>1, UndoPlanned
  <2>2. CASE proc' = [proc EXCEPT ![w] = Idle]
    BY <1>2, <2>2 DEF Idle, Resting, LedgerTypeOK
  <2> QED
    BY <2>1, <2>2 DEF Finish
<1> HIDE DEF q0
<1>6. /\ \A s \in Sites \ {s0} : plan'[s] = plan[s]
      /\ plan'[s0] = plan[s0] \/ plan'[s0].phase = f0
  BY <1>2, <1>3, <1>4
<1>7. /\ proc[w].tag => plan[s0].phase = "tagging" /\ tags[s0] = Nodes /\ f0 = "tagged"
      /\ ~proc[w].tag => plan[s0].phase \notin {"tagging", "tagged"} /\ f0 = "prepared"
  BY <1>1, <1>2 DEF Planned, Shutting, Confirmed
<1> HIDE DEF f0
<1>8. TagsPlanned'
  <2>1. ASSUME NEW s \in Sites \ {s0}
        PROVE  /\ tags'[s] # {} => /\ plan'[s].phase \in {"tagging", "tagged"}
                                   /\ guard'[s] = journal'[s].project /\ s \notin up'
               /\ plan'[s].phase = "tagged" => tags'[s] = Nodes
    BY <1>1, <1>2, <1>6, <2>1 DEF TagsPlanned, nativeVars
  <2>2. /\ tags'[s0] # {} => /\ plan'[s0].phase \in {"tagging", "tagged"}
                             /\ guard'[s0] = journal'[s0].project /\ s0 \notin up'
        /\ plan'[s0].phase = "tagged" => tags'[s0] = Nodes
    BY <1>1, <1>2, <1>6, <1>7 DEF TagsPlanned, nativeVars
  <2> QED
    BY <2>1, <2>2 DEF TagsPlanned
<1>9. HelperPlanned'
  <2>1. Working => helper.site \in Sites
    BY <1>2, HelperTypes DEF LedgerTypeOK, Working, Helpers
  <2> QED
    BY <1>1, <1>2, <1>6, <1>7, <2>1 DEF HelperPlanned, nativeVars, Working
<1> QED
  BY <1>5, <1>8, <1>9, OnlyWorker

\* Deletion takes the plan, the record and the tags together.
LEMMA DeletePlanned ==
    ASSUME OneWorker, ProjectsInv, JournalInv, TagInv, NEW w \in Workers, NEW s \in Sites,
           DeleteSite(w, s)
    PROVE  TagInv'
<1>1. /\ LedgerTypeOK /\ TagsPlanned /\ HelperPlanned /\ proc[w].pc = "idle"
      /\ UNCHANGED <<proc, journal, helper>> /\ ~(Working /\ helper.site = s) /\ up' = up \ {s}
  BY DEF ProjectsInv, TagInv, DeleteSite, Idle
<1>2. /\ \A q \in Sites \ {s} : plan'[q] = plan[q] /\ guard'[q] = guard[q] /\ tags'[q] = tags[q]
      /\ plan'[s] = NoPlan /\ tags'[s] = {}
  BY <1>1 DEF DeleteSite, LedgerTypeOK, NativeTypeOK
<1>3. TagsPlanned'
  BY <1>1, <1>2 DEF TagsPlanned, NoPlan
<1>4. HelperPlanned'
  <2>1. Working => helper.site \in Sites \ {s}
    BY <1>1, HelperTypes DEF LedgerTypeOK, Working, Helpers
  <2>2. helper.pc \in {"burn", "write", "publish"} => Working
    BY HelperTypes, <1>1 DEF LedgerTypeOK, Working, NoHelper
  <2>3. helper.by \notin Workers
    BY <1>1 DEF OneWorker, JournalInv, ProcKept
  <2> QED
    BY <1>1, <1>2, <2>1, <2>2, <2>3 DEF HelperPlanned, Working
<1> QED
  BY <1>1, <1>3, <1>4, OnlyWorker DEF Resting

\* A worker ends or begins again.
LEMMA CrashPlanned ==
    ASSUME OneWorker, ProjectsInv, TagInv, NEW w \in Workers, CrashWorker(w) \/ Boot(w)
    PROVE  TagInv'
<1>1. /\ LedgerTypeOK /\ NoHelper.by # w
      /\ UNCHANGED <<siteVars, stage, burned, journal, partial, tags, tree>>
  BY WorkersAssumption DEF ProjectsInv, CrashWorker, Boot, NoHelper
<1>2. proc'[w].pc \in Resting
  BY <1>1 DEF CrashWorker, Boot, Idle, Down, Resting, LedgerTypeOK
<1>3. \/ helper' = NoHelper
      \/ helper' = helper
      \/ helper # NoHelper /\ helper' = [helper EXCEPT !.by = "nobody"]
  BY <1>1 DEF CrashWorker, Boot
<1>4. StartsUntagged
  BY <1>1 DEF StartsUntagged, siteVars
<1>5. TagsPlanned' /\ HelperPlanned'
  BY <1>1, <1>3, <1>4, TagsQuiet DEF siteVars
<1> QED
  BY <1>2, <1>5, OnlyWorker

\* Data change, the helper is killed, or .quota is lost.
LEMMA LossPlanned ==
    ASSUME ProjectsInv, TagInv,
           KillHelper \/ LoseDirectory \/ Interfere \/ \E s \in Sites : WriteData(s)
    PROVE  TagInv'
<1>1. /\ LedgerTypeOK /\ helper' \in {helper, NoHelper}
      /\ UNCHANGED <<proc, siteVars, stage, burned, journal, partial, tags>>
  BY DEF ProjectsInv, KillHelper, LoseDirectory, Interfere, WriteData, nativeVars
<1>2. StartsUntagged
  BY <1>1 DEF StartsUntagged, siteVars
<1>3. TagsPlanned' /\ HelperPlanned'
  BY <1>1, <1>2, TagsQuiet DEF siteVars
<1>4. \A v \in Workers : proc[v].pc \notin Resting => Planned(proc[v])'
  BY <1>1 DEF TagInv, Planned, siteVars
<1> QED
  BY <1>1, <1>3, <1>4 DEF TagInv

\* The helper tags inodes of a site whose plan says so, and no others.
LEMMA NativePlanned ==
    ASSUME ProjectsInv, JournalInv, TagInv, Native
    PROVE  TagInv'
<1>1. /\ LedgerTypeOK /\ NativeTypeOK /\ HelperKept /\ SitesKept /\ TagsPlanned /\ HelperPlanned
      /\ HelperStep /\ UNCHANGED <<proc, siteVars>>
  BY DEF ProjectsInv, LedgerTypeOK, JournalInv, TagInv, Native
<1>2. helper \in Helpers /\ helper # NoHelper /\ helper.site \in Sites /\ Working
  BY <1>1, HelperTypes
  DEF HelperStep, HelperAt, TakeLock, Initialize, CheckOwner, InspectPrepare, Burn, WriteJournal,
      Publish, InspectTag, TagNode, TagsDone, ConfirmTags, Helpers, Working
<1> USE DEF HelperAt, Advance
<1>3. /\ helper'.site = helper.site /\ helper'.tag = helper.tag /\ helper'.project = helper.project
  BY <1>1, <1>2
  DEF HelperStep, TakeLock, Initialize, CheckOwner, InspectPrepare, Burn, WriteJournal,
      Publish, InspectTag, TagNode, TagsDone, ConfirmTags, Helpers
<1>4. CASE TagNode
  <2>1. PICK n \in Nodes \ tags[helper.site] : tags' = [tags EXCEPT ![helper.site] = @ \cup {n}]
    BY <1>4 DEF TagNode
  <2>2. /\ helper.pc = "tag" /\ helper' = helper /\ journal' = journal
        /\ tags'[helper.site] = tags[helper.site] \cup {n}
        /\ \A s \in Sites \ {helper.site} : tags'[s] = tags[s]
    BY <1>1, <1>2, <1>4, <2>1 DEF TagNode, NativeTypeOK
  <2>3. tags[helper.site] # Nodes
    BY <2>1
  <2>4. /\ plan[helper.site].phase = "tagging" /\ helper.site \notin up
        /\ guard[helper.site] = journal[helper.site].project
    BY <1>1, <1>2, <2>2, <2>3 DEF HelperKept, HelperPlanned, TagsPlanned, Shut
  <2>5. TagsPlanned'
    BY <1>1, <2>2, <2>4 DEF TagsPlanned, siteVars
  <2>6. HelperPlanned'
    BY <1>1, <2>2 DEF HelperPlanned, Working, siteVars
  <2>7. ASSUME NEW v \in Workers, proc[v].pc \notin Resting
        PROVE  Planned(proc[v])'
    <3>1. Planned(proc[v]) /\ proc[v].site \in Sites
      BY <1>1, <2>7, ProcTypes DEF TagInv, Transitions, Resting
    <3>2. proc[v].tag /\ proc[v].pc \in Confirmed => proc[v].site \in Sites \ {helper.site}
      BY <2>3, <3>1 DEF Planned
    <3> QED
      BY <1>1, <2>2, <3>1, <3>2 DEF Planned, siteVars
  <2> QED
    BY <1>1, <2>5, <2>6, <2>7 DEF TagInv
<1>5. CASE ~TagNode
  <2>1. UNCHANGED tags
    BY <1>1, <1>5
    DEF HelperStep, TakeLock, Initialize, CheckOwner, InspectPrepare, Burn, WriteJournal,
        Publish, InspectTag, TagsDone, ConfirmTags
  <2>2. TagsPlanned' /\ HelperPlanned'
    <3>1. CASE Publish
      <4>1. helper.pc = "publish" /\ tags[helper.site] = {} /\ ~helper.tag
        BY <1>1, <1>2, <3>1 DEF Publish, HelperPlanned, HelperKept
      <4>2. \A s \in Sites \ {helper.site} : journal'[s] = journal[s]
        BY <1>1, <1>2, <3>1 DEF Publish, NativeTypeOK
      <4>3. TagsPlanned'
        BY <1>1, <2>1, <4>1, <4>2 DEF TagsPlanned, siteVars
      <4>4. helper'.pc = "verified"
        BY <1>2, <3>1 DEF Publish, Helpers
      <4>5. HelperPlanned'
        BY <1>3, <4>1, <4>4 DEF HelperPlanned
      <4> QED
        BY <4>3, <4>5
    <3>2. CASE ~Publish
      <4>1. UNCHANGED journal
        BY <1>1, <1>5, <3>2
        DEF HelperStep, TakeLock, Initialize, CheckOwner, InspectPrepare, Burn, WriteJournal,
            InspectTag, TagsDone, ConfirmTags
      <4>2. TagsPlanned'
        BY <1>1, <2>1, <4>1 DEF TagsPlanned, siteVars
      <4>3. helper'.pc \in {"burn", "write", "publish"} => tags[helper.site] = {}
        BY <1>1, <1>2, <1>5, <3>2
        DEF HelperStep, TakeLock, Initialize, CheckOwner, InspectPrepare, Acceptable, Burn,
            WriteJournal, InspectTag, TagsDone, ConfirmTags, Helpers, HelperPlanned
      <4>4. helper'.pc = "verified" => ~helper.tag \/ tags[helper.site] = Nodes
        BY <1>1, <1>2, <1>5, <3>2
        DEF HelperStep, TakeLock, Initialize, CheckOwner, InspectPrepare, Burn,
            WriteJournal, InspectTag, TagsDone, ConfirmTags, Helpers
      <4>5. HelperPlanned'
        BY <1>1, <1>2, <1>3, <2>1, <4>3, <4>4 DEF HelperPlanned, siteVars
      <4> QED
        BY <4>2, <4>5
    <3> QED
      BY <3>1, <3>2
  <2>3. \A v \in Workers : proc[v].pc \notin Resting => Planned(proc[v])'
    BY <1>1, <2>1 DEF TagInv, Planned, siteVars
  <2> QED
    BY <1>1, <2>2, <2>3 DEF TagInv
<1> QED
  BY <1>4, <1>5

\* Every step.
LEMMA TagStep ==
    ASSUME OneWorker, ProjectsInv, JournalInv, TagInv, [LedgerNext]_ledgerVars
    PROVE  TagInv'
<1>1. CASE UNCHANGED ledgerVars
  <2>1. StartsUntagged /\ LedgerTypeOK
    BY <1>1 DEF ledgerVars, siteVars, ProjectsInv, StartsUntagged
  <2>2. TagsPlanned' /\ HelperPlanned'
    BY <1>1, <2>1, TagsQuiet DEF ledgerVars, siteVars, nativeVars
  <2>3. \A v \in Workers : proc[v].pc \notin Resting => Planned(proc[v])'
    BY <1>1 DEF TagInv, Planned, ledgerVars, siteVars, nativeVars
  <2> QED
    BY <1>1, <2>2, <2>3 DEF TagInv, ledgerVars
<1>2. ASSUME NEW w \in Workers, Step(w)
      PROVE  TagInv'
  BY <1>2, EarlyPlanned, MiddlePlanned, GuardPlanned, PendingPlanned, TaggingPlanned,
     FencePlanned, RestPlanned, LaunchPlanned, CollectPlanned, FinishPlanned DEF Step
<1> QED
  BY <1>1, <1>2, EnterPlanned, RestPlanned, DeletePlanned, CrashPlanned, LossPlanned, NativePlanned
  DEF LedgerNext

\* The initial states.
LEMMA TagInit ==
    ASSUME LedgerInit
    PROVE  TagInv
<1>1. TagsPlanned
  BY DEF LedgerInit, NativeInit, TagsPlanned, NoPlan
<1>2. HelperPlanned
  BY DEF LedgerInit, NativeInit, HelperPlanned, Working, NoHelper
<1>3. \A w \in Workers : proc[w].pc \in Resting
  BY DEF LedgerInit, Idle, Resting
<1> QED
  BY <1>1, <1>2, <1>3 DEF TagInv

\* With one worker, what the files say of a site's preparation is true of its data:
\* the journal describes them, data that carry a tag are fenced by their plan and
\* their record, and "tagged" means every inode (quota_prepare.go,
\* quotaDataTransition).  A second worker can put an older plan back.
THEOREM PreparationSoundHolds ==
    ASSUME \A v, w \in Workers : v = w
    PROVE  LedgerSpec => []PreparationSound
<1>1. OneWorker
  BY DEF OneWorker
<1>2. LedgerInit => TagInv
  BY TagInit
<1>3. ProjectsInv /\ JournalInv /\ TagInv /\ [LedgerNext]_ledgerVars => TagInv'
  BY <1>1, TagStep
<1>4. TagInv => TagsPlanned
  BY DEF TagInv
<1>5. JournalCurrent /\ TagsPlanned => PreparationSound
  BY DEF PreparationSound
<1> QED
  BY <1>2, <1>3, <1>4, <1>5, JournalSafety, JournalCurrentHolds, PTL DEF LedgerSpec
=============================================================================
