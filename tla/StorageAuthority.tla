--------------------------- MODULE StorageAuthority ---------------------------
(***************************************************************************)
(* The native helper that prepares and tags the data of a site for a       *)
(* project quota (deploy/storage-authority.c, storage-tagging.h), and what *)
(* it keeps in the root of the file system: a lock, the mark of the owner, *)
(* an index of burned project IDs and one immutable journal per site.      *)
(*                                                                         *)
(* A helper can be killed before each of its steps.  A journal stands for  *)
(* the inodes of both trees by the version of the data it was taken from.  *)
(* Others may use the file system too, and what they do can stand in the   *)
(* way of a helper at any time.                                            *)
(***************************************************************************)
EXTENDS Naturals, FiniteSets

CONSTANTS
    Sites,
    Workers,      \* worker processes on the same state directory
    MaxProject,   \* the IDs 1000000, 1000001, ... are 1..MaxProject here
    Foreign,      \* projects that others use on the file system
    Nodes,        \* inodes of a site's data
    MaxWrites     \* bound on changes of a site's data

ASSUME MaxProjectAssumption == MaxProject \in Nat
ASSUME ForeignAssumption == Foreign \subseteq 1..MaxProject
ASSUME MaxWritesAssumption == MaxWrites \in Nat
ASSUME WorkersAssumption == "nobody" \notin Workers

VARIABLES
    stage,     \* how far the initialisation of the authority got
    burned,    \* .panel4wp-quota-burned: site and project pairs
    journal,   \* .panel4wp-quota-plans: the journal of a site, if any
    partial,   \* sites with a temporary journal file
    tags,      \* inodes of a site that carry the project of its journal
    tree,      \* version of a site's data
    unfit,     \* what there is in a site's data that keeps it from being tagged
    outside,   \* what others have done to the file system
    helper     \* the helper that holds the lock of the authority

nativeVars == <<stage, burned, journal, partial, tags, tree, unfit, outside, helper>>

Projects == 1..MaxProject
Stages == <<"none", "locked", "plans", "burned", "owned">>
\* Inodes with a mode or flags that tagging must not touch, inodes that a deleted
\* site has left to this one and that its journal still names.
Oddities == {"attributes", "recycled"}
\* An inode or a limit of a project (0 is the default for all of them), no
\* enforcement, a root directory that is not what it has to be.
Interferences == ({"inode"} \X Projects) \cup ({"limit"} \X (0..MaxProject))
                     \cup {<<"enforcement", 0>>, <<"root", 0>>}
NoHelper == [pc |-> "none", by |-> "nobody"]
NoJournal == [project |-> 0]
Journals == [project : Projects, tree : 0..MaxWrites]
Helpers == [site : Sites, tag : BOOLEAN, claim : BOOLEAN, project : Projects,
            pc : {"lock", "open", "inspect", "burn", "write", "publish", "tag",
                  "confirm", "verified", "refused"},
            fresh : BOOLEAN,                 \* it has created the lock file
            tree : 0..MaxWrites,             \* its snapshot
            by : Workers \cup {"nobody"}]    \* who waits for its answer

NativeTypeOK ==
    /\ stage \in {Stages[n] : n \in 1..5}
    /\ burned \subseteq Sites \X Projects
    /\ journal \in [Sites -> Journals \cup {NoJournal}]
    /\ partial \subseteq Sites
    /\ tags \in [Sites -> SUBSET Nodes]
    /\ tree \in [Sites -> 0..MaxWrites]
    /\ unfit \in [Sites -> SUBSET Oddities]
    /\ outside \subseteq Interferences
    /\ helper \in Helpers \cup {NoHelper}

-----------------------------------------------------------------------------
(* Checks *)

Working == helper # NoHelper /\ helper.pc \notin {"verified", "refused"}

\* Project IDs that an inode of the file system carries or that have a limit.
Used(p) == p \in Foreign \/ <<"inode", p>> \in outside
Census == {p \in Projects : Used(p) \/ <<"limit", p>> \in outside}
              \cup {journal[s].project : s \in {t \in Sites : tags[t] # {}}}

Journaled == {s \in Sites : journal[s] # NoJournal}

\* Every journal belongs to one entry of the index and every entry has its
\* journal; a temporary file in the directory is not a journal.
JournalsSound ==
    /\ partial = {}
    /\ Cardinality(Journaled) = Cardinality(burned)
    /\ \A s \in Journaled : <<s, journal[s].project>> \in burned

Advance(pc) == helper' = [helper EXCEPT !.pc = pc]
HelperAt(pc) == helper.pc = pc

-----------------------------------------------------------------------------
(* Steps of prepare() and tag_data() *)

\* The root and the enforcement of quotas are checked before anything else.
Enforced == outside \cap {<<"enforcement", 0>>, <<"root", 0>>} = {}

\* Create or open the lock file and take the lock.
TakeLock ==
    /\ HelperAt("lock")
    /\ IF Enforced
       THEN /\ helper' = [helper EXCEPT !.pc = "open", !.fresh = (stage = "none")]
            /\ stage' = IF stage = "none" THEN "locked" ELSE stage
       ELSE Advance("refused") /\ UNCHANGED stage
    /\ UNCHANGED <<burned, journal, partial, tags, tree, unfit, outside>>

\* Only the helper that created the lock may initialise the rest, in order: the
\* directory of the journals, the index, the owner.  What another one has not
\* finished is never finished.
Initialize ==
    /\ HelperAt("open")
    /\ helper.fresh /\ helper.claim
    /\ stage # "owned"
    /\ \E n \in 1..4 : stage = Stages[n] /\ stage' = Stages[n + 1]
    /\ UNCHANGED <<burned, journal, partial, tags, tree, unfit, outside, helper>>

\* The owner and the index are read.
CheckOwner ==
    /\ HelperAt("open")
    /\ (helper.fresh /\ helper.claim) => stage = "owned"
    /\ Advance(IF stage = "owned" THEN "inspect" ELSE "refused")
    /\ UNCHANGED <<stage, burned, journal, partial, tags, tree, unfit, outside>>

\* prepare(): the project must be unused, the trees untagged, the journals sound.
\* A journal of the site must be the snapshot just taken; a missing one is only
\* made when the site claims its project.
Acceptable(h) ==
    /\ h.project \notin Census
    /\ tags[h.site] = {}
    /\ JournalsSound
    /\ \A s \in Journaled \ {h.site} : journal[s].project # h.project

InspectPrepare ==
    /\ HelperAt("inspect") /\ ~helper.tag
    /\ LET s == helper.site
           own == [project |-> helper.project, tree |-> tree[s]]
           next == CASE ~Acceptable(helper) -> "refused"
                     [] Acceptable(helper) /\ s \in Journaled ->
                            IF journal[s] = own THEN "verified" ELSE "refused"
                     [] OTHER -> IF helper.claim THEN "burn" ELSE "refused"
       IN  helper' = [helper EXCEPT !.pc = next, !.tree = tree[s]]
    /\ UNCHANGED <<stage, burned, journal, partial, tags, tree, unfit, outside>>

Burn ==
    /\ HelperAt("burn")
    /\ burned' = burned \cup {<<helper.site, helper.project>>}
    /\ Advance("write")
    /\ UNCHANGED <<stage, journal, partial, tags, tree, unfit, outside>>

WriteJournal ==
    /\ HelperAt("write")
    /\ partial' = partial \cup {helper.site}
    /\ Advance("publish")
    /\ UNCHANGED <<stage, burned, journal, tags, tree, unfit, outside>>

Publish ==
    /\ HelperAt("publish")
    /\ partial' = partial \ {helper.site}
    /\ journal' = [journal EXCEPT ![helper.site] =
                      [project |-> helper.project, tree |-> helper.tree]]
    /\ Advance("verified")
    /\ UNCHANGED <<stage, burned, tags, tree, unfit, outside>>

\* pin_tree and verify_global_project: the journal is this request's and describes
\* the data as they are, tagged inodes included; no other inode has the project, and
\* neither it nor the default has a limit.
Unlimited(p) == outside \cap {<<"limit", 0>>, <<"limit", p>>} = {}
PinnedUntagged(h) ==
    /\ journal[h.site] = [project |-> h.project, tree |-> tree[h.site]]
    /\ h.project \notin Census
    /\ Unlimited(h.project)
Pinned(h) ==
    /\ journal[h.site] = [project |-> h.project, tree |-> tree[h.site]]
    /\ ~Used(h.project)
    /\ \A s \in Sites \ {h.site} : tags[s] # {} => journal[s].project # h.project
    /\ Unlimited(h.project)

\* tag_data(): the attributes in the journal and the other journals come first.
InspectTag ==
    /\ HelperAt("inspect") /\ helper.tag
    /\ Advance(IF unfit[helper.site] = {} /\ JournalsSound /\ Pinned(helper)
               THEN "tag" ELSE "refused")
    /\ UNCHANGED <<stage, burned, journal, partial, tags, tree, unfit, outside>>

\* One inode after the other, those that have the tag already excepted.
TagNode ==
    /\ HelperAt("tag")
    /\ \E n \in Nodes \ tags[helper.site] :
          tags' = [tags EXCEPT ![helper.site] = @ \cup {n}]
    /\ UNCHANGED <<stage, burned, journal, partial, tree, unfit, outside, helper>>

TagsDone ==
    /\ HelperAt("tag")
    /\ tags[helper.site] = Nodes
    /\ Advance("confirm")
    /\ UNCHANGED <<stage, burned, journal, partial, tags, tree, unfit, outside>>

\* The trees are walked again.
ConfirmTags ==
    /\ HelperAt("confirm")
    /\ Advance(IF Pinned(helper) /\ tags[helper.site] = Nodes THEN "verified"
                                                              ELSE "refused")
    /\ UNCHANGED <<stage, burned, journal, partial, tags, tree, unfit, outside>>

HelperStep ==
    \/ TakeLock \/ Initialize \/ CheckOwner \/ InspectPrepare
    \/ Burn \/ WriteJournal \/ Publish
    \/ InspectTag \/ TagNode \/ TagsDone \/ ConfirmTags

NativeInit ==
    /\ stage = "none" /\ burned = {} /\ partial = {}
    /\ journal = [s \in Sites |-> NoJournal]
    /\ tags = [s \in Sites |-> {}]
    /\ tree = [s \in Sites |-> 0]
    /\ unfit = [s \in Sites |-> {}]
    /\ outside = {}
    /\ helper = NoHelper
=============================================================================
