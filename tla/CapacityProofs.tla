--------------------------- MODULE CapacityProofs ---------------------------
(***************************************************************************)
(* Proofs about the admission of sites: for any sites, sizes, host, load   *)
(* and number of faults, what is configured and what runs fits, and a      *)
(* stopped site keeps its reservation.                                     *)
(*                                                                         *)
(* The sum over all containers is a fold over a finite set: the first part *)
(* proves, by induction on the size of the set, that it does not depend on *)
(* the order and grows with its terms.  The second part states the         *)
(* inductive invariant, whose main conjunct is that the larger of the      *)
(* saved and the actual limits of all containers fits: only the step that  *)
(* saves a configuration can enlarge it, after an admission that counted   *)
(* every other site.                                                       *)
(***************************************************************************)
EXTENDS Capacity, TLAPS, WellFoundedInduction, FiniteSetTheorems

\* Every set of naturals that is not empty has a least member.
LEMMA Least ==
    ASSUME NEW T, T \subseteq Nat, T # {}
    PROVE  \E x \in T : \A y \in T : ~(y < x)
<1> DEFINE R == OpToRel(<, Nat)
<1>1. IsWellFoundedOn(R, Nat)
  BY NatLessThanWellFounded
<1> HIDE DEF R
<1>2. \E x \in T : \A y \in T : ~ (<<y, x>> \in R)
  BY <1>1, WFMin
<1>3. \A x, y \in Nat : y < x => <<y, x>> \in R
  BY DEF R, OpToRel
<1> QED
  BY <1>2, <1>3

\* Induction.
LEMMA Induction ==
    ASSUME NEW T, 0 \in T, \A n \in Nat : n \in T => n + 1 \in T
    PROVE  \A n \in Nat : n \in T
<1> SUFFICES ASSUME NEW n \in Nat, n \notin T PROVE FALSE
  OBVIOUS
<1> DEFINE U == {k \in Nat : k \notin T}
<1>1. PICK m \in U : \A k \in U : ~(k < m)
  BY Least
<1>2. m # 0 /\ m \in Nat /\ m - 1 \in Nat
  BY <1>1
<1>3. m - 1 \in T
  BY <1>1, <1>2
<1>4. m - 1 + 1 = m
  BY <1>2
<1> QED
  BY <1>1, <1>2, <1>3, <1>4

\* A property of finite sets that each one inherits from its parts with one element
\* less.
LEMMA SubsetInduction ==
    ASSUME NEW S, IsFiniteSet(S), NEW T,
           \A s \in SUBSET S : (\A x \in s : s \ {x} \in T) => s \in T
    PROVE  S \in T
<1> SUFFICES ASSUME S \notin T PROVE FALSE
  OBVIOUS
<1> DEFINE B == {s \in SUBSET S : s \notin T}
           N == {Cardinality(s) : s \in B}
<1>1. \A s \in SUBSET S : IsFiniteSet(s) /\ Cardinality(s) \in Nat
  BY FS_Subset, FS_CardinalityType
<1>2. N \subseteq Nat /\ N # {}
  BY <1>1
<1>3. PICK n \in N : \A m \in N : ~(m < n)
  BY <1>2, Least
<1>4. PICK s \in B : Cardinality(s) = n
  BY <1>3
<1>5. ASSUME NEW x \in s
      PROVE  s \ {x} \in T
  <2>1. Cardinality(s \ {x}) = n - 1 /\ n \in Nat
    BY <1>1, <1>2, <1>4, <1>5, FS_RemoveElement
  <2>2. s \ {x} \in B => n - 1 \in N
    BY <2>1
  <2>3. n - 1 < n
    BY <2>1
  <2> QED
    BY <1>3, <1>4, <2>2, <2>3
<1> QED
  BY <1>4, <1>5

-----------------------------------------------------------------------------
(* Sums over a finite set *)

\* The element that the fold takes next.
Pick(s) == CHOOSE x \in s : TRUE

\* The equation that defines the fold, on a family of sets.
Folded(g, f, D) ==
    g = [s \in D |-> IF s = {} THEN 0 ELSE f[Pick(s)] + g[s \ {Pick(s)}]]

\* It has a solution.
LEMMA FoldExists ==
    ASSUME NEW f, NEW S, IsFiniteSet(S)
    PROVE  \E g : Folded(g, f, SUBSET S)
<1> DEFINE D(n) == {s \in SUBSET S : Cardinality(s) <= n}
           T == {n \in Nat : \E g : Folded(g, f, D(n))}
<1>1. \A s \in SUBSET S : IsFiniteSet(s) /\ Cardinality(s) \in Nat /\ Cardinality(s) <= Cardinality(S)
  BY FS_Subset, FS_CardinalityType
<1>2. \A s \in SUBSET S : Cardinality(s) = 0 <=> s = {}
  BY <1>1, FS_EmptySet
<1>3. ASSUME NEW s \in SUBSET S, s # {}
      PROVE  /\ s \ {Pick(s)} \in SUBSET S /\ Cardinality(s \ {Pick(s)}) = Cardinality(s) - 1
             /\ Cardinality(s) # 0
  BY <1>1, <1>2, <1>3, FS_RemoveElement DEF Pick
<1>4. 0 \in T
  <2> DEFINE g == [s \in D(0) |-> 0]
  <2>1. \A s \in D(0) : s = {}
    BY <1>1, <1>2
  <2>2. Folded(g, f, D(0))
    BY <2>1 DEF Folded
  <2> QED
    BY <2>2
<1>5. ASSUME NEW n \in Nat, n \in T
      PROVE  n + 1 \in T
  <2>1. PICK g : Folded(g, f, D(n))
    BY <1>5
  <2> DEFINE k == [s \in D(n + 1) |-> IF s = {} THEN 0 ELSE f[Pick(s)] + g[s \ {Pick(s)}]]
  <2>2. \A s \in D(n) : s \in D(n + 1) /\ k[s] = g[s]
    <3>1. \A s \in D(n) : s \in D(n + 1)
      BY <1>1
    <3>2. \A s \in D(n) : g[s] = IF s = {} THEN 0 ELSE f[Pick(s)] + g[s \ {Pick(s)}]
      BY <2>1 DEF Folded
    <3> QED
      BY <3>1, <3>2
  <2>3. \A s \in D(n + 1) : s # {} => s \ {Pick(s)} \in D(n)
    BY <1>1, <1>3
  <2>4. k = [s \in D(n + 1) |-> IF s = {} THEN 0 ELSE f[Pick(s)] + k[s \ {Pick(s)}]]
    <3>1. \A s \in D(n + 1) : s # {} => k[s \ {Pick(s)}] = g[s \ {Pick(s)}]
      BY <2>2, <2>3
    <3> HIDE DEF D
    <3> QED
      BY <3>1
  <2>5. Folded(k, f, D(n + 1))
    BY <2>4 DEF Folded
  <2>6. n + 1 \in Nat /\ \E h : Folded(h, f, D(n + 1))
    <3> HIDE DEF k, D
    <3> QED
      BY <2>5
  <2> HIDE DEF k, D
  <2> QED
    BY <2>6
<1>6. \A n \in Nat : n \in T
  <2> HIDE DEF T
  <2> QED
    BY <1>4, <1>5, Induction
<1>7. Cardinality(S) \in Nat /\ D(Cardinality(S)) = SUBSET S
  BY <1>1
<1> QED
  BY <1>6, <1>7

\* The sum is its value.
LEMMA SumUnfolds ==
    ASSUME NEW f, NEW S, IsFiniteSet(S)
    PROVE  \E g : Folded(g, f, SUBSET S) /\ SumFunctionOnSet(f, S) = g[S]
<1> DEFINE it == CHOOSE g : Folded(g, f, SUBSET S)
<1>1. Folded(it, f, SUBSET S)
  BY FoldExists
<1>2. SumFunctionOnSet(f, S) = it[S]
  BY DEF SumFunctionOnSet, FoldFunctionOnSet, MapThenFoldSet, Pick, Folded
<1> QED
  BY <1>1, <1>2

\* It is the same on a smaller family.
LEMMA FoldUnique ==
    ASSUME NEW f, NEW S, NEW R, NEW g, NEW k, IsFiniteSet(S), R \subseteq S,
           Folded(g, f, SUBSET S), Folded(k, f, SUBSET R)
    PROVE  g[R] = k[R]
<1> DEFINE T == {s \in SUBSET R : g[s] = k[s]}
<1>1. IsFiniteSet(R)
  BY FS_Subset
<1>2. ASSUME NEW s \in SUBSET R, \A x \in s : s \ {x} \in T
      PROVE  s \in T
  <2>1. g[s] = IF s = {} THEN 0 ELSE f[Pick(s)] + g[s \ {Pick(s)}]
    BY DEF Folded
  <2>2. k[s] = IF s = {} THEN 0 ELSE f[Pick(s)] + k[s \ {Pick(s)}]
    BY DEF Folded
  <2>3. s # {} => Pick(s) \in s
    BY DEF Pick
  <2>4. s # {} => g[s \ {Pick(s)}] = k[s \ {Pick(s)}]
    BY <1>2, <2>3
  <2> QED
    BY <2>1, <2>2, <2>4
<1>3. R \in T
  <2> HIDE DEF T
  <2> QED
    BY <1>1, <1>2, SubsetInduction
<1> QED
  BY <1>3

\* The sum, by the element that is taken first.
LEMMA SumStep ==
    ASSUME NEW f, NEW S, IsFiniteSet(S)
    PROVE  /\ S = {} => SumFunctionOnSet(f, S) = 0
           /\ S # {} => /\ Pick(S) \in S
                        /\ SumFunctionOnSet(f, S) = f[Pick(S)] + SumFunctionOnSet(f, S \ {Pick(S)})
<1>1. PICK g : Folded(g, f, SUBSET S) /\ SumFunctionOnSet(f, S) = g[S]
  BY SumUnfolds
<1>2. g[S] = IF S = {} THEN 0 ELSE f[Pick(S)] + g[S \ {Pick(S)}]
  BY <1>1 DEF Folded
<1>3. CASE S = {}
  BY <1>1, <1>2, <1>3
<1>4. CASE S # {}
  <2>1. Pick(S) \in S
    BY <1>4 DEF Pick
  <2>2. PICK R : R = S \ {Pick(S)}
    OBVIOUS
  <2>3. R \in SUBSET S /\ IsFiniteSet(R)
    BY <2>2, FS_Subset
  <2>4. PICK k : Folded(k, f, SUBSET R) /\ SumFunctionOnSet(f, R) = k[R]
    BY <2>3, SumUnfolds
  <2>5. g[R] = k[R]
    <3>1. Folded(g, f, SUBSET S)
      BY <1>1
    <3>2. Folded(k, f, SUBSET R)
      BY <2>4
    <3>3. R \subseteq S
      BY <2>3
    <3> QED
      BY <3>1, <3>2, <3>3, FoldUnique
  <2> QED
    BY <1>1, <1>2, <1>4, <2>1, <2>2, <2>4, <2>5
<1> QED
  BY <1>3, <1>4

\* A sum of naturals is one.
LEMMA SumNat ==
    ASSUME NEW S, IsFiniteSet(S), NEW f, \A x \in S : f[x] \in Nat
    PROVE  SumFunctionOnSet(f, S) \in Nat
<1> DEFINE T == {s \in SUBSET S : SumFunctionOnSet(f, s) \in Nat}
<1>1. ASSUME NEW s \in SUBSET S, \A x \in s : s \ {x} \in T
      PROVE  s \in T
  <2>1. /\ s = {} => SumFunctionOnSet(f, s) = 0
        /\ s # {} => /\ Pick(s) \in s
                     /\ SumFunctionOnSet(f, s) = f[Pick(s)] + SumFunctionOnSet(f, s \ {Pick(s)})
    BY FS_Subset, SumStep
  <2> QED
    BY <1>1, <2>1
<1>2. S \in T
  <2> HIDE DEF T
  <2> QED
    BY <1>1, SubsetInduction
<1> QED
  BY <1>2

\* Any element may be taken out first.
LEMMA SumAny ==
    ASSUME NEW S, IsFiniteSet(S), NEW f, \A x \in S : f[x] \in Nat, NEW z \in S
    PROVE  SumFunctionOnSet(f, S) = f[z] + SumFunctionOnSet(f, S \ {z})
<1> DEFINE T == {s \in SUBSET S : \A x \in s :
                    SumFunctionOnSet(f, s) = f[x] + SumFunctionOnSet(f, s \ {x})}
<1>1. ASSUME NEW s \in SUBSET S, \A x \in s : s \ {x} \in T
      PROVE  s \in T
  <2> SUFFICES ASSUME NEW x \in s
               PROVE  SumFunctionOnSet(f, s) = f[x] + SumFunctionOnSet(f, s \ {x})
    OBVIOUS
  <2>1. PICK p \in s : SumFunctionOnSet(f, s) = f[p] + SumFunctionOnSet(f, s \ {p})
    BY FS_Subset, SumStep
  <2>2. CASE p = x
    BY <2>1, <2>2
  <2>3. CASE p # x
    <3>1. PICK r : r = (s \ {p}) \ {x} /\ r = (s \ {x}) \ {p}
      OBVIOUS
    <3>2. SumFunctionOnSet(f, s \ {p}) = f[x] + SumFunctionOnSet(f, r)
      BY <1>1, <2>3, <3>1
    <3>3. SumFunctionOnSet(f, s \ {x}) = f[p] + SumFunctionOnSet(f, r)
      BY <1>1, <2>3, <3>1
    <3>4. r \in SUBSET S
      BY <3>1
    <3>5. SumFunctionOnSet(f, r) \in Nat /\ f[x] \in Nat /\ f[p] \in Nat
      BY <3>4, FS_Subset, SumNat
    <3> QED
      BY <2>1, <3>2, <3>3, <3>5
  <2> QED
    BY <2>2, <2>3
<1>2. S \in T
  <2> HIDE DEF T
  <2> QED
    BY <1>1, SubsetInduction
<1> QED
  BY <1>2

\* A sum grows with what is summed.
LEMMA SumMonotonic ==
    ASSUME NEW S, IsFiniteSet(S), NEW f, NEW g,
           \A x \in S : f[x] \in Nat /\ g[x] \in Nat /\ f[x] <= g[x]
    PROVE  SumFunctionOnSet(f, S) <= SumFunctionOnSet(g, S)
<1> DEFINE T == {s \in SUBSET S : SumFunctionOnSet(f, s) <= SumFunctionOnSet(g, s)}
<1>1. ASSUME NEW s \in SUBSET S, \A x \in s : s \ {x} \in T
      PROVE  s \in T
  <2>0. IsFiniteSet(s)
    BY FS_Subset
  <2>1. CASE s = {}
    <3>1. SumFunctionOnSet(f, s) = 0
      BY <2>0, <2>1, SumStep
    <3>2. SumFunctionOnSet(g, s) = 0
      BY <2>0, <2>1, SumStep
    <3> QED
      BY <3>1, <3>2
  <2>2. CASE s # {}
    <3>1. PICK p \in s : TRUE
      BY <2>2
    <3>2. PICK r : r = s \ {p}
      OBVIOUS
    <3>3. /\ SumFunctionOnSet(f, s) = f[p] + SumFunctionOnSet(f, r)
          /\ SumFunctionOnSet(g, s) = g[p] + SumFunctionOnSet(g, r)
      BY <2>0, <3>1, <3>2, SumAny
    <3>4. r \in SUBSET S /\ IsFiniteSet(r)
      BY <3>2, FS_Subset
    <3>5. SumFunctionOnSet(f, r) \in Nat /\ SumFunctionOnSet(g, r) \in Nat
      BY <3>4, SumNat
    <3>6. SumFunctionOnSet(f, r) <= SumFunctionOnSet(g, r)
      BY <1>1, <3>1, <3>2
    <3>7. f[p] \in Nat /\ g[p] \in Nat /\ f[p] <= g[p]
      BY <3>1
    <3> QED
      BY <3>3, <3>5, <3>6, <3>7
  <2> QED
    BY <2>1, <2>2
<1>2. S \in T
  <2> HIDE DEF T
  <2> QED
    BY <1>1, SubsetInduction
<1> QED
  BY <1>2

\* Sums of the same terms are the same.
LEMMA SumSame ==
    ASSUME NEW S, IsFiniteSet(S), NEW f, NEW g, \A x \in S : f[x] \in Nat /\ g[x] = f[x]
    PROVE  SumFunctionOnSet(g, S) = SumFunctionOnSet(f, S)
<1>1. \A x \in S : f[x] \in Nat /\ g[x] \in Nat /\ f[x] <= g[x] /\ g[x] <= f[x]
  OBVIOUS
<1>2. SumFunctionOnSet(f, S) \in Nat
  BY <1>1, SumNat
<1>3. SumFunctionOnSet(g, S) \in Nat
  BY <1>1, SumNat
<1>4. SumFunctionOnSet(f, S) <= SumFunctionOnSet(g, S)
  BY <1>1, SumMonotonic
<1>5. SumFunctionOnSet(g, S) <= SumFunctionOnSet(f, S)
  BY <1>1, SumMonotonic
<1> QED
  BY <1>2, <1>3, <1>4, <1>5

-----------------------------------------------------------------------------
(* The inductive invariant *)

Limits == Resources \cup {None}

\* What a task still has to do, for each kind.
Stages(kind) ==
    CASE kind = "create" -> {<<"admit", "save", "up">>, <<"save", "up">>, <<"up">>, <<>>}
      [] kind = "start" -> {<<"admit", "up">>, <<"up">>, <<>>}
      [] kind = "stop" -> {<<"stop">>, <<>>}
      [] kind = "delete" -> {<<"down", "remove">>, <<"remove">>, <<>>}
      [] kind = "resources" ->
            {<<"inspect", "admit", "save", "stop", "recreate">>,
             <<"admit", "save", "stop", "recreate">>, <<"save", "stop", "recreate">>,
             <<"stop", "recreate">>, <<"recreate">>, <<"fence">>, <<>>}
      [] kind = "restore" ->
            {<<"stopwp", "updb", "up">>, <<"updb", "up">>, <<"up">>, <<"fence">>, <<>>}
      [] kind = "tool" -> {<<"updb">>, <<>>}
      [] OTHER -> {}

AllStages == UNION {Stages(kind) : kind \in Kinds}
Work == [kind : Kinds, site : Sites, limits : Limits, todo : AllStages,
         was : BOOLEAN, ok : BOOLEAN]

\* Types, as far as the sums need them.
SitesTyped ==
    /\ config \in [Sites -> Limits]
    /\ made \in [Sites -> [Services -> Limits]]
    /\ record \in [Sites -> Limits]
    /\ failed \subseteq Sites
WorkTyped ==
    /\ pending \in [Sites -> (Kinds \ {"tool"}) \cup {"none"}]
    /\ other \in Loads
    /\ task = NoTask \/ (task \in Work /\ task.todo \in Stages(task.kind))

\* All containers fit with the larger of their limits.
AllFit == \A d \in Dimensions : HostCapacity(Sites, d) <= Budget(d)

\* A configuration is valid, and a site without one has no containers.
ConfigSound ==
    \A s \in Sites :
        /\ config[s] = None \/ Valid(config[s])
        /\ config[s] = None => \A c \in Services : made[s][c] = None

\* As long as a site is shown as failed nothing but its creation has set its limits:
\* a retry brings those that any of its containers already has.
FailedSound ==
    \A s \in failed :
        /\ config[s] \in {None, record[s]}
        /\ \A c \in Services : made[s][c] \in {None, record[s]}

\* The limits of a task with a configuration to save were admitted.
Admitted ==
    At("save") =>
        /\ Valid(task.limits)
        /\ \A d \in Dimensions :
              2 * task.limits[d] + HostCapacity(Sites \ {task.site}, d) <= Budget(d)

\* A creation brings the limits of the record; a change found the containers with
\* those of the configuration.
SaveReady ==
    At("save") \/ At("admit") =>
        /\ task.kind = "create" => task.site \in failed /\ task.limits = record[task.site]
        /\ task.kind = "resources" =>
             \A c \in Services : made[task.site][c] = config[task.site]
        /\ task.kind = "start" => task.limits = config[task.site]

\* A change is not the business of a failed site.
ChangeSound ==
    task # NoTask /\ task.kind = "resources" /\ task.todo \notin {<<>>, <<"fence">>} =>
        task.site \notin failed

\* A site's directory is removed after its containers.
RemoveReady ==
    At("remove") => \A c \in Services : made[task.site][c] = None

SiteInv == SitesTyped /\ AllFit /\ ConfigSound /\ FailedSound
TaskInv == Admitted /\ SaveReady /\ ChangeSound /\ RemoveReady
CapInv == WorkTyped /\ SiteInv /\ TaskInv

-----------------------------------------------------------------------------
(* Limits and what they add up to *)

\* The larger of two numbers.
LEMMA MaxTwo ==
    ASSUME NEW a \in Int, NEW b \in Int
    PROVE  Max({a, b}) = IF a >= b THEN a ELSE b
<1>1. \E x \in {a, b} : \A y \in {a, b} : x >= y
  OBVIOUS
<1>2. Max({a, b}) \in {a, b} /\ \A y \in {a, b} : Max({a, b}) >= y
  BY <1>1 DEF Max
<1> QED
  BY <1>2

\* Limits are numbers of units.
LEMMA LimitsNat ==
    ASSUME NEW r \in Limits, NEW d \in Dimensions
    PROVE  r[d] \in Nat
<1>1. MemorySizes \subseteq Nat /\ CpuSizes \subseteq Nat
  BY SizesAssumption
<1>2. r.memory \in Nat /\ r.cpus \in Nat
  <2>1. CASE r \in Resources
    BY <1>1, <2>1 DEF Resources
  <2>2. CASE r = None
    BY <2>2 DEF None
  <2> QED
    BY <2>1, <2>2 DEF Limits
<1> QED
  BY <1>2 DEF Dimensions

\* The budget is one too.
LEMMA BudgetNat ==
    ASSUME NEW d \in Dimensions
    PROVE  /\ Budget(d) \in Nat /\ Host[d] \in Nat /\ Reserve[d] \in Nat
           /\ Host[d] - Reserve[d] <= Budget(d)
           /\ Budget(d) > 0 => Budget(d) = Host[d] - Reserve[d]
<1>1. HostMemory \div 5 \in Int /\ HostMemory \in Nat /\ HostCpus \in Nat
  BY HostAssumption
<1>2. Host[d] \in Nat
  BY <1>1 DEF Host, Dimensions
<1>3. PICK m : m = HostMemory \div 5
  OBVIOUS
<1>4. Max({2, m}) \in Nat
  BY <1>1, <1>3, MaxTwo
<1>5. Reserve[d] \in Nat
  BY <1>3, <1>4 DEF Reserve, Dimensions
<1>6. Host[d] - Reserve[d] \in Int
  BY <1>2, <1>5
<1>7. Budget(d) = IF 0 >= Host[d] - Reserve[d] THEN 0 ELSE Host[d] - Reserve[d]
  BY <1>6, MaxTwo DEF Budget
<1> QED
  BY <1>2, <1>5, <1>6, <1>7

\* Containers of all sites, and of all sites but one.
Containers == Sites \X Services
Others(s) == (Sites \ {s}) \X Services

\* What every container is counted with.
Amounts(d) == [x \in Containers |-> Allocated(x[1], x[2], d)]

LEMMA ContainersFinite ==
    IsFiniteSet(Containers) /\ \A s : IsFiniteSet(Others(s)) /\ Others(s) \subseteq Containers
<1>1. IsFiniteSet(Services)
  <2>1. IsFiniteSet({"wp"}) /\ IsFiniteSet({"db"})
    BY FS_Singleton
  <2>2. Services = {"wp"} \cup {"db"}
    BY DEF Services
  <2> QED
    BY <2>1, <2>2, FS_Union
<1>2. \A s : IsFiniteSet(Sites \ {s})
  BY SitesAssumption, FS_Subset
<1> QED
  BY <1>1, <1>2, SitesAssumption, FS_Product DEF Containers, Others

\* The sum of all containers, by one site's.
LEMMA TakeSite ==
    ASSUME NEW f, \A x \in Containers : f[x] \in Nat, NEW s \in Sites
    PROVE  /\ SumFunctionOnSet(f, Containers)
                = f[<<s, "wp">>] + f[<<s, "db">>] + SumFunctionOnSet(f, Others(s))
           /\ f[<<s, "wp">>] \in Nat /\ f[<<s, "db">>] \in Nat
           /\ SumFunctionOnSet(f, Others(s)) \in Nat
<1> DEFINE a == <<s, "wp">>
           b == <<s, "db">>
<1>1. a \in Containers /\ b \in Containers /\ a # b
  BY DEF Containers, Services
<1>2. (Containers \ {a}) \ {b} = Others(s)
  BY DEF Containers, Others, Services
<1>3. IsFiniteSet(Containers) /\ IsFiniteSet(Containers \ {a}) /\ IsFiniteSet(Others(s))
  BY ContainersFinite, FS_Subset
<1>4. f[a] \in Nat /\ f[b] \in Nat
  BY <1>1
<1> HIDE DEF a, b
<1>5. SumFunctionOnSet(f, Containers) = f[a] + SumFunctionOnSet(f, Containers \ {a})
  BY <1>1, <1>3, SumAny
<1>6. b \in Containers \ {a} /\ \A x \in Containers \ {a} : f[x] \in Nat
  BY <1>1
<1>7. SumFunctionOnSet(f, Containers \ {a}) = f[b] + SumFunctionOnSet(f, Others(s))
  <2>1. SumFunctionOnSet(f, Containers \ {a})
          = f[b] + SumFunctionOnSet(f, (Containers \ {a}) \ {b})
    BY <1>3, <1>6, SumAny
  <2> QED
    BY <1>2, <2>1
<1>8. SumFunctionOnSet(f, Others(s)) \in Nat
  BY <1>3, ContainersFinite, SumNat
<1>9. SumFunctionOnSet(f, Containers) = f[a] + f[b] + SumFunctionOnSet(f, Others(s))
  BY <1>4, <1>5, <1>7, <1>8
<1> QED
  BY <1>4, <1>8, <1>9 DEF a, b

\* The amounts of a state.
LEMMA AmountsAre ==
    ASSUME SitesTyped, NEW d \in Dimensions
    PROVE  /\ \A x \in Containers : Amounts(d)[x] \in Nat
           /\ \A s \in Sites, c \in Services :
                 /\ Amounts(d)[<<s, c>>] = Allocated(s, c, d)
                 /\ config[s][d] \in Nat /\ made[s][c][d] \in Nat
                 /\ Allocated(s, c, d) = IF config[s][d] >= made[s][c][d] THEN config[s][d]
                                         ELSE made[s][c][d]
           /\ HostCapacity(Sites, d) = SumFunctionOnSet(Amounts(d), Containers)
           /\ \A s : HostCapacity(Sites \ {s}, d) = SumFunctionOnSet(Amounts(d), Others(s))
<1>1. ASSUME NEW s \in Sites, NEW c \in Services
      PROVE  /\ config[s][d] \in Nat /\ made[s][c][d] \in Nat
             /\ Allocated(s, c, d) = IF config[s][d] >= made[s][c][d] THEN config[s][d]
                                     ELSE made[s][c][d]
  <2>1. config[s] \in Limits /\ made[s][c] \in Limits
    BY DEF SitesTyped
  <2>2. config[s][d] \in Nat /\ made[s][c][d] \in Nat
    BY <2>1, LimitsNat
  <2> QED
    BY <2>2, MaxTwo DEF Allocated
<1>2. ASSUME NEW s \in Sites, NEW c \in Services
      PROVE  <<s, c>> \in Containers /\ Amounts(d)[<<s, c>>] = Allocated(s, c, d)
  BY DEF Amounts, Containers
<1>3. \A x \in Containers : \E s \in Sites, c \in Services : x = <<s, c>>
  BY DEF Containers
<1>4. \A x \in Containers : Amounts(d)[x] \in Nat
  BY <1>1, <1>2, <1>3
<1>5. HostCapacity(Sites, d) = SumFunctionOnSet(Amounts(d), Containers)
  BY DEF HostCapacity, Amounts, Containers
<1>6. \A s : HostCapacity(Sites \ {s}, d) = SumFunctionOnSet(Amounts(d), Others(s))
  BY DEF HostCapacity, Amounts, Containers, Others
<1> QED
  BY <1>1, <1>2, <1>4, <1>5, <1>6

-----------------------------------------------------------------------------
(* What happens to a task *)

\* What the next step of a task is, by the last one.
Follows(kind, t) ==
    /\ Tail(t) \in Stages(kind)
    /\ Tail(t) # <<>> =>
         /\ t # <<"fence">>
         /\ Head(Tail(t)) = "save" => Head(t) = "admit"
         /\ Head(Tail(t)) = "admit" => Head(t) = "inspect"
         /\ Head(Tail(t)) = "remove" => Head(t) = "down"
    /\ Head(t) = "save" => kind \in {"create", "resources"}
    /\ Head(t) = "admit" => kind \in {"create", "start", "resources"}
    /\ Head(t) = "inspect" => kind = "resources"

LEMMA StageSteps ==
    ASSUME NEW kind \in Kinds, NEW t \in Stages(kind), t # <<>>
    PROVE  Follows(kind, t)
<1>1. CASE kind = "create"
  <2>1. CASE t = <<"admit", "save", "up">>
    <3>1. Head(t) = "admit" /\ Tail(t) = <<"save", "up">>
      BY <2>1
    <3>2. <<"save", "up">> \in Stages(kind)
      BY <1>1 DEF Stages
    <3>3. Head(<<"save", "up">>) = "save"
      OBVIOUS
    <3>4. t # <<"fence">>
      BY <3>1
    <3> QED
      BY <1>1, <3>1, <3>2, <3>3, <3>4 DEF Follows
  <2>2. CASE t = <<"save", "up">>
    <3>1. Head(t) = "save" /\ Tail(t) = <<"up">>
      BY <2>2
    <3>2. <<"up">> \in Stages(kind)
      BY <1>1 DEF Stages
    <3>3. Head(<<"up">>) = "up"
      OBVIOUS
    <3>4. t # <<"fence">>
      BY <3>1
    <3> QED
      BY <1>1, <3>1, <3>2, <3>3, <3>4 DEF Follows
  <2>3. CASE t = <<"up">>
    <3>1. Head(t) = "up" /\ Tail(t) = <<>>
      BY <2>3
    <3>2. <<>> \in Stages(kind)
      BY <1>1 DEF Stages
    <3> QED
      BY <1>1, <3>1, <3>2 DEF Follows
  <2> QED
    BY <1>1, <2>1, <2>2, <2>3 DEF Stages
<1>2. CASE kind = "start"
  <2>1. CASE t = <<"admit", "up">>
    <3>1. Head(t) = "admit" /\ Tail(t) = <<"up">>
      BY <2>1
    <3>2. <<"up">> \in Stages(kind)
      BY <1>2 DEF Stages
    <3>3. Head(<<"up">>) = "up"
      OBVIOUS
    <3>4. t # <<"fence">>
      BY <3>1
    <3> QED
      BY <1>2, <3>1, <3>2, <3>3, <3>4 DEF Follows
  <2>2. CASE t = <<"up">>
    <3>1. Head(t) = "up" /\ Tail(t) = <<>>
      BY <2>2
    <3>2. <<>> \in Stages(kind)
      BY <1>2 DEF Stages
    <3> QED
      BY <1>2, <3>1, <3>2 DEF Follows
  <2> QED
    BY <1>2, <2>1, <2>2 DEF Stages
<1>3. CASE kind = "stop"
  <2>1. CASE t = <<"stop">>
    <3>1. Head(t) = "stop" /\ Tail(t) = <<>>
      BY <2>1
    <3>2. <<>> \in Stages(kind)
      BY <1>3 DEF Stages
    <3> QED
      BY <1>3, <3>1, <3>2 DEF Follows
  <2> QED
    BY <1>3, <2>1 DEF Stages
<1>4. CASE kind = "delete"
  <2>1. CASE t = <<"down", "remove">>
    <3>1. Head(t) = "down" /\ Tail(t) = <<"remove">>
      BY <2>1
    <3>2. <<"remove">> \in Stages(kind)
      BY <1>4 DEF Stages
    <3>3. Head(<<"remove">>) = "remove"
      OBVIOUS
    <3>4. t # <<"fence">>
      BY <3>1
    <3> QED
      BY <1>4, <3>1, <3>2, <3>3, <3>4 DEF Follows
  <2>2. CASE t = <<"remove">>
    <3>1. Head(t) = "remove" /\ Tail(t) = <<>>
      BY <2>2
    <3>2. <<>> \in Stages(kind)
      BY <1>4 DEF Stages
    <3> QED
      BY <1>4, <3>1, <3>2 DEF Follows
  <2> QED
    BY <1>4, <2>1, <2>2 DEF Stages
<1>5. CASE kind = "resources"
  <2>1. CASE t = <<"inspect", "admit", "save", "stop", "recreate">>
    <3>1. Head(t) = "inspect" /\ Tail(t) = <<"admit", "save", "stop", "recreate">>
      BY <2>1
    <3>2. <<"admit", "save", "stop", "recreate">> \in Stages(kind)
      BY <1>5 DEF Stages
    <3>3. Head(<<"admit", "save", "stop", "recreate">>) = "admit"
      OBVIOUS
    <3>4. t # <<"fence">>
      BY <3>1
    <3> QED
      BY <1>5, <3>1, <3>2, <3>3, <3>4 DEF Follows
  <2>2. CASE t = <<"admit", "save", "stop", "recreate">>
    <3>1. Head(t) = "admit" /\ Tail(t) = <<"save", "stop", "recreate">>
      BY <2>2
    <3>2. <<"save", "stop", "recreate">> \in Stages(kind)
      BY <1>5 DEF Stages
    <3>3. Head(<<"save", "stop", "recreate">>) = "save"
      OBVIOUS
    <3>4. t # <<"fence">>
      BY <3>1
    <3> QED
      BY <1>5, <3>1, <3>2, <3>3, <3>4 DEF Follows
  <2>3. CASE t = <<"save", "stop", "recreate">>
    <3>1. Head(t) = "save" /\ Tail(t) = <<"stop", "recreate">>
      BY <2>3
    <3>2. <<"stop", "recreate">> \in Stages(kind)
      BY <1>5 DEF Stages
    <3>3. Head(<<"stop", "recreate">>) = "stop"
      OBVIOUS
    <3>4. t # <<"fence">>
      BY <3>1
    <3> QED
      BY <1>5, <3>1, <3>2, <3>3, <3>4 DEF Follows
  <2>4. CASE t = <<"stop", "recreate">>
    <3>1. Head(t) = "stop" /\ Tail(t) = <<"recreate">>
      BY <2>4
    <3>2. <<"recreate">> \in Stages(kind)
      BY <1>5 DEF Stages
    <3>3. Head(<<"recreate">>) = "recreate"
      OBVIOUS
    <3>4. t # <<"fence">>
      BY <3>1
    <3> QED
      BY <1>5, <3>1, <3>2, <3>3, <3>4 DEF Follows
  <2>5. CASE t = <<"recreate">>
    <3>1. Head(t) = "recreate" /\ Tail(t) = <<>>
      BY <2>5
    <3>2. <<>> \in Stages(kind)
      BY <1>5 DEF Stages
    <3> QED
      BY <1>5, <3>1, <3>2 DEF Follows
  <2>6. CASE t = <<"fence">>
    <3>1. Head(t) = "fence" /\ Tail(t) = <<>>
      BY <2>6
    <3>2. <<>> \in Stages(kind)
      BY <1>5 DEF Stages
    <3> QED
      BY <1>5, <3>1, <3>2 DEF Follows
  <2> QED
    BY <1>5, <2>1, <2>2, <2>3, <2>4, <2>5, <2>6 DEF Stages
<1>6. CASE kind = "restore"
  <2>1. CASE t = <<"stopwp", "updb", "up">>
    <3>1. Head(t) = "stopwp" /\ Tail(t) = <<"updb", "up">>
      BY <2>1
    <3>2. <<"updb", "up">> \in Stages(kind)
      BY <1>6 DEF Stages
    <3>3. Head(<<"updb", "up">>) = "updb"
      OBVIOUS
    <3>4. t # <<"fence">>
      BY <3>1
    <3> QED
      BY <1>6, <3>1, <3>2, <3>3, <3>4 DEF Follows
  <2>2. CASE t = <<"updb", "up">>
    <3>1. Head(t) = "updb" /\ Tail(t) = <<"up">>
      BY <2>2
    <3>2. <<"up">> \in Stages(kind)
      BY <1>6 DEF Stages
    <3>3. Head(<<"up">>) = "up"
      OBVIOUS
    <3>4. t # <<"fence">>
      BY <3>1
    <3> QED
      BY <1>6, <3>1, <3>2, <3>3, <3>4 DEF Follows
  <2>3. CASE t = <<"up">>
    <3>1. Head(t) = "up" /\ Tail(t) = <<>>
      BY <2>3
    <3>2. <<>> \in Stages(kind)
      BY <1>6 DEF Stages
    <3> QED
      BY <1>6, <3>1, <3>2 DEF Follows
  <2>4. CASE t = <<"fence">>
    <3>1. Head(t) = "fence" /\ Tail(t) = <<>>
      BY <2>4
    <3>2. <<>> \in Stages(kind)
      BY <1>6 DEF Stages
    <3> QED
      BY <1>6, <3>1, <3>2 DEF Follows
  <2> QED
    BY <1>6, <2>1, <2>2, <2>3, <2>4 DEF Stages
<1>7. CASE kind = "tool"
  <2>1. CASE t = <<"updb">>
    <3>1. Head(t) = "updb" /\ Tail(t) = <<>>
      BY <2>1
    <3>2. <<>> \in Stages(kind)
      BY <1>7 DEF Stages
    <3> QED
      BY <1>7, <3>1, <3>2 DEF Follows
  <2> QED
    BY <1>7, <2>1 DEF Stages
<1> QED
  BY <1>1, <1>2, <1>3, <1>4, <1>5, <1>6, <1>7 DEF Kinds

\* A task begins with its plan, and always may end.
LEMMA StageStarts ==
    ASSUME NEW kind \in Kinds
    PROVE  /\ Plan(kind) \in Stages(kind) /\ Plan(kind) # <<>>
           /\ Head(Plan(kind)) \notin {"save", "remove"}
           /\ Head(Plan(kind)) = "admit" => kind \in {"create", "start"}
           /\ <<>> \in Stages(kind)
           /\ kind \in Fenced => <<"fence">> \in Stages(kind)
           /\ <<>> \in AllStages
           /\ \A t \in Stages(kind) : t \in AllStages
<1>0. \A t \in Stages(kind) : t \in AllStages
  BY DEF AllStages
<1>1. CASE kind = "create"
  <2>1. Plan(kind) = <<"admit", "save", "up">>
    BY <1>1 DEF Plan
  <2>2. Head(Plan(kind)) = "admit" /\ Plan(kind) # <<>>
    BY <2>1
  <2>3. <<"admit", "save", "up">> \in Stages(kind)
    BY <1>1 DEF Stages
  <2>4. <<>> \in Stages(kind)
    BY <1>1 DEF Stages
  <2>5. kind \notin Fenced
    BY <1>1 DEF Fenced
  <2> QED
    BY <1>0, <1>1, <2>1, <2>2, <2>3, <2>4, <2>5
<1>2. CASE kind = "start"
  <2>1. Plan(kind) = <<"admit", "up">>
    BY <1>2 DEF Plan
  <2>2. Head(Plan(kind)) = "admit" /\ Plan(kind) # <<>>
    BY <2>1
  <2>3. <<"admit", "up">> \in Stages(kind)
    BY <1>2 DEF Stages
  <2>4. <<>> \in Stages(kind)
    BY <1>2 DEF Stages
  <2>5. kind \notin Fenced
    BY <1>2 DEF Fenced
  <2> QED
    BY <1>0, <1>2, <2>1, <2>2, <2>3, <2>4, <2>5
<1>3. CASE kind = "stop"
  <2>1. Plan(kind) = <<"stop">>
    BY <1>3 DEF Plan
  <2>2. Head(Plan(kind)) = "stop" /\ Plan(kind) # <<>>
    BY <2>1
  <2>3. <<"stop">> \in Stages(kind)
    BY <1>3 DEF Stages
  <2>4. <<>> \in Stages(kind)
    BY <1>3 DEF Stages
  <2>5. kind \notin Fenced
    BY <1>3 DEF Fenced
  <2> QED
    BY <1>0, <1>3, <2>1, <2>2, <2>3, <2>4, <2>5
<1>4. CASE kind = "delete"
  <2>1. Plan(kind) = <<"down", "remove">>
    BY <1>4 DEF Plan
  <2>2. Head(Plan(kind)) = "down" /\ Plan(kind) # <<>>
    BY <2>1
  <2>3. <<"down", "remove">> \in Stages(kind)
    BY <1>4 DEF Stages
  <2>4. <<>> \in Stages(kind)
    BY <1>4 DEF Stages
  <2>5. kind \notin Fenced
    BY <1>4 DEF Fenced
  <2> QED
    BY <1>0, <1>4, <2>1, <2>2, <2>3, <2>4, <2>5
<1>5. CASE kind = "resources"
  <2>1. Plan(kind) = <<"inspect", "admit", "save", "stop", "recreate">>
    BY <1>5 DEF Plan
  <2>2. Head(Plan(kind)) = "inspect" /\ Plan(kind) # <<>>
    BY <2>1
  <2>3. <<"inspect", "admit", "save", "stop", "recreate">> \in Stages(kind)
    BY <1>5 DEF Stages
  <2>4. <<>> \in Stages(kind)
    BY <1>5 DEF Stages
  <2>5. <<"fence">> \in Stages(kind)
    BY <1>5 DEF Stages
  <2> QED
    BY <1>0, <1>5, <2>1, <2>2, <2>3, <2>4, <2>5
<1>6. CASE kind = "restore"
  <2>1. Plan(kind) = <<"stopwp", "updb", "up">>
    BY <1>6 DEF Plan
  <2>2. Head(Plan(kind)) = "stopwp" /\ Plan(kind) # <<>>
    BY <2>1
  <2>3. <<"stopwp", "updb", "up">> \in Stages(kind)
    BY <1>6 DEF Stages
  <2>4. <<>> \in Stages(kind)
    BY <1>6 DEF Stages
  <2>5. <<"fence">> \in Stages(kind)
    BY <1>6 DEF Stages
  <2> QED
    BY <1>0, <1>6, <2>1, <2>2, <2>3, <2>4, <2>5
<1>7. CASE kind = "tool"
  <2>1. Plan(kind) = <<"updb">>
    BY <1>7 DEF Plan
  <2>2. Head(Plan(kind)) = "updb" /\ Plan(kind) # <<>>
    BY <2>1
  <2>3. <<"updb">> \in Stages(kind)
    BY <1>7 DEF Stages
  <2>4. <<>> \in Stages(kind)
    BY <1>7 DEF Stages
  <2>5. kind \notin Fenced
    BY <1>7 DEF Fenced
  <2> QED
    BY <1>0, <1>7, <2>1, <2>2, <2>3, <2>4, <2>5
<1> QED
  BY <1>1, <1>2, <1>3, <1>4, <1>5, <1>6, <1>7 DEF Kinds

\* A task that goes on is the same task, one step further.
LEMMA Proceeds ==
    ASSUME WorkTyped, task # NoTask, task.todo # <<>>, UNCHANGED <<pending, other>>,
           \/ task' = [task EXCEPT !.todo = Tail(@)]
           \/ \E w \in BOOLEAN : task' = [task EXCEPT !.todo = Tail(@), !.was = w]
    PROVE  /\ WorkTyped' /\ task' # NoTask
           /\ task'.kind = task.kind /\ task'.site = task.site
           /\ task'.limits = task.limits
           /\ task.kind \in Kinds /\ task.site \in Sites /\ task.limits \in Limits
           /\ Follows(task.kind, task.todo)
           /\ At("save")' => At("admit")
           /\ At("admit")' => At("inspect")
           /\ At("remove")' => At("down")
           /\ task'.todo \notin {<<>>, <<"fence">>} => task.todo \notin {<<>>, <<"fence">>}
<1>1. task \in Work /\ task.todo \in Stages(task.kind)
  BY DEF WorkTyped
<1>2. task.kind \in Kinds /\ task.site \in Sites /\ task.limits \in Limits
  BY <1>1 DEF Work
<1>3. Follows(task.kind, task.todo)
  BY <1>1, <1>2, StageSteps
<1>4. Tail(task.todo) \in Stages(task.kind) /\ Tail(task.todo) \in AllStages
  BY <1>2, <1>3, StageStarts DEF Follows
<1>5. /\ task' \in Work /\ task'.todo = Tail(task.todo)
      /\ task'.kind = task.kind /\ task'.site = task.site /\ task'.limits = task.limits
  BY <1>1, <1>4 DEF Work
<1>6. task' # NoTask
  BY <1>5 DEF Work, NoTask, Kinds
<1>7. WorkTyped'
  BY <1>4, <1>5 DEF WorkTyped
<1>8. /\ At("save")' => At("admit")
      /\ At("admit")' => At("inspect")
      /\ At("remove")' => At("down")
  BY <1>3, <1>5 DEF At, Follows
<1>9. task'.todo \notin {<<>>, <<"fence">>} => task.todo \notin {<<>>, <<"fence">>}
  BY <1>3, <1>5 DEF Follows
<1> QED
  BY <1>2, <1>3, <1>5, <1>6, <1>7, <1>8, <1>9

\* A task that has failed changes nothing any more.
LEMMA Fails ==
    ASSUME WorkTyped, task # NoTask, NEW step, Fail(step), UNCHANGED other
    PROVE  WorkTyped' /\ task'.todo \in {<<>>, <<"fence">>}
<1>1. task \in Work /\ task.todo \in Stages(task.kind) /\ task.kind \in Kinds
  BY DEF WorkTyped, Work
<1> DEFINE end == IF task.kind \in Fenced /\ step \notin {"inspect", "admit"}
                  THEN <<"fence">> ELSE <<>>
<1>2. end \in Stages(task.kind) /\ end \in AllStages /\ end \in {<<>>, <<"fence">>}
  BY <1>1, StageStarts
<1>3. task' = [task EXCEPT !.ok = FALSE, !.todo = end] /\ UNCHANGED pending
  BY DEF Fail
<1> HIDE DEF end
<1>4. task' \in Work /\ task'.todo = end /\ task'.kind = task.kind
  BY <1>1, <1>2, <1>3 DEF Work
<1> QED
  BY <1>2, <1>3, <1>4 DEF WorkTyped

\* Nothing is asked of the state when no task is left or when it has failed.
LEMMA Idle ==
    ASSUME task' = NoTask \/ task'.todo \in {<<>>, <<"fence">>}
    PROVE  TaskInv'
<1>1. Head(<<"fence">>) = "fence"
  OBVIOUS
<1>2. ~At("save")' /\ ~At("admit")' /\ ~At("remove")'
  BY <1>1 DEF At
<1> QED
  BY <1>2 DEF TaskInv, Admitted, SaveReady, ChangeSound, RemoveReady

\* A task that goes on from a step after which nothing is saved or removed.
LEMMA Onward ==
    ASSUME WorkTyped, TaskInv, task # NoTask, task.todo # <<>>,
           UNCHANGED <<pending, other, failed>>, NEW step, At(step),
           step \notin {"inspect", "admit", "down"}, task' = [task EXCEPT !.todo = Tail(@)]
    PROVE  WorkTyped' /\ TaskInv'
<1>1. /\ WorkTyped' /\ task' # NoTask
      /\ task'.kind = task.kind /\ task'.site = task.site
      /\ At("save")' => At("admit")
      /\ At("admit")' => At("inspect")
      /\ At("remove")' => At("down")
      /\ task'.todo \notin {<<>>, <<"fence">>} => task.todo \notin {<<>>, <<"fence">>}
  BY Proceeds
<1>2. ~At("save")' /\ ~At("admit")' /\ ~At("remove")'
  BY <1>1 DEF At
<1>3. ChangeSound'
  BY <1>1 DEF TaskInv, ChangeSound
<1> QED
  BY <1>1, <1>2, <1>3 DEF TaskInv, Admitted, SaveReady, RemoveReady

-----------------------------------------------------------------------------
(* What happens to the sites *)

\* Sums that count no container with more than before still fit.
LEMMA Shrinks ==
    ASSUME SitesTyped, SitesTyped', AllFit,
           \A s \in Sites, c \in Services, d \in Dimensions :
               Allocated(s, c, d)' <= Allocated(s, c, d)
    PROVE  AllFit'
<1> SUFFICES ASSUME NEW d \in Dimensions
             PROVE  HostCapacity(Sites, d)' <= Budget(d)
  BY DEF AllFit, Budget
<1>1. PICK f, g : f = Amounts(d) /\ g = Amounts(d)'
  OBVIOUS
<1>2. \A x \in Containers : f[x] \in Nat
  BY <1>1, AmountsAre
<1>3. ASSUME NEW x \in Containers
      PROVE  g[x] \in Nat /\ g[x] <= f[x]
  <2>1. PICK s \in Sites, c \in Services : x = <<s, c>>
    BY DEF Containers
  <2>2. f[x] = Allocated(s, c, d)
    BY <1>1, <2>1, AmountsAre
  <2>3. g[x] = Allocated(s, c, d)'
    BY <1>1, <2>1 DEF Amounts, Containers
  <2>4. config'[s] \in Limits /\ made'[s][c] \in Limits
    BY DEF SitesTyped
  <2>5. config'[s][d] \in Nat /\ made'[s][c][d] \in Nat
    BY <2>4, LimitsNat
  <2>6. g[x] \in Nat
    BY <2>3, <2>5, MaxTwo DEF Allocated
  <2> QED
    BY <2>2, <2>3, <2>6
<1>4. SumFunctionOnSet(g, Containers) <= SumFunctionOnSet(f, Containers)
  BY <1>2, <1>3, ContainersFinite, SumMonotonic
<1>5. SumFunctionOnSet(f, Containers) \in Nat /\ SumFunctionOnSet(g, Containers) \in Nat
  BY <1>2, <1>3, ContainersFinite, SumNat
<1>6. HostCapacity(Sites, d) = SumFunctionOnSet(f, Containers)
  BY <1>1, AmountsAre
<1>7. HostCapacity(Sites, d)' = SumFunctionOnSet(g, Containers)
  BY <1>1 DEF HostCapacity, Amounts, Containers
<1> QED
  BY <1>4, <1>5, <1>6, <1>7, BudgetNat DEF AllFit

\* The numbers behind the amounts, before and after a step.
LEMMA AllocatedAfter ==
    ASSUME SitesTyped', NEW s \in Sites, NEW c \in Services, NEW d \in Dimensions
    PROVE  /\ config'[s][d] \in Nat /\ made'[s][c][d] \in Nat
           /\ Allocated(s, c, d)' = IF config'[s][d] >= made'[s][c][d] THEN config'[s][d]
                                    ELSE made'[s][c][d]
<1>1. config'[s] \in Limits /\ made'[s][c] \in Limits
  BY DEF SitesTyped
<1>2. config'[s][d] \in Nat /\ made'[s][c][d] \in Nat
  BY <1>1, LimitsNat
<1> QED
  BY <1>2, MaxTwo DEF Allocated

\* Nothing has no limits.
LEMMA NoneIsZero ==
    /\ None \in Limits /\ \A d \in Dimensions : None[d] = 0
    /\ ~Valid(None)
BY DEF None, Limits, Dimensions, Valid

\* Containers that are made again, or removed, are counted with no more.
LEMMA Remade ==
    ASSUME SiteInv, UNCHANGED <<config, record, failed>>,
           made' \in [Sites -> [Services -> Limits]],
           \A s \in Sites, c \in Services : made'[s][c] \in {made[s][c], config[s], None}
    PROVE  SiteInv'
<1> USE DEF SiteInv
<1>1. SitesTyped'
  BY DEF SitesTyped
<1>2. ASSUME NEW s \in Sites, NEW c \in Services, NEW d \in Dimensions
      PROVE  Allocated(s, c, d)' <= Allocated(s, c, d)
  <2>1. config'[s] = config[s] /\ made'[s][c] \in {made[s][c], config[s], None}
    OBVIOUS
  <2>2. /\ config[s][d] \in Nat /\ made[s][c][d] \in Nat
        /\ Allocated(s, c, d) = IF config[s][d] >= made[s][c][d] THEN config[s][d]
                                ELSE made[s][c][d]
    BY AmountsAre
  <2>3. Allocated(s, c, d)' = IF config[s][d] >= made'[s][c][d] THEN config[s][d]
                              ELSE made'[s][c][d]
    BY <1>1, <2>1, AllocatedAfter
  <2>4. made'[s][c][d] \in {made[s][c][d], config[s][d], 0}
    BY <2>1, NoneIsZero
  <2> QED
    BY <2>2, <2>3, <2>4
<1>3. AllFit'
  BY <1>1, <1>2, Shrinks
<1>4. ConfigSound'
  BY DEF ConfigSound
<1>5. FailedSound'
  <2> SUFFICES ASSUME NEW s \in failed
               PROVE  /\ config[s] \in {None, record[s]}
                      /\ \A c \in Services : made'[s][c] \in {None, record[s]}
    BY DEF FailedSound
  <2>1. s \in Sites
    BY DEF SitesTyped
  <2>2. config[s] \in {None, record[s]} /\ \A c \in Services : made[s][c] \in {None, record[s]}
    BY DEF FailedSound
  <2> QED
    BY <2>1, <2>2
<1> QED
  BY <1>1, <1>3, <1>4, <1>5

\* Nothing happens to the sites.
LEMMA SitesKept ==
    ASSUME SiteInv, UNCHANGED <<config, made, record, failed>>
    PROVE  SiteInv'
<1>1. made' \in [Sites -> [Services -> Limits]]
  BY DEF SiteInv, SitesTyped
<1> QED
  BY <1>1, Remade

\* The amounts depend on the configurations and the containers only.
LEMMA CapacityKept ==
    ASSUME UNCHANGED <<config, made>>, NEW S, NEW d
    PROVE  SumFunctionOnSet([x \in Sites \X Services |-> Allocated(x[1], x[2], d)'], S)
             = SumFunctionOnSet([x \in Sites \X Services |-> Allocated(x[1], x[2], d)], S)
<1>1. \A x \in Sites \X Services : Allocated(x[1], x[2], d)' = Allocated(x[1], x[2], d)
  BY DEF Allocated
<1>2. [x \in Sites \X Services |-> Allocated(x[1], x[2], d)']
        = [x \in Sites \X Services |-> Allocated(x[1], x[2], d)]
  BY <1>1
<1> QED
  BY <1>2

\* A site whose containers are gone loses its configuration.
LEMMA Removed ==
    ASSUME SiteInv, NEW s \in Sites, config' = [config EXCEPT ![s] = None],
           \A c \in Services : made[s][c] = None, UNCHANGED <<made, record, failed>>
    PROVE  SiteInv'
<1> USE DEF SiteInv
<1>1. SitesTyped'
  BY NoneIsZero DEF SitesTyped
<1>2. config'[s] = None /\ \A t \in Sites : t # s => config'[t] = config[t]
  BY DEF SitesTyped
<1>3. ASSUME NEW t \in Sites, NEW c \in Services, NEW d \in Dimensions
      PROVE  Allocated(t, c, d)' <= Allocated(t, c, d)
  <2>1. /\ config[t][d] \in Nat /\ made[t][c][d] \in Nat
        /\ Allocated(t, c, d) = IF config[t][d] >= made[t][c][d] THEN config[t][d]
                                ELSE made[t][c][d]
    BY AmountsAre
  <2>2. Allocated(t, c, d)' = IF config'[t][d] >= made[t][c][d] THEN config'[t][d]
                              ELSE made[t][c][d]
    BY <1>1, AllocatedAfter
  <2>3. config'[t][d] \in {config[t][d], 0}
    BY <1>2, NoneIsZero
  <2> QED
    BY <2>1, <2>2, <2>3
<1>4. AllFit'
  BY <1>1, <1>3, Shrinks
<1>5. ConfigSound'
  BY <1>2 DEF ConfigSound
<1>6. FailedSound'
  <2> SUFFICES ASSUME NEW t \in failed
               PROVE  /\ config'[t] \in {None, record[t]}
                      /\ \A c \in Services : made[t][c] \in {None, record[t]}
    BY DEF FailedSound
  <2>1. t \in Sites
    BY DEF SitesTyped
  <2> QED
    BY <1>2, <2>1 DEF FailedSound
<1> QED
  BY <1>1, <1>4, <1>5, <1>6

\* The configuration that was admitted is saved: of the creation of a site whose
\* containers have no other limits, or of a change, after which each container is
\* counted with the larger of the old and the new limits.
LEMMA Saved ==
    ASSUME SiteInv, NEW s \in Sites, NEW r \in Limits, config' = [config EXCEPT ![s] = r],
           UNCHANGED <<made, record, failed>>,
           Valid(r),
           \A d \in Dimensions : 2 * r[d] + HostCapacity(Sites \ {s}, d) <= Budget(d),
           \/ s \in failed /\ r = record[s]
           \/ s \notin failed /\ \A c \in Services : made[s][c] = config[s]
    PROVE  SiteInv'
<1> USE DEF SiteInv
<1>1. SitesTyped'
  BY DEF SitesTyped
<1>2. config'[s] = r /\ \A t \in Sites : t # s => config'[t] = config[t]
  BY DEF SitesTyped
<1>3. ASSUME NEW d \in Dimensions
      PROVE  HostCapacity(Sites, d)' <= Budget(d)
  <2>1. PICK f, g : f = Amounts(d) /\ g = Amounts(d)'
    OBVIOUS
  <2>2. \A x \in Containers : f[x] \in Nat
    BY <2>1, AmountsAre
  <2>3. \A t \in Sites, c \in Services :
           f[<<t, c>>] = Allocated(t, c, d) /\ g[<<t, c>>] = Allocated(t, c, d)'
    BY <2>1 DEF Amounts, Containers
  <2>4. \A x \in Containers : \E t \in Sites, c \in Services : x = <<t, c>>
    BY DEF Containers
  <2>5. \A t \in Sites, c \in Services : Allocated(t, c, d)' \in Nat
    BY <1>1, AllocatedAfter
  <2>6. \A x \in Containers : g[x] \in Nat
    BY <2>3, <2>4, <2>5
  <2>7. \A x \in Others(s) : f[x] \in Nat /\ g[x] = f[x]
    <3> SUFFICES ASSUME NEW x \in Others(s) PROVE f[x] \in Nat /\ g[x] = f[x]
      OBVIOUS
    <3>1. x \in Containers
      BY ContainersFinite
    <3>2. PICK t \in Sites, c \in Services : x = <<t, c>> /\ t # s
      BY DEF Others
    <3>3. Allocated(t, c, d)' = Allocated(t, c, d)
      BY <1>2, <3>2 DEF Allocated
    <3> QED
      BY <2>2, <2>3, <3>1, <3>2, <3>3
  <2>8. SumFunctionOnSet(g, Others(s)) = SumFunctionOnSet(f, Others(s))
    BY <2>7, ContainersFinite, SumSame
  <2>9. /\ SumFunctionOnSet(f, Containers)
             = f[<<s, "wp">>] + f[<<s, "db">>] + SumFunctionOnSet(f, Others(s))
        /\ f[<<s, "wp">>] \in Nat /\ f[<<s, "db">>] \in Nat
        /\ SumFunctionOnSet(f, Others(s)) \in Nat
    BY <2>2, TakeSite
  <2>10. /\ SumFunctionOnSet(g, Containers)
              = g[<<s, "wp">>] + g[<<s, "db">>] + SumFunctionOnSet(f, Others(s))
         /\ g[<<s, "wp">>] \in Nat /\ g[<<s, "db">>] \in Nat
    BY <2>6, <2>8, TakeSite
  <2>11. 2 * r[d] + SumFunctionOnSet(f, Others(s)) <= Budget(d)
    BY <2>1, AmountsAre
  <2>12. SumFunctionOnSet(f, Containers) <= Budget(d)
    BY <2>1, AmountsAre DEF AllFit
  <2>13. r[d] \in Nat /\ Budget(d) \in Nat
    BY LimitsNat, BudgetNat
  <2>14. \/ \A c \in Services : g[<<s, c>>] = r[d]
         \/ \A c \in Services : g[<<s, c>>] = f[<<s, c>>]
    <3>1. ASSUME NEW c \in Services
          PROVE  /\ config[s][d] \in Nat /\ made[s][c][d] \in Nat
                 /\ f[<<s, c>>] = IF config[s][d] >= made[s][c][d] THEN config[s][d]
                                  ELSE made[s][c][d]
                 /\ g[<<s, c>>] = IF r[d] >= made[s][c][d] THEN r[d] ELSE made[s][c][d]
      <4>1. /\ config[s][d] \in Nat /\ made[s][c][d] \in Nat
            /\ f[<<s, c>>] = IF config[s][d] >= made[s][c][d] THEN config[s][d]
                             ELSE made[s][c][d]
        BY <2>3, AmountsAre
      <4>2. g[<<s, c>>] = IF r[d] >= made[s][c][d] THEN r[d] ELSE made[s][c][d]
        BY <1>1, <1>2, <2>3, AllocatedAfter
      <4> QED
        BY <4>1, <4>2
    <3>2. CASE s \in failed /\ r = record[s]
      <4>1. \A c \in Services : made[s][c] \in {None, r}
        BY <3>2 DEF FailedSound
      <4>2. \A c \in Services : made[s][c][d] \in {0, r[d]}
        BY <4>1, NoneIsZero
      <4> QED
        BY <2>13, <3>1, <4>2
    <3>3. CASE \A c \in Services : made[s][c] = config[s]
      <4>1. \A c \in Services : made[s][c][d] = config[s][d]
        BY <3>3
      <4>2. CASE r[d] >= config[s][d]
        BY <2>13, <3>1, <4>1, <4>2
      <4>3. CASE ~(r[d] >= config[s][d])
        BY <2>13, <3>1, <4>1, <4>3
      <4> QED
        BY <4>2, <4>3
    <3> QED
      BY <3>2, <3>3
  <2>15. "wp" \in Services /\ "db" \in Services
    BY DEF Services
  <2>16. SumFunctionOnSet(g, Containers) <= Budget(d)
    <3>1. CASE \A c \in Services : g[<<s, c>>] = r[d]
      BY <2>9, <2>10, <2>11, <2>13, <2>15, <3>1
    <3>2. CASE \A c \in Services : g[<<s, c>>] = f[<<s, c>>]
      BY <2>9, <2>10, <2>12, <2>15, <3>2
    <3> QED
      BY <2>14, <3>1, <3>2
  <2>17. HostCapacity(Sites, d)' = SumFunctionOnSet(g, Containers)
    BY <2>1 DEF HostCapacity, Amounts, Containers
  <2> QED
    BY <2>16, <2>17
<1>4. AllFit'
  BY <1>3 DEF AllFit, Budget
<1>5. ConfigSound'
  <2>1. r # None
    BY NoneIsZero
  <2> QED
    BY <1>2, <2>1 DEF ConfigSound
<1>6. FailedSound'
  <2> SUFFICES ASSUME NEW t \in failed
               PROVE  /\ config'[t] \in {None, record[t]}
                      /\ \A c \in Services : made[t][c] \in {None, record[t]}
    BY DEF FailedSound
  <2>1. t \in Sites
    BY DEF SitesTyped
  <2> QED
    BY <1>2, <2>1 DEF FailedSound
<1> QED
  BY <1>1, <1>4, <1>5, <1>6

-----------------------------------------------------------------------------
(* The invariant holds in every step *)

LEMMA Initially ==
    ASSUME CapacityInit
    PROVE  CapInv
<1> USE DEF CapacityInit
<1>1. SitesTyped
  BY NoneIsZero DEF SitesTyped
<1>2. WorkTyped
  BY DEF WorkTyped, Kinds
<1>3. ConfigSound /\ FailedSound
  BY DEF ConfigSound, FailedSound
<1>4. ASSUME NEW d \in Dimensions
      PROVE  HostCapacity(Sites, d) <= Budget(d)
  <2>1. PICK f, g : f = Amounts(d) /\ g = [x \in Containers |-> 0]
    OBVIOUS
  <2>2. \A x \in Containers : f[x] = 0
    <3> SUFFICES ASSUME NEW x \in Containers PROVE f[x] = 0
      OBVIOUS
    <3>1. PICK s \in Sites, c \in Services : x = <<s, c>>
      BY DEF Containers
    <3>2. config[s] = None /\ made[s][c] = None
      OBVIOUS
    <3>3. config[s][d] = 0 /\ made[s][c][d] = 0
      BY <3>2, NoneIsZero
    <3>4. Allocated(s, c, d) = 0
      BY <1>1, <3>3, AmountsAre
    <3> QED
      BY <1>1, <2>1, <3>1, <3>4, AmountsAre
  <2>3. SumFunctionOnSet(f, Containers) = 0
    <3> DEFINE T == {S \in SUBSET Containers : SumFunctionOnSet(f, S) = 0}
    <3>1. ASSUME NEW S \in SUBSET Containers, \A x \in S : S \ {x} \in T
          PROVE  S \in T
      <4>1. IsFiniteSet(S)
        BY ContainersFinite, FS_Subset
      <4>2. CASE S = {}
        BY <4>1, <4>2, SumStep
      <4>3. CASE S # {}
        <5>1. PICK x \in S : SumFunctionOnSet(f, S) = f[x] + SumFunctionOnSet(f, S \ {x})
          BY <4>1, <4>3, SumStep
        <5>2. f[x] = 0 /\ SumFunctionOnSet(f, S \ {x}) = 0
          BY <2>2, <3>1
        <5> QED
          BY <5>1, <5>2
      <4> QED
        BY <4>2, <4>3
    <3>2. Containers \in T
      <4> HIDE DEF T
      <4> QED
        BY <3>1, ContainersFinite, SubsetInduction
    <3> QED
      BY <3>2
  <2>4. HostCapacity(Sites, d) = 0
    BY <1>1, <2>1, <2>3, AmountsAre
  <2> QED
    BY <2>4, BudgetNat
<1>5. TaskInv
  BY DEF TaskInv, Admitted, SaveReady, ChangeSound, RemoveReady, At
<1> QED
  BY <1>1, <1>2, <1>3, <1>4, <1>5 DEF CapInv, SiteInv, AllFit

\* A request begins: nothing is admitted yet.
LEMMA Begins ==
    ASSUME CapInv, NEW kind \in Kinds, NEW s \in Sites, NEW r \in Limits, Begin(kind, s, r),
           SiteInv',
           kind = "create" => s \in failed' /\ r = record'[s],
           kind = "start" => r = config[s],
           kind = "resources" => s \notin failed'
    PROVE  CapInv'
<1>1. /\ task' = [kind |-> kind, site |-> s, limits |-> r, todo |-> Plan(kind),
                  was |-> FALSE, ok |-> TRUE]
      /\ UNCHANGED <<config, made, other>>
      /\ pending' = IF kind = "tool" THEN pending ELSE [pending EXCEPT ![s] = kind]
  BY DEF Begin, siteVars, loadVars
<1>2. /\ Plan(kind) \in Stages(kind) /\ Plan(kind) \in AllStages /\ Plan(kind) # <<>>
      /\ Head(Plan(kind)) \notin {"save", "remove"}
      /\ Head(Plan(kind)) = "admit" => kind \in {"create", "start"}
  BY StageStarts
<1>3. task' \in Work /\ task'.todo \in Stages(task'.kind)
  BY <1>1, <1>2 DEF Work
<1>4. WorkTyped'
  <2>1. pending' \in [Sites -> (Kinds \ {"tool"}) \cup {"none"}]
    BY <1>1 DEF CapInv, WorkTyped
  <2> QED
    BY <1>1, <1>3, <2>1 DEF CapInv, WorkTyped
<1>5. /\ task'.kind = kind /\ task'.site = s /\ task'.limits = r /\ task'.todo = Plan(kind)
  BY <1>1
<1>6. ~At("save")' /\ ~At("remove")' /\ (At("admit")' => kind \in {"create", "start"})
  BY <1>2, <1>5 DEF At
<1>7. SaveReady'
  BY <1>1, <1>5, <1>6 DEF SaveReady
<1>8. ChangeSound'
  BY <1>5 DEF ChangeSound
<1> QED
  BY <1>4, <1>6, <1>7, <1>8 DEF CapInv, TaskInv, Admitted, RemoveReady

LEMMA NewSiteKeeps ==
    ASSUME CapInv, NEW s \in Sites, NEW r \in Resources, NewSite(s, r)
    PROVE  CapInv'
<1>1. /\ config[s] = None /\ record' = [record EXCEPT ![s] = r] /\ failed' = failed \cup {s}
      /\ Begin("create", s, r) /\ UNCHANGED <<config, made>>
  BY DEF NewSite, Begin, siteVars
<1>2. r \in Limits /\ "create" \in Kinds
  BY DEF Limits, Kinds
<1>3. SitesTyped'
  BY <1>1, <1>2 DEF CapInv, SiteInv, SitesTyped
<1>4. \A c \in Services : made[s][c] = None
  BY <1>1 DEF CapInv, SiteInv, ConfigSound
<1>5. AllFit' /\ ConfigSound'
  <2>1. SiteInv => AllFit /\ ConfigSound /\ SitesTyped
    BY DEF SiteInv
  <2>2. \A t \in Sites, c \in Services, d \in Dimensions :
           Allocated(t, c, d)' <= Allocated(t, c, d)
    <3> SUFFICES ASSUME NEW t \in Sites, NEW c \in Services, NEW d \in Dimensions
                 PROVE  Allocated(t, c, d)' <= Allocated(t, c, d)
      OBVIOUS
    <3>1. Allocated(t, c, d)' = Allocated(t, c, d)
      BY <1>1 DEF Allocated
    <3>2. Allocated(t, c, d) \in Nat
      BY <2>1, AmountsAre DEF CapInv
    <3> QED
      BY <3>1, <3>2
  <2>3. AllFit'
    BY <1>3, <2>1, <2>2, Shrinks DEF CapInv
  <2> QED
    BY <1>1, <2>1, <2>3 DEF CapInv, ConfigSound
<1>6. FailedSound'
  <2> SUFFICES ASSUME NEW t \in failed'
               PROVE  /\ config[t] \in {None, record'[t]}
                      /\ \A c \in Services : made[t][c] \in {None, record'[t]}
    BY <1>1 DEF FailedSound
  <2>1. CASE t = s
    BY <1>1, <1>4, <2>1
  <2>2. CASE t # s
    <3>1. t \in failed /\ t \in Sites /\ record'[t] = record[t]
      BY <1>1, <2>2 DEF CapInv, SiteInv, SitesTyped
    <3> QED
      BY <3>1 DEF CapInv, SiteInv, FailedSound
  <2> QED
    BY <2>1, <2>2
<1>7. record'[s] = r /\ s \in failed'
  BY <1>1 DEF CapInv, SiteInv, SitesTyped
<1> QED
  BY <1>1, <1>2, <1>3, <1>5, <1>6, <1>7, Begins DEF SiteInv

\* The other requests leave the panel's records alone.
LEMMA RequestKeeps ==
    ASSUME CapInv, NEW kind \in Kinds, NEW s \in Sites, NEW r \in Limits, Begin(kind, s, r),
           UNCHANGED panelVars,
           kind = "create" => s \in failed /\ r = record[s],
           kind = "start" => r = config[s],
           kind = "resources" => s \notin failed
    PROVE  CapInv'
<1>1. UNCHANGED <<config, made, record, failed>>
  BY DEF Begin, siteVars, panelVars
<1>2. SiteInv'
  BY <1>1, SitesKept DEF CapInv
<1> QED
  BY <1>1, <1>2, Begins

LEMMA RequestsKeep ==
    ASSUME CapInv, NEW s \in Sites
    PROVE  /\ Retry(s) => CapInv'
           /\ \A r \in Resources : SaveResources(s, r) => CapInv'
           /\ \A kind \in {"start", "stop", "delete", "restore", "tool"} :
                 Act(kind, s) => CapInv'
<1>1. record[s] \in Limits /\ config[s] \in Limits /\ Resources \subseteq Limits
  BY DEF CapInv, SiteInv, SitesTyped, Limits
<1>2. {"create", "resources", "start", "stop", "delete", "restore", "tool"} \subseteq Kinds
  BY DEF Kinds
<1>3. Retry(s) => CapInv'
  BY <1>1, <1>2, RequestKeeps DEF Retry
<1>4. ASSUME NEW r \in Resources, SaveResources(s, r)
      PROVE  CapInv'
  BY <1>1, <1>2, <1>4, RequestKeeps DEF SaveResources
<1>5. ASSUME NEW kind \in {"start", "stop", "delete", "restore", "tool"}, Act(kind, s)
      PROVE  CapInv'
  BY <1>1, <1>2, <1>5, RequestKeeps DEF Act
<1> QED
  BY <1>3, <1>4, <1>5

\* A step that fails leaves the sites sound if what it did to them is.
LEMMA FailureKeeps ==
    ASSUME CapInv, task # NoTask, NEW step, Fail(step), UNCHANGED other, SiteInv'
    PROVE  CapInv'
BY Fails, Idle DEF CapInv

\* So does one that succeeds, unless something is to be saved or removed next.
LEMMA SuccessKeeps ==
    ASSUME CapInv, NEW step, At(step), step \notin {"inspect", "admit", "down"}, Proceed,
           UNCHANGED <<other, failed>>, SiteInv'
    PROVE  CapInv'
BY Onward DEF CapInv, Proceed, At

LEMMA InspectKeeps ==
    ASSUME CapInv, Inspect
    PROVE  CapInv'
<1>1. /\ At("inspect") /\ task # NoTask /\ task.todo # <<>>
      /\ UNCHANGED <<config, made, record, failed, other>>
  BY DEF Inspect, Elsewhere, siteVars, panelVars, loadVars, At
<1>2. SiteInv'
  BY <1>1, SitesKept DEF CapInv
<1>3. CASE Fail("inspect")
  BY <1>1, <1>2, <1>3, FailureKeeps
<1>4. CASE /\ \A c \in Services : made[task.site][c] = config[task.site]
           /\ task' = [task EXCEPT !.todo = Tail(@), !.was = running[task.site] # {}]
           /\ UNCHANGED pending
  <2>1. PICK w \in BOOLEAN : w = (running[task.site] # {})
    OBVIOUS
  <2>2. /\ WorkTyped' /\ task' # NoTask
        /\ task'.kind = task.kind /\ task'.site = task.site
        /\ Follows(task.kind, task.todo)
        /\ At("save")' => At("admit")
        /\ At("remove")' => At("down")
        /\ task'.todo \notin {<<>>, <<"fence">>} => task.todo \notin {<<>>, <<"fence">>}
    BY <1>1, <1>4, <2>1, Proceeds DEF CapInv
  <2>3. ~At("save")' /\ ~At("remove")' /\ task.kind = "resources"
    BY <1>1, <2>2 DEF At, Follows
  <2>4. SaveReady'
    BY <1>1, <1>4, <2>2, <2>3 DEF SaveReady
  <2>5. ChangeSound'
    BY <1>1, <2>2 DEF CapInv, TaskInv, ChangeSound
  <2> QED
    BY <1>2, <2>2, <2>3, <2>4, <2>5 DEF CapInv, TaskInv, Admitted, RemoveReady
<1> QED
  BY <1>3, <1>4 DEF Inspect

\* What is used by others, and the reserve, only make the budget smaller.
LEMMA CheckAdmits ==
    ASSUME CapInv, NEW s \in Sites, NEW r \in Limits, Check(s, r)
    PROVE  /\ Valid(r)
           /\ \A d \in Dimensions : 2 * r[d] + HostCapacity(Sites \ {s}, d) <= Budget(d)
<1>1. Valid(r)
  BY DEF Check
<1>2. ASSUME NEW d \in Dimensions
      PROVE  2 * r[d] + HostCapacity(Sites \ {s}, d) <= Budget(d)
  <2>1. 2 * r[d] + HostCapacity(Sites \ {s}, d) + other[d] + Reserve[d] <= Host[d]
    BY DEF Check
  <2>2. r[d] \in Nat
    BY LimitsNat
  <2>3. other[d] \in Nat
    <3>1. other \in Loads /\ OtherUses \subseteq Nat
      BY SizesAssumption DEF CapInv, WorkTyped
    <3>2. PICK n \in OtherUses : other = [memory |-> n, cpus |-> n]
      BY <3>1 DEF Loads
    <3> QED
      BY <3>1, <3>2 DEF Dimensions
  <2>4. HostCapacity(Sites \ {s}, d) \in Nat
    <3>1. \A x \in Others(s) : Amounts(d)[x] \in Nat
      BY AmountsAre, ContainersFinite DEF CapInv, SiteInv
    <3>2. SumFunctionOnSet(Amounts(d), Others(s)) \in Nat
      BY <3>1, ContainersFinite, SumNat
    <3> QED
      BY <3>2, AmountsAre DEF CapInv, SiteInv
  <2>5. /\ Budget(d) \in Nat /\ Host[d] \in Nat /\ Reserve[d] \in Nat
        /\ Host[d] - Reserve[d] <= Budget(d)
    BY BudgetNat
  <2> QED
    BY <2>1, <2>2, <2>3, <2>4, <2>5
<1> QED
  BY <1>1, <1>2

LEMMA AdmitKeeps ==
    ASSUME CapInv, Admit
    PROVE  CapInv'
<1>1. /\ At("admit") /\ task # NoTask /\ task.todo # <<>>
      /\ UNCHANGED <<config, made, record, failed, other>>
  BY DEF Admit, Elsewhere, siteVars, panelVars, loadVars, At
<1>2. SiteInv'
  BY <1>1, SitesKept DEF CapInv
<1>3. CASE Fail("admit")
  BY <1>1, <1>2, <1>3, FailureKeeps
<1>4. CASE Check(task.site, task.limits) /\ Proceed
  <2>1. /\ WorkTyped' /\ task' # NoTask
        /\ task'.kind = task.kind /\ task'.site = task.site /\ task'.limits = task.limits
        /\ task.site \in Sites /\ task.limits \in Limits
        /\ At("admit")' => At("inspect")
        /\ At("remove")' => At("down")
        /\ task'.todo \notin {<<>>, <<"fence">>} => task.todo \notin {<<>>, <<"fence">>}
    BY <1>1, <1>4, Proceeds DEF CapInv, Proceed
  <2>2. ~At("admit")' /\ ~At("remove")'
    BY <1>1, <2>1 DEF At
  <2>3. PICK s \in Sites, r \in Limits : s = task.site /\ r = task.limits
    BY <2>1
  <2>4. /\ Valid(r)
        /\ \A d \in Dimensions : 2 * r[d] + HostCapacity(Sites \ {s}, d) <= Budget(d)
    BY <1>4, <2>3, CheckAdmits
  <2>5. \A d : HostCapacity(Sites \ {s}, d)' = HostCapacity(Sites \ {s}, d)
    BY <1>1, CapacityKept DEF HostCapacity
  <2>6. Admitted'
    <3>1. task'.site = s /\ task'.limits = r
      BY <2>1, <2>3
    <3>2. \A d : HostCapacity(Sites \ {task.site}, d)' = HostCapacity(Sites \ {s}, d)
      BY <2>5, <3>1 DEF HostCapacity
    <3> QED
      BY <2>4, <3>1, <3>2 DEF Admitted, Budget
  <2>7. SaveReady'
    BY <1>1, <2>1, <2>2 DEF CapInv, TaskInv, SaveReady
  <2>8. ChangeSound'
    BY <1>1, <2>1 DEF CapInv, TaskInv, ChangeSound
  <2> QED
    BY <1>2, <2>1, <2>2, <2>6, <2>7, <2>8 DEF CapInv, TaskInv, RemoveReady
<1> QED
  BY <1>3, <1>4 DEF Admit

LEMMA SaveConfigKeeps ==
    ASSUME CapInv, SaveConfig
    PROVE  CapInv'
<1>1. /\ At("save") /\ task # NoTask /\ task.todo # <<>>
      /\ UNCHANGED <<made, record, failed, other>>
      /\ config' \in {config, [config EXCEPT ![task.site] = task.limits]}
  BY DEF SaveConfig, Elsewhere, panelVars, loadVars, At
<1>2. /\ task.site \in Sites /\ task.limits \in Limits /\ task.kind \in Kinds
      /\ task.todo \in Stages(task.kind)
  BY <1>1 DEF CapInv, WorkTyped, Work
<1>3. Follows(task.kind, task.todo)
  BY <1>1, <1>2, StageSteps
<1>4. task.kind \in {"create", "resources"}
  BY <1>1, <1>3 DEF Follows, At
<1>5. \/ task.site \in failed /\ task.limits = record[task.site]
      \/ task.site \notin failed /\ \A c \in Services : made[task.site][c] = config[task.site]
  <2>1. task.todo \notin {<<>>, <<"fence">>}
    <3>1. Head(<<"fence">>) = "fence"
      OBVIOUS
    <3> QED
      BY <1>1, <3>1 DEF At
  <2> QED
    BY <1>1, <1>4, <2>1 DEF CapInv, TaskInv, SaveReady, ChangeSound
<1>6. /\ Valid(task.limits)
      /\ \A d \in Dimensions :
            2 * task.limits[d] + HostCapacity(Sites \ {task.site}, d) <= Budget(d)
  BY <1>1 DEF CapInv, TaskInv, Admitted
<1>7. SiteInv'
  <2>1. CASE config' = config
    BY <1>1, <2>1, SitesKept DEF CapInv
  <2>2. CASE config' = [config EXCEPT ![task.site] = task.limits]
    BY <1>1, <1>2, <1>5, <1>6, <2>2, Saved DEF CapInv
  <2> QED
    BY <1>1, <2>1, <2>2
<1>8. CASE Fail("save")
  BY <1>1, <1>7, <1>8, FailureKeeps
<1>9. CASE Proceed
  BY <1>1, <1>7, <1>9, SuccessKeeps
<1> QED
  BY <1>8, <1>9 DEF SaveConfig

LEMMA StopKeeps ==
    ASSUME CapInv, NEW step \in {"stop", "stopwp"}, NEW xs, Stop(step, xs)
    PROVE  CapInv'
<1>1. At(step) /\ task # NoTask /\ UNCHANGED <<config, made, record, failed, other>>
  BY DEF Stop, Elsewhere, panelVars, loadVars, At
<1>2. SiteInv'
  BY <1>1, SitesKept DEF CapInv
<1>3. CASE Fail(step)
  BY <1>1, <1>2, <1>3, FailureKeeps
<1>4. CASE Proceed
  BY <1>1, <1>2, <1>4, SuccessKeeps
<1> QED
  BY <1>3, <1>4 DEF Stop

\* Containers that are made get the limits of the configuration.
LEMMA MadeKeeps ==
    ASSUME CapInv, task # NoTask, UNCHANGED <<config, record, failed>>,
           NEW xs, Made(task.site, xs) \/ UNCHANGED made
    PROVE  SiteInv'
<1>1. task.site \in Sites
  BY DEF CapInv, WorkTyped, Work
<1>2. CASE UNCHANGED made
  BY <1>2, SitesKept DEF CapInv
<1>3. CASE Made(task.site, xs)
  <2>1. PICK s \in Sites : s = task.site
    BY <1>1
  <2>2. made' = [made EXCEPT ![s] = [c \in Services |-> IF c \in xs THEN config[s]
                                                        ELSE made[s][c]]]
    BY <1>3, <2>1 DEF Made, CapInv, SiteInv, SitesTyped
  <2>3. made \in [Sites -> [Services -> Limits]] /\ config \in [Sites -> Limits]
    BY DEF CapInv, SiteInv, SitesTyped
  <2>4. made' \in [Sites -> [Services -> Limits]]
    BY <2>2, <2>3
  <2>5. \A t \in Sites, c \in Services : made'[t][c] \in {made[t][c], config[t], None}
    BY <2>2, <2>3
  <2> QED
    BY <2>4, <2>5, Remade DEF CapInv
<1> QED
  BY <1>2, <1>3

LEMMA UpKeeps ==
    ASSUME CapInv, NEW step \in {"up", "updb", "recreate"}, NEW xs, Up(step, xs)
    PROVE  CapInv'
<1>1. At(step) /\ task # NoTask /\ UNCHANGED <<config, record, failed, other>>
  BY DEF Up, Elsewhere, panelVars, loadVars, At
<1>2. PICK ys : Made(task.site, ys) \/ UNCHANGED made
  BY DEF Up
<1>3. SiteInv'
  BY <1>1, <1>2, MadeKeeps
<1>4. CASE Fail(step)
  BY <1>1, <1>3, <1>4, FailureKeeps
<1>5. CASE Proceed
  BY <1>1, <1>3, <1>5, SuccessKeeps
<1> QED
  BY <1>4, <1>5 DEF Up

LEMMA RecreateKeeps ==
    ASSUME CapInv, Recreate
    PROVE  CapInv'
<1>1. CASE Up("recreate", Services)
  BY <1>1, UpKeeps
<1>2. CASE ~Up("recreate", Services)
  <2>1. At("recreate") /\ task # NoTask /\ UNCHANGED <<config, record, failed, other>>
    BY <1>2 DEF Recreate, Elsewhere, panelVars, loadVars, At
  <2>2. PICK ys : Made(task.site, ys)
    BY <1>2 DEF Recreate
  <2>3. SiteInv'
    BY <2>1, <2>2, MadeKeeps
  <2>4. CASE Fail("recreate")
    BY <2>1, <2>3, <2>4, FailureKeeps
  <2>5. CASE Proceed
    BY <2>1, <2>3, <2>5, SuccessKeeps
  <2> QED
    BY <1>2, <2>4, <2>5 DEF Recreate
<1> QED
  BY <1>1, <1>2

LEMMA DownKeeps ==
    ASSUME CapInv, Down
    PROVE  CapInv'
<1>1. /\ At("down") /\ task # NoTask /\ task.todo # <<>>
      /\ UNCHANGED <<config, record, failed, other>>
  BY DEF Down, Elsewhere, panelVars, loadVars, At
<1>2. PICK gone \in SUBSET Services :
         /\ (gone = Services /\ Proceed) \/ Fail("down")
         /\ made' = [made EXCEPT ![task.site] =
                       [c \in Services |-> IF c \in gone THEN None ELSE @[c]]]
  BY DEF Down
<1>3. PICK s \in Sites : s = task.site
  BY <1>1 DEF CapInv, WorkTyped, Work
<1>4. made \in [Sites -> [Services -> Limits]]
  BY DEF CapInv, SiteInv, SitesTyped
<1>5. made' = [made EXCEPT ![s] = [c \in Services |-> IF c \in gone THEN None ELSE made[s][c]]]
  BY <1>2, <1>3, <1>4
<1>6. made' \in [Sites -> [Services -> Limits]]
  BY <1>4, <1>5, NoneIsZero
<1>7. \A t \in Sites, c \in Services : made'[t][c] \in {made[t][c], config[t], None}
  BY <1>4, <1>5
<1>8. SiteInv'
  BY <1>1, <1>6, <1>7, Remade DEF CapInv
<1>9. CASE Fail("down")
  BY <1>1, <1>8, <1>9, FailureKeeps
<1>10. CASE gone = Services /\ Proceed
  <2>1. /\ WorkTyped' /\ task' # NoTask
        /\ task'.kind = task.kind /\ task'.site = task.site
        /\ At("save")' => At("admit")
        /\ At("admit")' => At("inspect")
        /\ task'.todo \notin {<<>>, <<"fence">>} => task.todo \notin {<<>>, <<"fence">>}
    BY <1>1, <1>10, Proceeds DEF CapInv, Proceed
  <2>2. ~At("save")' /\ ~At("admit")'
    BY <1>1, <2>1 DEF At
  <2>3. \A c \in Services : made'[task'.site][c] = None
    BY <1>3, <1>4, <1>5, <1>10, <2>1
  <2>4. ChangeSound'
    BY <1>1, <2>1 DEF CapInv, TaskInv, ChangeSound
  <2> QED
    BY <1>8, <2>1, <2>2, <2>3, <2>4 DEF CapInv, TaskInv, Admitted, SaveReady, RemoveReady
<1> QED
  BY <1>2, <1>9, <1>10

LEMMA RemoveKeeps ==
    ASSUME CapInv, Remove
    PROVE  CapInv'
<1>1. /\ At("remove") /\ task # NoTask
      /\ UNCHANGED <<made, record, failed, other>>
      /\ config' \in {config, [config EXCEPT ![task.site] = None]}
  BY DEF Remove, Elsewhere, panelVars, loadVars, At
<1>2. task.site \in Sites
  BY <1>1 DEF CapInv, WorkTyped, Work
<1>3. \A c \in Services : made[task.site][c] = None
  BY <1>1 DEF CapInv, TaskInv, RemoveReady
<1>4. SiteInv'
  <2>1. CASE config' = config
    BY <1>1, <2>1, SitesKept DEF CapInv
  <2>2. CASE config' = [config EXCEPT ![task.site] = None]
    BY <1>1, <1>2, <1>3, <2>2, Removed DEF CapInv
  <2> QED
    BY <1>1, <2>1, <2>2
<1>5. CASE Fail("remove")
  BY <1>1, <1>4, <1>5, FailureKeeps
<1>6. CASE Proceed
  BY <1>1, <1>4, <1>6, SuccessKeeps
<1> QED
  BY <1>5, <1>6 DEF Remove

LEMMA FenceKeeps ==
    ASSUME CapInv, Fence
    PROVE  CapInv'
<1>1. At("fence") /\ task # NoTask /\ UNCHANGED <<config, made, record, failed, other>>
  BY DEF Fence, Elsewhere, panelVars, loadVars, At
<1>2. SiteInv'
  BY <1>1, SitesKept DEF CapInv
<1>3. CASE Proceed
  BY <1>1, <1>2, <1>3, SuccessKeeps
<1>4. CASE task' = NoTask /\ UNCHANGED pending
  BY <1>1, <1>2, <1>4, Idle DEF CapInv, WorkTyped
<1> QED
  BY <1>3, <1>4 DEF Fence

\* The record takes the limits of the configuration; a failed site's are the same.
LEMMA ConcludeKeeps ==
    ASSUME CapInv, Conclude
    PROVE  CapInv'
<1>1. PICK s \in Sites : s = task.site
  BY DEF Conclude, CapInv, WorkTyped, Work
<1> DEFINE deleted == task.ok /\ task.kind = "delete"
<1>2. /\ task' = NoTask /\ UNCHANGED <<config, made, other>>
      /\ record' = [record EXCEPT ![s] = IF deleted THEN None
                                         ELSE IF config[s] = None THEN record[s]
                                         ELSE config[s]]
      /\ (~deleted /\ UNCHANGED failed) \/ failed' = failed \ {s}
      /\ pending' = [pending EXCEPT ![s] = "none"]
  BY <1>1 DEF Conclude, siteVars, loadVars, CapInv, SiteInv, SitesTyped
<1> HIDE DEF deleted
<1>3. SitesTyped /\ AllFit /\ ConfigSound /\ FailedSound
  BY DEF CapInv, SiteInv
<1>4. SitesTyped'
  BY <1>2, <1>3, NoneIsZero DEF SitesTyped
<1>5. AllFit'
  <2>1. \A t \in Sites, c \in Services, d \in Dimensions :
           Allocated(t, c, d)' <= Allocated(t, c, d)
    <3> SUFFICES ASSUME NEW t \in Sites, NEW c \in Services, NEW d \in Dimensions
                 PROVE  Allocated(t, c, d)' <= Allocated(t, c, d)
      OBVIOUS
    <3>1. Allocated(t, c, d)' = Allocated(t, c, d)
      BY <1>2 DEF Allocated
    <3>2. Allocated(t, c, d) \in Nat
      BY <1>3, AmountsAre
    <3> QED
      BY <3>1, <3>2
  <2> QED
    BY <1>3, <1>4, <2>1, Shrinks
<1>6. ConfigSound'
  BY <1>2, <1>3 DEF ConfigSound
<1>7. FailedSound'
  <2> SUFFICES ASSUME NEW t \in failed'
               PROVE  /\ config[t] \in {None, record'[t]}
                      /\ \A c \in Services : made[t][c] \in {None, record'[t]}
    BY <1>2 DEF FailedSound
  <2>1. t \in failed /\ t \in Sites
    BY <1>2, <1>3 DEF SitesTyped
  <2>2. record'[t] = record[t]
    <3>1. CASE t # s
      BY <1>2, <1>3, <2>1, <3>1 DEF SitesTyped
    <3>2. CASE t = s
      <4>1. ~deleted
        BY <1>2, <3>2
      <4>2. config[s] \in {None, record[s]}
        BY <1>3, <2>1, <3>2 DEF FailedSound
      <4>3. record'[s] = IF config[s] = None THEN record[s] ELSE config[s]
        BY <1>2, <1>3, <4>1 DEF SitesTyped
      <4> QED
        BY <3>2, <4>2, <4>3
    <3> QED
      BY <3>1, <3>2
  <2> QED
    BY <1>3, <2>1, <2>2 DEF FailedSound
<1>8. WorkTyped'
  BY <1>2 DEF CapInv, WorkTyped
<1> QED
  BY <1>2, <1>4, <1>5, <1>6, <1>7, <1>8, Idle DEF CapInv, SiteInv

LEMMA RecoverKeeps ==
    ASSUME CapInv, NEW s \in Sites, Recover(s)
    PROVE  CapInv'
<1> DEFINE end == IF pending[s] \in Fenced THEN <<"fence">> ELSE <<>>
<1>1. /\ task' = [kind |-> pending[s], site |-> s, limits |-> None, was |-> FALSE,
                  ok |-> FALSE, todo |-> end]
      /\ pending[s] # "none"
      /\ UNCHANGED <<config, made, record, failed, pending, other>>
  BY DEF Recover, siteVars, panelVars, loadVars
<1>2. pending[s] \in Kinds
  BY <1>1 DEF CapInv, WorkTyped
<1>3. end \in Stages(pending[s]) /\ end \in AllStages /\ end \in {<<>>, <<"fence">>}
  BY <1>2, StageStarts
<1> HIDE DEF end
<1>4. task' \in Work /\ task'.todo = end /\ task'.kind = pending[s]
  BY <1>1, <1>2, <1>3, NoneIsZero DEF Work
<1>5. WorkTyped'
  BY <1>1, <1>3, <1>4 DEF CapInv, WorkTyped
<1>6. SiteInv'
  BY <1>1, SitesKept DEF CapInv
<1> QED
  BY <1>3, <1>4, <1>5, <1>6, Idle DEF CapInv

LEMMA CrashKeeps ==
    ASSUME CapInv, CrashWorker
    PROVE  CapInv'
<1>1. task' = NoTask /\ UNCHANGED <<config, made, record, failed, pending, other>>
  BY DEF CrashWorker, siteVars, panelVars, loadVars
<1>2. SiteInv'
  BY <1>1, SitesKept DEF CapInv
<1> QED
  BY <1>1, <1>2, Idle DEF CapInv, WorkTyped

\* Neither the start of the server nor other containers touch sites or tasks.
LEMMA QuietKeeps ==
    ASSUME CapInv, UNCHANGED <<config, made, record, failed, pending, task>>, other' \in Loads
    PROVE  CapInv'
<1>1. SiteInv'
  BY SitesKept DEF CapInv
<1>2. WorkTyped'
  BY DEF CapInv, WorkTyped
<1>3. \A d : HostCapacity(Sites \ {task.site}, d)' = HostCapacity(Sites \ {task.site}, d)
  BY CapacityKept DEF HostCapacity
<1>4. Admitted'
  BY <1>3 DEF CapInv, TaskInv, Admitted, At, Budget
<1>5. SaveReady' /\ ChangeSound' /\ RemoveReady'
  BY DEF CapInv, TaskInv, SaveReady, ChangeSound, RemoveReady, At
<1> QED
  BY <1>1, <1>2, <1>4, <1>5 DEF CapInv, TaskInv

\* Every step keeps the invariant.
LEMMA StepKeeps ==
    ASSUME CapInv, [CapacityNext]_capacityVars
    PROVE  CapInv'
<1>1. CASE \E s \in Sites, r \in Resources : NewSite(s, r) \/ SaveResources(s, r)
  BY <1>1, NewSiteKeeps, RequestsKeep
<1>2. CASE \E s \in Sites : Retry(s) \/ Recover(s)
  BY <1>2, RequestsKeep, RecoverKeeps
<1>3. CASE \E s \in Sites, kind \in {"start", "stop", "delete", "restore", "tool"} :
              Act(kind, s)
  BY <1>3, RequestsKeep
<1>4. CASE Inspect \/ Admit \/ SaveConfig \/ Recreate \/ Down \/ Remove \/ Fence
  BY <1>4, InspectKeeps, AdmitKeeps, SaveConfigKeeps, RecreateKeeps, DownKeeps,
     RemoveKeeps, FenceKeeps
<1>5. CASE Stop("stop", Services) \/ Stop("stopwp", {"wp"})
  BY <1>5, StopKeeps
<1>6. CASE Up("up", Services) \/ Up("updb", {"db"})
  BY <1>6, UpKeeps
<1>7. CASE Conclude \/ CrashWorker
  BY <1>7, ConcludeKeeps, CrashKeeps
<1>8. CASE Serve \/ LoadChanges \/ UNCHANGED capacityVars
  <2>1. UNCHANGED <<config, made, record, failed, pending, task>> /\ other' \in Loads
    BY <1>8 DEF Serve, LoadChanges, capacityVars, siteVars, panelVars, loadVars, CapInv,
                WorkTyped
  <2> QED
    BY <2>1, QuietKeeps
<1> QED
  BY <1>1, <1>2, <1>3, <1>4, <1>5, <1>6, <1>7, <1>8 DEF CapacityNext

\* For any sites, sizes, host, load and number of faults: the containers of all sites,
\* each counted with the larger of its saved and its actual limits, fit into what
\* hostCapacity leaves after the reserve.
THEOREM CapacityInvariant == CapacitySpec => []CapInv
BY Initially, StepKeeps, PTL DEF CapacitySpec

-----------------------------------------------------------------------------
(* What follows from it *)

\* A sum of amounts that are no more than what hostCapacity counts.
LEMMA LessFits ==
    ASSUME CapInv, NEW d \in Dimensions, NEW f,
           \A s \in Sites, c \in Services :
               f[<<s, c>>] \in Nat /\ f[<<s, c>>] <= Allocated(s, c, d)
    PROVE  Total(f) <= Budget(d)
<1>1. SitesTyped /\ AllFit
  BY DEF CapInv, SiteInv
<1>2. PICK g : g = Amounts(d)
  OBVIOUS
<1>3. ASSUME NEW x \in Containers
      PROVE  f[x] \in Nat /\ g[x] \in Nat /\ f[x] <= g[x]
  <2>1. PICK s \in Sites, c \in Services : x = <<s, c>>
    BY DEF Containers
  <2>2. g[x] = Allocated(s, c, d) /\ g[x] \in Nat
    BY <1>1, <1>2, <2>1, AmountsAre
  <2> QED
    BY <2>1, <2>2
<1>4. SumFunctionOnSet(f, Containers) <= SumFunctionOnSet(g, Containers)
  BY <1>3, ContainersFinite, SumMonotonic
<1>5. SumFunctionOnSet(f, Containers) \in Nat /\ SumFunctionOnSet(g, Containers) \in Nat
  BY <1>3, ContainersFinite, SumNat
<1>6. SumFunctionOnSet(g, Containers) <= Budget(d)
  BY <1>1, <1>2, AmountsAre DEF AllFit
<1>7. Total(f) = SumFunctionOnSet(f, Containers)
  BY DEF Total, Containers
<1> QED
  BY <1>4, <1>5, <1>6, <1>7, BudgetNat

LEMMA InvConfigured ==
    ASSUME CapInv
    PROVE  ConfiguredFits
<1> SUFFICES ASSUME NEW d \in Dimensions
             PROVE  Total([x \in Sites \X Services |-> config[x[1]][d]]) <= Budget(d)
  BY DEF ConfiguredFits
<1>1. PICK f : f = [x \in Sites \X Services |-> config[x[1]][d]]
  OBVIOUS
<1>2. \A s \in Sites, c \in Services : f[<<s, c>>] = config[s][d]
  BY <1>1
<1>3. ASSUME NEW s \in Sites, NEW c \in Services
      PROVE  f[<<s, c>>] \in Nat /\ f[<<s, c>>] <= Allocated(s, c, d)
  <2>1. /\ config[s][d] \in Nat /\ made[s][c][d] \in Nat
        /\ Allocated(s, c, d) = IF config[s][d] >= made[s][c][d] THEN config[s][d]
                                ELSE made[s][c][d]
    BY AmountsAre DEF CapInv, SiteInv
  <2> QED
    BY <1>2, <2>1
<1>4. Total(f) <= Budget(d)
  BY <1>3, LessFits
<1> QED
  BY <1>1, <1>4

LEMMA InvRunning ==
    ASSUME CapInv
    PROVE  RunningFits
<1> SUFFICES ASSUME NEW d \in Dimensions
             PROVE  Total([x \in Sites \X Services |->
                             IF x[2] \in running[x[1]] THEN made[x[1]][x[2]][d] ELSE 0])
                      <= Budget(d)
  BY DEF RunningFits
<1>1. PICK f : f = [x \in Sites \X Services |->
                      IF x[2] \in running[x[1]] THEN made[x[1]][x[2]][d] ELSE 0]
  OBVIOUS
<1>2. \A s \in Sites, c \in Services :
         f[<<s, c>>] = IF c \in running[s] THEN made[s][c][d] ELSE 0
  BY <1>1
<1>3. ASSUME NEW s \in Sites, NEW c \in Services
      PROVE  f[<<s, c>>] \in Nat /\ f[<<s, c>>] <= Allocated(s, c, d)
  <2>1. /\ config[s][d] \in Nat /\ made[s][c][d] \in Nat
        /\ Allocated(s, c, d) = IF config[s][d] >= made[s][c][d] THEN config[s][d]
                                ELSE made[s][c][d]
    BY AmountsAre DEF CapInv, SiteInv
  <2> QED
    BY <1>2, <2>1
<1>4. Total(f) <= Budget(d)
  BY <1>3, LessFits
<1> QED
  BY <1>1, <1>4

\* The site's own share of the sum is exactly what its start asks for.
LEMMA InvReserved ==
    ASSUME CapInv
    PROVE  ReservationHeld
<1> SUFFICES ASSUME At("admit"), task.kind = "start", task.limits # None,
                    disk, other = None,
                    \A s \in Sites \ {task.site} : ~Oversized(s)
             PROVE  Check(task.site, task.limits)
  BY DEF ReservationHeld
<1>1. PICK s \in Sites, r \in Limits : s = task.site /\ r = task.limits
  BY DEF CapInv, WorkTyped, Work, At
<1>2. r = config[s] /\ Valid(r)
  BY <1>1 DEF CapInv, TaskInv, SaveReady, SiteInv, ConfigSound
<1>3. ASSUME NEW d \in Dimensions
      PROVE  2 * r[d] + HostCapacity(Sites \ {s}, d) + other[d] + Reserve[d] <= Host[d]
  <2>1. PICK f, g : f = [x \in Sites \X Services |-> config[x[1]][d]] /\ g = Amounts(d)
    OBVIOUS
  <2>2. \A t \in Sites, c \in Services :
           /\ f[<<t, c>>] = config[t][d] /\ g[<<t, c>>] = Allocated(t, c, d)
           /\ config[t][d] \in Nat /\ made[t][c][d] \in Nat
           /\ Allocated(t, c, d) = IF config[t][d] >= made[t][c][d] THEN config[t][d]
                                   ELSE made[t][c][d]
    BY <2>1, AmountsAre DEF CapInv, SiteInv
  <2>3. \A x \in Containers : f[x] \in Nat
    BY <2>2 DEF Containers
  <2>4. ASSUME NEW x \in Others(s)
        PROVE  f[x] \in Nat /\ g[x] = f[x]
    <3>1. PICK t \in Sites \ {s}, c \in Services : x = <<t, c>>
      BY DEF Others
    <3>2. ~(made[t][c][d] > config[t][d])
      BY <1>1, <3>1 DEF Oversized
    <3>3. f[x] = config[t][d] /\ config[t][d] \in Nat /\ made[t][c][d] \in Nat
      BY <2>2, <3>1
    <3>4. g[x] = IF config[t][d] >= made[t][c][d] THEN config[t][d] ELSE made[t][c][d]
      BY <2>2, <3>1
    <3> QED
      BY <3>2, <3>3, <3>4
  <2>5. SumFunctionOnSet(g, Others(s)) = SumFunctionOnSet(f, Others(s))
    BY <2>4, ContainersFinite, SumSame
  <2>6. /\ SumFunctionOnSet(f, Containers)
             = f[<<s, "wp">>] + f[<<s, "db">>] + SumFunctionOnSet(f, Others(s))
        /\ SumFunctionOnSet(f, Others(s)) \in Nat
    BY <2>3, TakeSite
  <2>7. f[<<s, "wp">>] = r[d] /\ f[<<s, "db">>] = r[d]
    BY <1>2, <2>2 DEF Services
  <2>8. SumFunctionOnSet(f, Containers) <= Budget(d)
    BY <2>1, InvConfigured DEF ConfiguredFits, Total, Containers
  <2>9. HostCapacity(Sites \ {s}, d) = SumFunctionOnSet(g, Others(s))
    BY <2>1, AmountsAre DEF CapInv, SiteInv
  <2>10. other[d] = 0
    BY NoneIsZero
  <2>11. r[d] \in Nat /\ r[d] > 0
    BY <1>2 DEF Valid, Dimensions
  <2>12. /\ Budget(d) \in Nat /\ Host[d] \in Nat /\ Reserve[d] \in Nat
         /\ Budget(d) > 0 => Budget(d) = Host[d] - Reserve[d]
    BY BudgetNat
  <2>13. 2 * r[d] + HostCapacity(Sites \ {s}, d) <= Budget(d)
    BY <2>5, <2>6, <2>7, <2>8, <2>9, <2>11
  <2>14. HostCapacity(Sites \ {s}, d) \in Nat
    BY <2>5, <2>6, <2>9
  <2> QED
    BY <2>10, <2>11, <2>12, <2>13, <2>14
<1> QED
  BY <1>1, <1>2, <1>3 DEF Check

\* The limits in all configurations fit into the host without its reserve, whatever
\* failed between an admission and its effects: hostCapacity and changeResources.
THEOREM ConfiguredFitsHolds == CapacitySpec => []ConfiguredFits
BY CapacityInvariant, InvConfigured, PTL

\* So do the containers that are running, with the limits they really have.
THEOREM RunningFitsHolds == CapacitySpec => []RunningFits
BY CapacityInvariant, InvRunning, PTL

\* A start of a configured site is refused only for the disks, for other containers or
\* for another site's containers that are larger than its configuration.
THEOREM ReservationHeldHolds == CapacitySpec => []ReservationHeld
BY CapacityInvariant, InvReserved, PTL
=============================================================================
