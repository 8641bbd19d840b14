-------------------------- MODULE QuotaGateProofs --------------------------
(***************************************************************************)
(* The restart gate of a quota-managed site: proofs that no writer is      *)
(* launched unverified, that Docker restarts nothing by itself, that a     *)
(* failure leaves the site fenced and that only what the administrator     *)
(* asked for is resumed, for any number of requests, faults, crashes,      *)
(* reboots and changes of the storage.                                     *)
(***************************************************************************)
EXTENDS QuotaGate, TLAPS

-----------------------------------------------------------------------------
(* The order of the steps that are left *)

\* No step of T is left.
Lacks(s, T) == \A n \in 1..Len(s) : s[n] \notin T

\* Every step of T that is left has one of S before it.
Behind(s, S, T) ==
    \A n \in 1..Len(s) : s[n] \in T => \E m \in 1..Len(s) : m < n /\ s[m] \in S

\* No step of T comes after one of S.
Parted(s, S, T) ==
    \A m, n \in 1..Len(s) : m < n /\ s[m] \in S => s[n] \notin T

\* Steps that start a container or a job.
Launches == {"up", "updb", "upwp", "restart", "uptool", "job"}

\* Intents with which the site may run.
Runs == {"running", "maintenance"}

\* What is left after an error, and before a recovery looks at the site.
WayOut == {"blocked", "rmjobs", "halt", "quiesce", "receipt", "check", "assess"}

\* Where a request, a sweep or a startup can be.
Arranged(t) ==
    /\ t.kind = "delete" => Lacks(t.todo, Launches \cup Runs \cup {"compose", "inspect", "survey"})
    /\ t.kind # "delete" => Lacks(t.todo, {"rmdir"})
    /\ t.kind \notin {"start", "restore", "sweep", "startup"} => Lacks(t.todo, {"running"})
    /\ t.kind \in {"sweep", "startup"} =>
          Lacks(t.todo, {"post"}) /\ (t.stage = "resume" \/ Lacks(t.todo, Launches \cup {"running"}))
    /\ t.kind \notin {"sweep", "startup"} => Lacks(t.todo, {"assess", "survey"}) /\ t.stage # "resume"
    /\ t.stage = "resume" => Lacks(t.todo, {"receipt"})
    /\ t.verdict = "failed" => Lacks(t.todo, Steps \ WayOut)
    /\ t.verdict # "failed" => Lacks(t.todo, {"quiesce"})
    /\ t.verdict = "rejected" => t.kind = "resources"
    /\ Parted(t.todo, {"running", "quiesce"}, {"halt"})
    /\ Parted(t.todo, {"receipt"}, {"receipt"})
    /\ t.kind \in Tracked => Parted(t.todo, {"receipt"}, Steps)

-----------------------------------------------------------------------------
(* The inductive invariant *)

\* The receipt of the request is pending until its last step.
Tracking(t) ==
    /\ t.kind \in Tracked => Lacks(t.todo, Steps) \/ (receipt.state = "pending" /\ receipt.kind = t.kind)
    /\ t.kind \notin Tracked => Lacks(t.todo, {"receipt"}) \/ (receipt.state = "pending" /\ t.verdict = "failed")

\* Only a site that is marked and has no unresolved operation is resumed, and
\* only if the administrator agreed.
Resuming(t) ==
    /\ t.stage = "resume" => consent
    /\ Marked \/ Lacks(t.todo, Launches \cup Runs \cup {"survey"})
    /\ Resolved \/ Lacks(t.todo, {"survey"})

\* The steps of the preflight have been done or come first.
Preflighted(t) ==
    /\ t.verified \/ Behind(t.todo, {"verify"}, Launches)
    /\ manual \/ Behind(t.todo, {"compose"}, Launches \cup Runs \cup {"inspect"})
    /\ auto = {} \/ Behind(t.todo, {"inspect"}, Runs)

\* A deletion removes the files of a site that is stopped and down.
Removing(t) ==
    /\ \/ intent \notin Runs \/ Lacks(t.todo, {"rmdir"})
       \/ /\ t.failed \/ Behind(t.todo, {"stopped"}, {"check", "rmdir"})
          /\ Behind(t.todo, {"check"}, {"rmdir"})
    /\ up = {} \/ Behind(t.todo, {"down"}, {"rmdir"})

\* A failure is recorded after a fence that succeeded.
Fencing(t) ==
    t.verdict = "failed" =>
        \/ Behind(t.todo, {"quiesce"}, {"receipt"})
        \/ t.failed
        \/ /\ intent = "blocked" \/ ~Marked \/ Behind(t.todo, {"blocked"}, {"receipt"})
           /\ ~job \/ Behind(t.todo, {"rmjobs"}, {"receipt"})
           /\ up = {} \/ Behind(t.todo, {"halt"}, {"receipt"})

\* A fence takes back the intent before it stops the containers, and a request
\* that ends the site's run has taken it back when it succeeds.
Withdrawing(t) ==
    /\ \/ intent # "running"
       \/ t.failed
       \/ Behind(t.todo, {"blocked", "stopped"}, {"halt"})
    /\ t.kind \in {"update", "backup", "resources", "create"} /\ t.verdict # "failed" =>
          intent # "running" \/ consent
    /\ t.kind \in {"stop", "prepare-restore", "delete"} /\ t.verdict # "failed" =>
          \/ intent # "running"
          \/ /\ t.failed \/ Behind(t.todo, {"stopped", "maintenance", "rmdir"}, {"check", "receipt"})
             /\ Behind(t.todo, {"check", "maintenance", "rmdir"}, {"receipt"})

TaskSound(t) ==
    /\ Arranged(t) /\ Tracking(t) /\ Resuming(t) /\ Preflighted(t)
    /\ Removing(t) /\ Fencing(t) /\ Withdrawing(t)

\* What holds between the requests too.
SiteSound ==
    /\ RestartIsOurs
    /\ manual => compose
    /\ ~Marked => intent \notin Runs
    /\ ~Marked \/ ~compose => up = {}
    /\ intent = "running" => consent \/ receipt.state = "pending"

GateInv ==
    /\ GateTypeOK
    /\ SiteSound
    /\ task # NoTask => TaskSound(task)

-----------------------------------------------------------------------------
(* Sequences of steps *)

\* What holds of the steps left holds when the first is done.
LEMMA TailOrder ==
    ASSUME NEW s \in Seq(Steps), s # <<>>
    PROVE  /\ Tail(s) \in Seq(Steps) /\ Head(s) \in Steps
           /\ \A T : Lacks(s, T) => Lacks(Tail(s), T) /\ Head(s) \notin T
           /\ \A S, T : Behind(s, S, T) => Head(s) \notin T
           /\ \A S, T : Behind(s, S, T) /\ Head(s) \notin S => Behind(Tail(s), S, T)
           /\ \A S, T : Parted(s, S, T) => Parted(Tail(s), S, T)
           /\ \A S, T : Parted(s, S, T) /\ Head(s) \in S => Lacks(Tail(s), T)
<1>1. /\ Len(s) \in Nat /\ Len(s) >= 1 /\ Head(s) = s[1] /\ Len(Tail(s)) = Len(s) - 1
      /\ Tail(s) \in Seq(Steps) /\ Head(s) \in Steps
  OBVIOUS
<1>2. \A n \in 1..Len(Tail(s)) : Tail(s)[n] = s[n + 1]
  BY <1>1
<1> DEFINE r == Tail(s)
<1>3. Len(r) = Len(s) - 1 /\ \A n \in 1..Len(r) : r[n] = s[n + 1] /\ n + 1 \in 1..Len(s)
  BY <1>1, <1>2
<1> HIDE DEF r
<1>4. ASSUME NEW T, Lacks(s, T)
      PROVE  Lacks(r, T) /\ Head(s) \notin T
  BY <1>1, <1>3, <1>4 DEF Lacks
<1>5. ASSUME NEW S, NEW T, Behind(s, S, T)
      PROVE  Head(s) \notin T
  BY <1>1, <1>5 DEF Behind
<1>6. ASSUME NEW S, NEW T, Behind(s, S, T), Head(s) \notin S
      PROVE  Behind(r, S, T)
  <2>1. SUFFICES ASSUME NEW n \in 1..Len(r), r[n] \in T
                 PROVE  \E m \in 1..Len(r) : m < n /\ r[m] \in S
    BY DEF Behind
  <2>2. n + 1 \in 1..Len(s) /\ s[n + 1] \in T
    BY <1>3, <2>1
  <2>3. PICK k \in 1..Len(s) : k < n + 1 /\ s[k] \in S
    BY <1>6, <2>2 DEF Behind
  <2>4. k # 1 /\ k - 1 \in 1..Len(r) /\ k - 1 < n
    BY <1>1, <1>3, <1>6, <2>3
  <2>5. r[k - 1] = s[k]
    BY <1>1, <1>3, <2>3, <2>4
  <2> QED
    BY <2>3, <2>4, <2>5
<1>7. ASSUME NEW S, NEW T, Parted(s, S, T)
      PROVE  Parted(r, S, T)
  <2>1. SUFFICES ASSUME NEW m \in 1..Len(r), NEW n \in 1..Len(r), m < n, r[m] \in S
                 PROVE  r[n] \notin T
    BY DEF Parted
  <2>2. m + 1 \in 1..Len(s) /\ n + 1 \in 1..Len(s) /\ m + 1 < n + 1 /\ s[m + 1] \in S
    BY <1>1, <1>3, <2>1
  <2> QED
    BY <1>3, <1>7, <2>2 DEF Parted
<1>8. ASSUME NEW S, NEW T, Parted(s, S, T), Head(s) \in S
      PROVE  Lacks(r, T)
  <2>1. SUFFICES ASSUME NEW n \in 1..Len(r)
                 PROVE  r[n] \notin T
    BY DEF Lacks
  <2>2. 1 \in 1..Len(s) /\ n + 1 \in 1..Len(s) /\ 1 < n + 1 /\ s[1] \in S
    BY <1>1, <1>3, <1>8, <2>1
  <2> QED
    BY <1>3, <1>8, <2>2 DEF Parted
<1> QED
  BY <1>1, <1>4, <1>5, <1>6, <1>7, <1>8 DEF r

\* Where no step of T is left, nothing is wrong with their order.
LEMMA LacksOrder ==
    ASSUME NEW s, NEW T, Lacks(s, T)
    PROVE  /\ \A S : Behind(s, S, T) /\ Parted(s, S, T) /\ Parted(s, T, S)
           /\ \A U : U \subseteq T => Lacks(s, U)
           /\ \A S, U : U \subseteq T => Behind(s, S, U) /\ Parted(s, S, U) /\ Parted(s, U, S)
<1>1. ASSUME NEW U, U \subseteq T
      PROVE  Lacks(s, U)
  BY <1>1 DEF Lacks
<1>2. ASSUME NEW S, NEW U, U \subseteq T
      PROVE  Behind(s, S, U) /\ Parted(s, S, U)
  BY <1>1, <1>2 DEF Lacks, Behind, Parted
<1>3. ASSUME NEW S, NEW U, U \subseteq T
      PROVE  Parted(s, U, S)
  BY <1>1, <1>3 DEF Lacks, Parted
<1>4. T \subseteq T
  OBVIOUS
<1>5. \A S : Behind(s, S, T) /\ Parted(s, S, T) /\ Parted(s, T, S)
  BY <1>2, <1>3, <1>4
<1> QED
  BY <1>1, <1>2, <1>3, <1>5

\* Where the steps of a are found in a followed by b, and those of b.
LEMMA ConcatItems ==
    ASSUME NEW a \in Seq(Steps), NEW b \in Seq(Steps)
    PROVE  /\ \A n \in 1..Len(a) : n \in 1..Len(a \o b) /\ (a \o b)[n] = a[n]
           /\ \A n \in 1..Len(b) :
                 n + Len(a) \in 1..Len(a \o b) /\ (a \o b)[n + Len(a)] = b[n]
           /\ \A n \in 1..Len(a \o b) : n \in 1..Len(a)
                 \/ (n - Len(a) \in 1..Len(b) /\ (a \o b)[n] = b[n - Len(a)])
<1> DEFINE c == a \o b
<1>1. /\ Len(a) \in Nat /\ Len(b) \in Nat /\ c \in Seq(Steps) /\ Len(c) = Len(a) + Len(b)
      /\ \A n \in 1..Len(c) : c[n] = IF n <= Len(a) THEN a[n] ELSE b[n - Len(a)]
  OBVIOUS
<1> HIDE DEF c
<1>2. \A n \in 1..Len(a) : n \in 1..Len(c) /\ c[n] = a[n]
  BY <1>1
<1>3. ASSUME NEW n \in 1..Len(b)
      PROVE  n + Len(a) \in 1..Len(c) /\ c[n + Len(a)] = b[n]
  <2>1. n \in Nat /\ n >= 1 /\ n <= Len(b)
    BY <1>1
  <2>2. n + Len(a) \in 1..Len(c) /\ ~(n + Len(a) <= Len(a)) /\ (n + Len(a)) - Len(a) = n
    BY <1>1, <2>1
  <2>3. c[n + Len(a)] = b[(n + Len(a)) - Len(a)]
    BY <1>1, <2>2
  <2> QED
    BY <2>2, <2>3
<1>4. \A n \in 1..Len(c) : n \in 1..Len(a) \/ (n - Len(a) \in 1..Len(b) /\ c[n] = b[n - Len(a)])
  BY <1>1
<1> QED
  BY <1>2, <1>3, <1>4 DEF c

\* Two sequences, one after the other.
LEMMA ConcatOrder ==
    ASSUME NEW a \in Seq(Steps), NEW b \in Seq(Steps)
    PROVE  /\ a \o b \in Seq(Steps)
           /\ \A T : Lacks(a, T) /\ Lacks(b, T) => Lacks(a \o b, T)
           /\ \A S, T : Behind(a, S, T) /\ Behind(b, S, T) => Behind(a \o b, S, T)
           /\ \A S, T : Behind(a, S, T) /\ ~Lacks(a, S) => Behind(a \o b, S, T)
           /\ \A S, T : Parted(a, S, T) /\ Parted(b, S, T) /\ (Lacks(a, S) \/ Lacks(b, T)) =>
                 Parted(a \o b, S, T)
<1> DEFINE c == a \o b
<1>1. /\ Len(a) \in Nat /\ Len(b) \in Nat /\ c \in Seq(Steps) /\ Len(c) = Len(a) + Len(b)
  OBVIOUS
<1>2. \A n \in 1..Len(a) : n \in 1..Len(c) /\ c[n] = a[n]
  BY ConcatItems
<1>3. \A n \in 1..Len(b) : n + Len(a) \in 1..Len(c) /\ c[n + Len(a)] = b[n]
  BY ConcatItems
<1>4. \A n \in 1..Len(c) : n \in 1..Len(a) \/ (n - Len(a) \in 1..Len(b) /\ c[n] = b[n - Len(a)])
  BY ConcatItems
<1> HIDE DEF c
<1>5. ASSUME NEW T, Lacks(a, T), Lacks(b, T)
      PROVE  Lacks(c, T)
  BY <1>2, <1>4, <1>5 DEF Lacks
<1>6. ASSUME NEW S, NEW T, Behind(a, S, T), NEW n \in 1..Len(a), c[n] \in T
      PROVE  \E m \in 1..Len(c) : m < n /\ c[m] \in S
  BY <1>2, <1>6 DEF Behind
<1>7. ASSUME NEW S, NEW T, Behind(a, S, T), Behind(b, S, T)
      PROVE  Behind(c, S, T)
  <2>1. SUFFICES ASSUME NEW n \in 1..Len(c), c[n] \in T, n \notin 1..Len(a)
                 PROVE  \E m \in 1..Len(c) : m < n /\ c[m] \in S
    BY <1>6, <1>7 DEF Behind
  <2>2. n - Len(a) \in 1..Len(b) /\ b[n - Len(a)] \in T
    BY <1>4, <2>1
  <2>3. PICK k \in 1..Len(b) : k < n - Len(a) /\ b[k] \in S
    BY <1>7, <2>2 DEF Behind
  <2>4. k + Len(a) < n
    BY <1>1, <2>3
  <2> QED
    BY <1>3, <2>3, <2>4
<1>8. ASSUME NEW S, NEW T, Behind(a, S, T), ~Lacks(a, S)
      PROVE  Behind(c, S, T)
  <2>1. SUFFICES ASSUME NEW n \in 1..Len(c), c[n] \in T, n \notin 1..Len(a)
                 PROVE  \E m \in 1..Len(c) : m < n /\ c[m] \in S
    BY <1>6, <1>8 DEF Behind
  <2>2. PICK k \in 1..Len(a) : a[k] \in S
    BY <1>8 DEF Lacks
  <2>3. k < n
    BY <1>1, <2>1
  <2> QED
    BY <1>2, <2>2, <2>3
<1>9. ASSUME NEW S, NEW T, Parted(a, S, T), Parted(b, S, T), Lacks(a, S) \/ Lacks(b, T)
      PROVE  Parted(c, S, T)
  <2>1. SUFFICES ASSUME NEW m \in 1..Len(c), NEW n \in 1..Len(c), m < n, c[m] \in S, c[n] \in T
                 PROVE  FALSE
    BY DEF Parted
  <2>2. CASE m \in 1..Len(a) /\ n \in 1..Len(a)
    BY <1>2, <1>9, <2>1, <2>2 DEF Parted
  <2>3. CASE m \notin 1..Len(a)
    <3>1. n \notin 1..Len(a)
      BY <1>1, <2>1, <2>3
    <3>2. /\ m - Len(a) \in 1..Len(b) /\ n - Len(a) \in 1..Len(b) /\ m - Len(a) < n - Len(a)
          /\ b[m - Len(a)] \in S /\ b[n - Len(a)] \in T
      BY <1>1, <1>4, <2>1, <2>3, <3>1
    <3> QED
      BY <1>9, <3>2 DEF Parted
  <2>4. CASE m \in 1..Len(a) /\ n \notin 1..Len(a)
    <3>1. a[m] \in S /\ n - Len(a) \in 1..Len(b) /\ b[n - Len(a)] \in T
      BY <1>2, <1>4, <2>1, <2>4
    <3> QED
      BY <1>9, <2>4, <3>1 DEF Lacks
  <2> QED
    BY <2>2, <2>3, <2>4
<1> QED
  BY <1>1, <1>5, <1>7, <1>8, <1>9 DEF c

-----------------------------------------------------------------------------
(* The plans *)

StepsOf(s) == {s[n] : n \in 1..Len(s)}

\* What is left is determined by the steps it consists of.
LEMMA StepsLacks ==
    ASSUME NEW s, NEW T
    PROVE  (Lacks(s, T) <=> StepsOf(s) \cap T = {}) /\ (Lacks(s, T) <=> \A x \in StepsOf(s) : x \notin T)
BY DEF Lacks, StepsOf

\* The steps of two plans, one after the other.
LEMMA ConcatSteps ==
    ASSUME NEW a \in Seq(Steps), NEW b \in Seq(Steps)
    PROVE  a \o b \in Seq(Steps) /\ StepsOf(a \o b) = StepsOf(a) \cup StepsOf(b)
<1> DEFINE c == a \o b
<1>1. /\ Len(a) \in Nat /\ Len(b) \in Nat /\ c \in Seq(Steps) /\ Len(c) = Len(a) + Len(b)
  OBVIOUS
<1>2. \A n \in 1..Len(a) : n \in 1..Len(c) /\ c[n] = a[n]
  BY ConcatItems
<1>3. \A n \in 1..Len(b) : n + Len(a) \in 1..Len(c) /\ c[n + Len(a)] = b[n]
  BY ConcatItems
<1>4. \A n \in 1..Len(c) : n \in 1..Len(a) \/ (n - Len(a) \in 1..Len(b) /\ c[n] = b[n - Len(a)])
  BY ConcatItems
<1> HIDE DEF c
<1>5. ASSUME NEW x \in StepsOf(c)
      PROVE  x \in StepsOf(a) \cup StepsOf(b)
  BY <1>2, <1>4, <1>5 DEF StepsOf
<1>6. ASSUME NEW x \in StepsOf(a) \cup StepsOf(b)
      PROVE  x \in StepsOf(c)
  BY <1>2, <1>3, <1>6 DEF StepsOf
<1> QED
  BY <1>1, <1>5, <1>6 DEF c

\* No steps, one, two or three.
LEMMA Steps0 == <<>> \in Seq(Steps) /\ StepsOf(<<>>) = {}
BY DEF StepsOf

\* A plan of one step.
LEMMA Steps1 ==
    ASSUME NEW x \in Steps
    PROVE  <<x>> \in Seq(Steps) /\ StepsOf(<<x>>) = {x}
<1> DEFINE s == <<x>>
<1>1. s \in Seq(Steps) /\ Len(s) = 1 /\ s[1] = x
  OBVIOUS
<1> HIDE DEF s
<1>2. 1..1 = {1}
  OBVIOUS
<1> QED
  BY <1>1, <1>2 DEF StepsOf, s

\* A plan of two steps.
LEMMA Steps2 ==
    ASSUME NEW x \in Steps, NEW y \in Steps
    PROVE  <<x, y>> \in Seq(Steps) /\ StepsOf(<<x, y>>) = {x, y}
<1> DEFINE s == <<x, y>>
<1>1. s \in Seq(Steps) /\ Len(s) = 2 /\ s[1] = x /\ s[2] = y
  OBVIOUS
<1> HIDE DEF s
<1>2. 1..2 = {1, 2}
  OBVIOUS
<1> QED
  BY <1>1, <1>2 DEF StepsOf, s

\* A plan of three steps.
LEMMA Steps3 ==
    ASSUME NEW x \in Steps, NEW y \in Steps, NEW z \in Steps
    PROVE  <<x, y, z>> \in Seq(Steps) /\ StepsOf(<<x, y, z>>) = {x, y, z}
<1> DEFINE s == <<x, y, z>>
<1>1. s \in Seq(Steps) /\ Len(s) = 3 /\ s[1] = x /\ s[2] = y /\ s[3] = z
  OBVIOUS
<1> HIDE DEF s
<1>2. 1..3 = {1, 2, 3}
  OBVIOUS
<1> QED
  BY <1>1, <1>2 DEF StepsOf, s

\* A plan launches after a preflight, fences in the order intent, containers, and
\* lets the site run only when it fences no more.
Ordered(s) ==
    /\ Behind(s, {"verify"}, Launches)
    /\ Behind(s, {"compose"}, Launches \cup Runs \cup {"inspect"})
    /\ Behind(s, {"inspect"}, Runs)
    /\ Behind(s, {"blocked", "stopped"}, {"halt"})
    /\ Parted(s, {"running", "quiesce"}, {"halt"})

\* A plan that neither launches nor fences is in order.
LEMMA PlainOrdered ==
    ASSUME NEW s, Lacks(s, Launches \cup Runs \cup {"inspect", "halt"})
    PROVE  Ordered(s)
<1>1. /\ Launches \subseteq Launches \cup Runs \cup {"inspect", "halt"}
      /\ Launches \cup Runs \cup {"inspect"} \subseteq Launches \cup Runs \cup {"inspect", "halt"}
      /\ Runs \subseteq Launches \cup Runs \cup {"inspect", "halt"}
      /\ {"halt"} \subseteq Launches \cup Runs \cup {"inspect", "halt"}
  OBVIOUS
<1> QED
  BY <1>1, LacksOrder DEF Ordered

\* Plans in order, one after the other, are in order if the first does not end
\* with the site running.
LEMMA ConcatOrdered ==
    ASSUME NEW a \in Seq(Steps), NEW b \in Seq(Steps), Ordered(a), Ordered(b),
           Lacks(a, {"running", "quiesce"}) \/ Lacks(b, {"halt"})
    PROVE  Ordered(a \o b)
BY ConcatOrder DEF Ordered

\* After a preflight there may be launches.
LEMMA PreflightOrdered ==
    ASSUME NEW a \in Seq(Steps), NEW b \in Seq(Steps), Ordered(a), Lacks(b, {"halt"}),
           {"compose", "verify", "inspect"} \subseteq StepsOf(a)
    PROVE  Ordered(a \o b)
<1>1. ~Lacks(a, {"compose"}) /\ ~Lacks(a, {"verify"}) /\ ~Lacks(a, {"inspect"})
  BY StepsLacks
<1>2. /\ Behind(a \o b, {"verify"}, Launches)
      /\ Behind(a \o b, {"compose"}, Launches \cup Runs \cup {"inspect"})
      /\ Behind(a \o b, {"inspect"}, Runs)
  BY <1>1, ConcatOrder DEF Ordered
<1>3. Behind(b, {"blocked", "stopped"}, {"halt"}) /\ Parted(b, {"running", "quiesce"}, {"halt"})
  BY LacksOrder
<1>4. /\ Behind(a \o b, {"blocked", "stopped"}, {"halt"})
      /\ Parted(a \o b, {"running", "quiesce"}, {"halt"})
  BY <1>3, ConcatOrder DEF Ordered
<1> QED
  BY <1>2, <1>4 DEF Ordered

\* fenceQuotaSite saves the intent before it stops the containers.
LEMMA FencePlan ==
    ASSUME NEW state \in {"blocked", "stopped"}
    PROVE  /\ Fence(state) \in Seq(Steps)
           /\ StepsOf(Fence(state)) = {state, "rmjobs", "halt"}
           /\ Ordered(Fence(state))
<1>1. state \in Steps /\ "rmjobs" \in Steps /\ "halt" \in Steps
  BY DEF Steps, Intents, FenceSteps
<1>2. Fence(state) \in Seq(Steps) /\ StepsOf(Fence(state)) = {state, "rmjobs", "halt"}
  BY <1>1, Steps3 DEF Fence
<1> DEFINE s == Fence(state)
<1>3. Len(s) = 3 /\ s[1] = state /\ s[2] = "rmjobs" /\ s[3] = "halt"
  BY DEF Fence
<1> HIDE DEF s
<1>4. Behind(s, {"blocked", "stopped"}, {"halt"})
  BY <1>3 DEF Behind
<1>5. Lacks(s, {"running", "quiesce"}) /\ Lacks(s, Launches \cup Runs \cup {"inspect"})
  BY <1>2, StepsLacks DEF s, Launches, Runs
<1>6. /\ Launches \subseteq Launches \cup Runs \cup {"inspect"}
      /\ Runs \subseteq Launches \cup Runs \cup {"inspect"}
  OBVIOUS
<1>7. Ordered(s)
  BY <1>4, <1>5, <1>6, LacksOrder DEF Ordered
<1> QED
  BY <1>2, <1>7 DEF s

\* quotaPreflight.
LEMMA PreflightPlan ==
    /\ Preflight \in Seq(Steps)
    /\ StepsOf(Preflight) = {"compose", "verify", "inspect"}
    /\ Ordered(Preflight)
<1>1. "compose" \in Steps /\ "verify" \in Steps /\ "inspect" \in Steps
  BY DEF Steps, PreflightSteps
<1>2. Preflight \in Seq(Steps) /\ StepsOf(Preflight) = {"compose", "verify", "inspect"}
  BY <1>1, Steps3 DEF Preflight
<1> DEFINE s == Preflight
<1>3. Len(s) = 3 /\ s[1] = "compose" /\ s[2] = "verify" /\ s[3] = "inspect"
  BY DEF Preflight
<1> HIDE DEF s
<1>4. Behind(s, {"compose"}, Launches \cup Runs \cup {"inspect"})
  BY <1>3 DEF Behind, Launches, Runs
<1>5. Lacks(s, Launches \cup Runs) /\ Lacks(s, {"halt"})
  BY <1>2, StepsLacks DEF s, Launches, Runs
<1>6. Launches \subseteq Launches \cup Runs /\ Runs \subseteq Launches \cup Runs
  OBVIOUS
<1>7. Ordered(s)
  BY <1>4, <1>5, <1>6, LacksOrder DEF Ordered
<1> QED
  BY <1>2, <1>7 DEF s

\* startQuotaSite: a fence, a preflight, the launch, a preflight, the intent.
LEMMA StartPlan ==
    /\ StartQuotaSite \in Seq(Steps)
    /\ StepsOf(StartQuotaSite) = {"blocked", "rmjobs", "halt", "check", "compose", "verify",
                                  "inspect", "admit", "up", "settled", "running"}
    /\ Ordered(StartQuotaSite)
<1> DEFINE a == Fence("blocked") \o <<"check">>
           b == a \o Preflight
           c == b \o <<"admit", "up">>
           d == c \o Preflight
           e == d \o <<"settled", "running">>
<1>1. {"check", "admit", "up", "settled", "running"} \subseteq Steps
  BY DEF Steps, Intents
<1>2. /\ <<"check">> \in Seq(Steps) /\ StepsOf(<<"check">>) = {"check"}
      /\ <<"admit", "up">> \in Seq(Steps) /\ StepsOf(<<"admit", "up">>) = {"admit", "up"}
      /\ <<"settled", "running">> \in Seq(Steps)
      /\ StepsOf(<<"settled", "running">>) = {"settled", "running"}
  BY <1>1, Steps1, Steps2
<1>3. a \in Seq(Steps) /\ StepsOf(a) = {"blocked", "rmjobs", "halt", "check"} /\ Ordered(a)
  <2>1. Ordered(<<"check">>)
    BY <1>2, StepsLacks, PlainOrdered DEF Launches, Runs
  <2>2. Lacks(Fence("blocked"), {"running", "quiesce"})
    BY FencePlan, StepsLacks
  <2>3. Ordered(a)
    BY <1>2, <2>1, <2>2, FencePlan, ConcatOrdered
  <2>4. a \in Seq(Steps) /\ StepsOf(a) = StepsOf(Fence("blocked")) \cup StepsOf(<<"check">>)
    BY <1>2, FencePlan, ConcatSteps
  <2>5. StepsOf(Fence("blocked")) = {"blocked", "rmjobs", "halt"}
    BY FencePlan
  <2> QED
    BY <1>2, <2>3, <2>4, <2>5
<1> HIDE DEF a
<1>4. /\ b \in Seq(Steps) /\ Ordered(b)
      /\ StepsOf(b) = {"blocked", "rmjobs", "halt", "check", "compose", "verify", "inspect"}
  <2>1. Lacks(a, {"running", "quiesce"})
    BY <1>3, StepsLacks
  <2>2. Ordered(b)
    BY <1>3, <2>1, PreflightPlan, ConcatOrdered
  <2>3. b \in Seq(Steps) /\ StepsOf(b) = StepsOf(a) \cup StepsOf(Preflight)
    BY <1>3, PreflightPlan, ConcatSteps
  <2> QED
    BY <1>3, <2>2, <2>3, PreflightPlan
<1> HIDE DEF b
<1>5. /\ c \in Seq(Steps) /\ Ordered(c)
      /\ StepsOf(c) = {"blocked", "rmjobs", "halt", "check", "compose", "verify", "inspect",
                       "admit", "up"}
  <2>1. Lacks(<<"admit", "up">>, {"halt"})
    BY <1>2, StepsLacks
  <2>2. Ordered(c)
    BY <1>2, <1>4, <2>1, PreflightOrdered
  <2>3. c \in Seq(Steps) /\ StepsOf(c) = StepsOf(b) \cup {"admit", "up"}
    BY <1>2, <1>4, ConcatSteps
  <2> QED
    BY <1>4, <2>2, <2>3
<1> HIDE DEF c
<1>6. d \in Seq(Steps) /\ Ordered(d) /\ StepsOf(d) = StepsOf(c)
  <2>1. Lacks(Preflight, {"halt"})
    BY PreflightPlan, StepsLacks
  <2>2. Ordered(d)
    BY <1>5, <2>1, PreflightPlan, PreflightOrdered
  <2>3. d \in Seq(Steps) /\ StepsOf(d) = StepsOf(c) \cup StepsOf(Preflight)
    BY <1>5, PreflightPlan, ConcatSteps
  <2> QED
    BY <1>5, <2>2, <2>3, PreflightPlan
<1> HIDE DEF d
<1>7. e \in Seq(Steps) /\ Ordered(e) /\ StepsOf(e) = StepsOf(c) \cup {"settled", "running"}
  <2>1. Lacks(<<"settled", "running">>, {"halt"})
    BY <1>2, StepsLacks
  <2>2. Ordered(e)
    BY <1>2, <1>5, <1>6, <2>1, PreflightOrdered
  <2>3. /\ e \in Seq(Steps)
        /\ StepsOf(e) = StepsOf(d) \cup StepsOf(<<"settled", "running">>)
    BY <1>2, <1>6, ConcatSteps
  <2> QED
    BY <1>2, <1>6, <2>2, <2>3
<1>8. e = StartQuotaSite
  BY DEF StartQuotaSite, a, b, c, d
<1> HIDE DEF e
<1> QED
  BY <1>5, <1>7, <1>8

\* A plan that begins with the preflight and applies no fence.
LEMMA WritePlan ==
    ASSUME NEW b \in Seq(Steps), "halt" \notin StepsOf(b)
    PROVE  /\ Preflight \o b \in Seq(Steps) /\ Ordered(Preflight \o b)
           /\ StepsOf(Preflight \o b) = {"compose", "verify", "inspect"} \cup StepsOf(b)
<1>1. Lacks(b, {"halt"})
  BY StepsLacks
<1>2. Ordered(Preflight \o b)
  BY <1>1, PreflightPlan, PreflightOrdered
<1> QED
  BY <1>2, PreflightPlan, ConcatSteps

\* Checks before a plan that is in order.
LEMMA AfterPlan ==
    ASSUME NEW a \in Seq(Steps), NEW b \in Seq(Steps), Ordered(b),
           StepsOf(a) \cap (Launches \cup Runs \cup {"inspect", "halt", "quiesce"}) = {}
    PROVE  a \o b \in Seq(Steps) /\ Ordered(a \o b) /\ StepsOf(a \o b) = StepsOf(a) \cup StepsOf(b)
<1>1. Lacks(a, Launches \cup Runs \cup {"inspect", "halt"}) /\ Lacks(a, {"running", "quiesce"})
  BY StepsLacks DEF Runs
<1>2. Ordered(a)
  BY <1>1, PlainOrdered
<1>3. Ordered(a \o b)
  BY <1>1, <1>2, ConcatOrdered
<1> QED
  BY <1>3, ConcatSteps

\* Stopping a site: what a deletion and a stop begin with.
LEMMA StopPlan ==
    /\ StopQuotaSite \in Seq(Steps) /\ Ordered(StopQuotaSite)
    /\ StepsOf(StopQuotaSite) = {"stopped", "rmjobs", "halt", "check", "closetool", "stopall"}
    /\ Behind(StopQuotaSite, {"stopped", "maintenance", "rmdir"}, {"check"})
<1> DEFINE b == <<"check", "closetool", "stopall">>
<1>1. b \in Seq(Steps) /\ StepsOf(b) = {"check", "closetool", "stopall"}
  <2>1. {"check", "closetool", "stopall"} \subseteq Steps
    BY DEF Steps
  <2> QED
    BY <2>1, Steps3
<1> HIDE DEF b
<1>2. Ordered(b)
  BY <1>1, StepsLacks, PlainOrdered DEF Launches, Runs
<1>3. /\ Fence("stopped") \in Seq(Steps) /\ Ordered(Fence("stopped"))
      /\ StepsOf(Fence("stopped")) = {"stopped", "rmjobs", "halt"}
  BY FencePlan
<1>4. Lacks(b, {"halt"})
  BY <1>1, StepsLacks
<1>5. Ordered(Fence("stopped") \o b)
  BY <1>1, <1>2, <1>3, <1>4, ConcatOrdered
<1>6. Fence("stopped") \o b \in Seq(Steps) /\ StepsOf(Fence("stopped") \o b) = StepsOf(Fence("stopped")) \cup StepsOf(b)
  BY <1>1, <1>3, ConcatSteps
<1>7. StopQuotaSite = Fence("stopped") \o b
  BY DEF StopQuotaSite, b
<1>8. Lacks(Fence("stopped"), {"check"}) /\ ~Lacks(Fence("stopped"), {"stopped", "maintenance", "rmdir"})
  <2>1. "check" \notin StepsOf(Fence("stopped")) /\ "stopped" \in StepsOf(Fence("stopped"))
    BY <1>3
  <2>2. Lacks(Fence("stopped"), {"check"})
    BY <2>1, StepsLacks
  <2>3. ~Lacks(Fence("stopped"), {"stopped", "maintenance", "rmdir"})
    BY <2>1, StepsLacks
  <2> QED
    BY <2>2, <2>3
<1>9. Behind(Fence("stopped"), {"stopped", "maintenance", "rmdir"}, {"check"})
  BY <1>8, LacksOrder
<1>10. Behind(Fence("stopped") \o b, {"stopped", "maintenance", "rmdir"}, {"check"})
  BY <1>1, <1>3, <1>8, <1>9, ConcatOrder
<1> QED
  BY <1>1, <1>3, <1>5, <1>6, <1>7, <1>10

\* A deletion stops the site before it takes it down, and that before it removes
\* the directory.
LEMMA DeletePlan ==
    /\ DeleteQuotaSite \in Seq(Steps) /\ Ordered(DeleteQuotaSite)
    /\ StepsOf(DeleteQuotaSite) \subseteq
          {"stopped", "rmjobs", "halt", "check", "closetool", "down", "rmdir", "absent"}
    /\ "rmdir" \in StepsOf(DeleteQuotaSite)
    /\ compose => Behind(DeleteQuotaSite, {"down"}, {"rmdir"})
    /\ compose /\ Marked => /\ Behind(DeleteQuotaSite, {"stopped"}, {"check", "rmdir"})
                             /\ Behind(DeleteQuotaSite, {"check"}, {"rmdir"})
    /\ Behind(DeleteQuotaSite, {"stopped", "maintenance", "rmdir"}, {"check"})
<1> DEFINE b == <<"closetool", "down", "rmdir">>
<1>0. {"check", "closetool", "down", "rmdir", "absent"} \subseteq Steps
  BY DEF Steps
<1>1. b \in Seq(Steps) /\ StepsOf(b) = {"closetool", "down", "rmdir"}
  BY <1>0, Steps3
<1>2. Behind(b, {"down"}, {"rmdir"})
  <2>1. Len(b) = 3 /\ b[1] = "closetool" /\ b[2] = "down" /\ b[3] = "rmdir"
    OBVIOUS
  <2> HIDE DEF b
  <2> QED
    BY <2>1 DEF Behind
<1> HIDE DEF b
<1>3. Ordered(b) /\ Lacks(b, {"halt"})
  BY <1>1, StepsLacks, PlainOrdered DEF Launches, Runs
<1>4. CASE compose /\ Marked
  <2> DEFINE a == Fence("stopped") \o <<"check">>
  <2>1. /\ Fence("stopped") \in Seq(Steps) /\ Ordered(Fence("stopped"))
        /\ StepsOf(Fence("stopped")) = {"stopped", "rmjobs", "halt"}
    BY FencePlan
  <2>2. <<"check">> \in Seq(Steps) /\ StepsOf(<<"check">>) = {"check"}
    BY <1>0, Steps1
  <2>3. Ordered(<<"check">>) /\ Lacks(<<"check">>, {"halt"})
    BY <2>2, StepsLacks, PlainOrdered DEF Launches, Runs
  <2>4. Ordered(a)
    BY <2>1, <2>2, <2>3, ConcatOrdered
  <2>5. a \in Seq(Steps) /\ StepsOf(a) = StepsOf(Fence("stopped")) \cup StepsOf(<<"check">>)
    BY <2>1, <2>2, ConcatSteps
  <2>6. DeleteQuotaSite = a \o b
    BY <1>4 DEF DeleteQuotaSite, b
  <2> HIDE DEF a
  <2>7. StepsOf(a) = {"stopped", "rmjobs", "halt", "check"}
    BY <2>1, <2>2, <2>5
  <2>8. Ordered(a \o b)
    BY <1>1, <1>3, <2>4, <2>5, ConcatOrdered
  <2>9. a \o b \in Seq(Steps) /\ StepsOf(a \o b) = StepsOf(a) \cup StepsOf(b)
    BY <1>1, <2>5, ConcatSteps
  <2>10. Behind(a \o b, {"down"}, {"rmdir"}) /\ Behind(a \o b, {"check"}, {"rmdir"})
    <3>1. Lacks(a, {"rmdir"}) /\ ~Lacks(a, {"check"})
      BY <2>7, StepsLacks
    <3>2. Behind(a, {"down"}, {"rmdir"}) /\ Behind(a, {"check"}, {"rmdir"})
      BY <3>1, LacksOrder
    <3> QED
      BY <1>1, <1>2, <2>5, <3>1, <3>2, ConcatOrder
  <2>11. /\ Behind(a, {"stopped"}, {"check", "rmdir"})
         /\ Behind(a, {"stopped", "maintenance", "rmdir"}, {"check"})
    <3>1. /\ Lacks(Fence("stopped"), {"check", "rmdir"}) /\ Lacks(Fence("stopped"), {"check"})
          /\ ~Lacks(Fence("stopped"), {"stopped"})
          /\ ~Lacks(Fence("stopped"), {"stopped", "maintenance", "rmdir"})
      <4>1. /\ "check" \notin StepsOf(Fence("stopped")) /\ "rmdir" \notin StepsOf(Fence("stopped"))
            /\ "stopped" \in StepsOf(Fence("stopped"))
        BY <2>1
      <4>2. Lacks(Fence("stopped"), {"check", "rmdir"}) /\ Lacks(Fence("stopped"), {"check"})
        BY <4>1, StepsLacks
      <4>3. ~Lacks(Fence("stopped"), {"stopped"})
        BY <4>1, StepsLacks
      <4>4. ~Lacks(Fence("stopped"), {"stopped", "maintenance", "rmdir"})
        BY <4>1, StepsLacks
      <4> QED
        BY <4>2, <4>3, <4>4
    <3>2. /\ Behind(Fence("stopped"), {"stopped"}, {"check", "rmdir"})
          /\ Behind(Fence("stopped"), {"stopped", "maintenance", "rmdir"}, {"check"})
      BY <3>1, LacksOrder
    <3> QED
      BY <2>1, <2>2, <3>1, <3>2, ConcatOrder DEF a
  <2>12. /\ Behind(a \o b, {"stopped"}, {"check", "rmdir"})
         /\ Behind(a \o b, {"stopped", "maintenance", "rmdir"}, {"check"})
    <3>1. ~Lacks(a, {"stopped"}) /\ ~Lacks(a, {"stopped", "maintenance", "rmdir"})
      BY <2>7, StepsLacks
    <3> QED
      BY <1>1, <2>5, <2>11, <3>1, ConcatOrder
  <2> QED
    BY <1>1, <2>6, <2>7, <2>8, <2>9, <2>10, <2>12
<1>5. CASE compose /\ ~Marked
  <2>1. DeleteQuotaSite = <<>> \o b
    BY <1>5 DEF DeleteQuotaSite, b
  <2>2. <<>> \o b = b
    BY <1>1
  <2>3. Lacks(b, {"check"})
    BY <1>1, StepsLacks
  <2> QED
    BY <1>1, <1>2, <1>3, <1>5, <2>1, <2>2, <2>3, LacksOrder
<1>6. CASE ~compose
  <2> DEFINE c == <<"absent", "rmdir">>
  <2>1. DeleteQuotaSite = c
    BY <1>6 DEF DeleteQuotaSite
  <2>2. c \in Seq(Steps) /\ StepsOf(c) = {"absent", "rmdir"}
    BY <1>0, Steps2
  <2> HIDE DEF c
  <2>3. Ordered(c)
    BY <2>2, StepsLacks, PlainOrdered DEF Launches, Runs
  <2>4. Lacks(c, {"check"})
    BY <2>2, StepsLacks
  <2> QED
    BY <1>6, <2>1, <2>2, <2>3, <2>4, LacksOrder
<1> QED
  BY <1>4, <1>5, <1>6

\* A deletion neither launches nor lets the site run, and only it removes the
\* directory; only a start and a restore let the site run.
Proper(kind, U) ==
    /\ U \subseteq Steps
    /\ U \cap {"assess", "survey", "quiesce", "receipt"} = {}
    /\ kind # "delete" => "rmdir" \notin U
    /\ kind = "delete" => U \cap (Launches \cup Runs \cup {"compose", "inspect"}) = {}
    /\ kind \notin {"start", "restore"} => "running" \notin U
    /\ kind = "stop" => "stopped" \in U
    /\ kind = "prepare-restore" => "maintenance" \in U /\ "check" \notin U
    /\ kind = "delete" => "rmdir" \in U

\* The handlers, before finishQuotaWrite and finish.
LEMMA HandlerPlan ==
    ASSUME NEW kind \in Tracked \cup Untracked
    PROVE  /\ Handler(kind) \in Seq(Steps) /\ Ordered(Handler(kind))
           /\ Proper(kind, StepsOf(Handler(kind)))
<1>0. {"stat", "admit", "refuse", "maintenance", "stopwp", "updb", "job", "wait", "upwp", "running",
       "snapshot", "closetool", "stopall", "restart", "uptool"} \subseteq Steps
  BY DEF Steps, Intents
<1>1. CASE kind = "start"
  <2> DEFINE a == <<"stat", "admit">>
  <2>1. a \in Seq(Steps) /\ StepsOf(a) = {"stat", "admit"}
    BY <1>0, Steps2
  <2>2. Handler(kind) = a \o StartQuotaSite
    BY <1>1 DEF Handler
  <2> HIDE DEF a
  <2>3. StepsOf(a) \cap (Launches \cup Runs \cup {"inspect", "halt", "quiesce"}) = {}
    BY <2>1 DEF Launches, Runs
  <2>4. /\ a \o StartQuotaSite \in Seq(Steps) /\ Ordered(a \o StartQuotaSite)
        /\ StepsOf(a \o StartQuotaSite) = StepsOf(a) \cup StepsOf(StartQuotaSite)
    BY <2>1, <2>3, StartPlan, AfterPlan
  <2> DEFINE U == StepsOf(a \o StartQuotaSite)
  <2>5. U = {"stat", "admit", "blocked", "rmjobs", "halt", "check", "compose", "verify",
             "inspect", "up", "settled", "running"}
    BY <2>1, <2>4, StartPlan
  <2>6. Proper(kind, U)
    <3> HIDE DEF U
    <3> QED
      BY <1>1, <2>5 DEF Proper, Steps, Intents, FenceSteps, PreflightSteps
  <2> QED
    BY <2>2, <2>4, <2>6
<1>2. CASE kind = "stop"
  <2> DEFINE a == <<"stat">>
  <2>1. a \in Seq(Steps) /\ StepsOf(a) = {"stat"}
    BY <1>0, Steps1
  <2>2. Handler(kind) = a \o StopQuotaSite
    BY <1>2 DEF Handler
  <2> HIDE DEF a
  <2>3. StepsOf(a) \cap (Launches \cup Runs \cup {"inspect", "halt", "quiesce"}) = {}
    BY <2>1 DEF Launches, Runs
  <2>4. /\ a \o StopQuotaSite \in Seq(Steps) /\ Ordered(a \o StopQuotaSite)
        /\ StepsOf(a \o StopQuotaSite) = StepsOf(a) \cup StepsOf(StopQuotaSite)
    BY <2>1, <2>3, StopPlan, AfterPlan
  <2> DEFINE U == StepsOf(a \o StopQuotaSite)
  <2>5. U = {"stat", "stopped", "rmjobs", "halt", "check", "closetool", "stopall"}
    BY <2>1, <2>4, StopPlan
  <2>6. Proper(kind, U)
    <3> HIDE DEF U
    <3> QED
      BY <1>2, <2>5 DEF Proper, Steps, Intents, FenceSteps, PreflightSteps
  <2> QED
    BY <2>2, <2>4, <2>6
<1>3. CASE kind = "delete"
  <2>1. Handler(kind) = DeleteQuotaSite
    BY <1>3 DEF Handler
  <2> DEFINE U == StepsOf(DeleteQuotaSite)
  <2>2. /\ U \subseteq {"stopped", "rmjobs", "halt", "check", "closetool", "down", "rmdir", "absent"}
        /\ "rmdir" \in U
    BY DeletePlan
  <2>3. Proper(kind, U)
    <3> HIDE DEF U
    <3> QED
      BY <1>3, <2>2 DEF Proper, Steps, Intents, FenceSteps, PreflightSteps, Launches, Runs
  <2> QED
    BY <2>1, <2>3, DeletePlan
<1>4. CASE kind = "create"
  <2> DEFINE a == <<"refuse">>
  <2>1. a \in Seq(Steps) /\ StepsOf(a) = {"refuse"}
    BY <1>0, Steps1
  <2>2. Handler(kind) = a
    BY <1>4 DEF Handler
  <2> HIDE DEF a
  <2>3. Ordered(a)
    BY <2>1, StepsLacks, PlainOrdered DEF Launches, Runs
  <2>4. Proper(kind, StepsOf(a))
    BY <1>4, <2>1, <1>0 DEF Proper
  <2> QED
    BY <2>1, <2>2, <2>3, <2>4
<1>5. CASE kind = "prepare-restore"
  <2> DEFINE a == <<"stat">>
             b == <<"maintenance", "stopwp", "updb">>
  <2>1. a \in Seq(Steps) /\ StepsOf(a) = {"stat"}
    BY <1>0, Steps1
  <2>2. b \in Seq(Steps) /\ StepsOf(b) = {"maintenance", "stopwp", "updb"}
    BY <1>0, Steps3
  <2>3. Handler(kind) = a \o PrepareRestore /\ PrepareRestore = Preflight \o b
    BY <1>5 DEF Handler, PrepareRestore
  <2> HIDE DEF a, b
  <2>4. /\ PrepareRestore \in Seq(Steps) /\ Ordered(PrepareRestore)
        /\ StepsOf(PrepareRestore) = {"compose", "verify", "inspect"} \cup StepsOf(b)
    <3>1. "halt" \notin StepsOf(b)
      BY <2>2
    <3> QED
      BY <2>2, <2>3, <3>1, WritePlan
  <2>5. StepsOf(a) \cap (Launches \cup Runs \cup {"inspect", "halt", "quiesce"}) = {}
    BY <2>1 DEF Launches, Runs
  <2>6. /\ a \o PrepareRestore \in Seq(Steps) /\ Ordered(a \o PrepareRestore)
        /\ StepsOf(a \o PrepareRestore) = StepsOf(a) \cup StepsOf(PrepareRestore)
    BY <2>1, <2>4, <2>5, AfterPlan
  <2> DEFINE U == StepsOf(a \o PrepareRestore)
  <2>7. U = {"stat", "compose", "verify", "inspect", "maintenance", "stopwp", "updb"}
    BY <2>1, <2>2, <2>4, <2>6
  <2>8. Proper(kind, U)
    <3> HIDE DEF U
    <3> QED
      BY <1>5, <2>7 DEF Proper, Steps, Intents, FenceSteps, PreflightSteps
  <2> QED
    BY <2>3, <2>6, <2>8
<1>6. ASSUME NEW b \in Seq(Steps), NEW V, StepsOf(b) = V,
             V \subseteq {"stopwp", "updb", "job", "wait", "upwp", "running", "snapshot", "admit",
                          "closetool", "stopall", "restart", "uptool"},
             kind \in {"restore", "update", "backup", "resources", "tool", "write"},
             "running" \in V => kind = "restore",
             Handler(kind) = Preflight \o b
      PROVE  /\ Handler(kind) \in Seq(Steps) /\ Ordered(Handler(kind))
             /\ Proper(kind, StepsOf(Handler(kind)))
  <2>1. /\ Preflight \o b \in Seq(Steps) /\ Ordered(Preflight \o b)
        /\ StepsOf(Preflight \o b) = {"compose", "verify", "inspect"} \cup V
    <3>1. "halt" \notin StepsOf(b)
      BY <1>6
    <3> QED
      BY <1>6, <3>1, WritePlan
  <2> DEFINE U == StepsOf(Preflight \o b)
  <2>2. U = {"compose", "verify", "inspect"} \cup V
    BY <2>1
  <2>3. Proper(kind, U)
    <3> HIDE DEF U
    <3> QED
      BY <1>6, <2>2 DEF Proper, Steps, Intents, FenceSteps, PreflightSteps
  <2> QED
    BY <1>6, <2>1, <2>3
<1>7. CASE kind = "restore"
  <2> DEFINE b == <<"stopwp", "updb", "job", "wait", "upwp", "running">>
  <2>1. b \in Seq(Steps) /\ StepsOf(b) = {"stopwp", "updb", "job", "wait", "upwp", "running"}
    <3>1. /\ b \in Seq(Steps) /\ Len(b) = 6
          /\ b[1] = "stopwp" /\ b[2] = "updb" /\ b[3] = "job"
          /\ b[4] = "wait" /\ b[5] = "upwp" /\ b[6] = "running"
      BY <1>0
    <3> HIDE DEF b
    <3>2. 1..6 = {1, 2, 3, 4, 5, 6}
      OBVIOUS
    <3>3. StepsOf(b) = {b[1], b[2], b[3], b[4], b[5], b[6]}
      BY <3>1, <3>2 DEF StepsOf
    <3> QED
      BY <3>1, <3>3
  <2>2. Handler(kind) = Preflight \o b
    BY <1>7 DEF Handler, Restore
  <2> HIDE DEF b
  <2> QED
    BY <1>6, <1>7, <2>1, <2>2
<1>8. CASE kind \in {"update", "backup"}
  <2> DEFINE b == <<"job", "wait">>
  <2>1. b \in Seq(Steps) /\ StepsOf(b) = {"job", "wait"}
    BY <1>0, Steps2
  <2>2. Handler(kind) = Preflight \o b
    BY <1>8 DEF Handler
  <2> HIDE DEF b
  <2> QED
    BY <1>6, <1>8, <2>1, <2>2
<1>9. CASE kind = "resources"
  <2> DEFINE b == <<"snapshot", "admit", "closetool", "stopall", "restart">>
  <2>1. b \in Seq(Steps) /\ StepsOf(b) = {"snapshot", "admit", "closetool", "stopall", "restart"}
    <3>1. /\ b \in Seq(Steps) /\ Len(b) = 5
          /\ b[1] = "snapshot" /\ b[2] = "admit" /\ b[3] = "closetool"
          /\ b[4] = "stopall" /\ b[5] = "restart"
      BY <1>0
    <3> HIDE DEF b
    <3>2. 1..5 = {1, 2, 3, 4, 5}
      OBVIOUS
    <3>3. StepsOf(b) = {b[1], b[2], b[3], b[4], b[5]}
      BY <3>1, <3>2 DEF StepsOf
    <3> QED
      BY <3>1, <3>3
  <2>2. Handler(kind) = Preflight \o b
    BY <1>9 DEF Handler, ChangeResources
  <2> HIDE DEF b
  <2> QED
    BY <1>6, <1>9, <2>1, <2>2
<1>10. CASE kind = "tool"
  <2> DEFINE b == <<"uptool">>
  <2>1. b \in Seq(Steps) /\ StepsOf(b) = {"uptool"}
    BY <1>0, Steps1
  <2>2. Handler(kind) = Preflight \o b
    BY <1>10 DEF Handler
  <2> HIDE DEF b
  <2> QED
    BY <1>6, <1>10, <2>1, <2>2
<1>11. CASE kind = "write"
  <2>1. Handler(kind) = Preflight
    BY <1>11 DEF Handler
  <2>2. Preflight = Preflight \o <<>>
    BY PreflightPlan
  <2> QED
    BY <1>6, <1>11, <2>1, <2>2, Steps0
<1> QED
  BY <1>1, <1>2, <1>3, <1>4, <1>5, <1>7, <1>8, <1>9, <1>10, <1>11 DEF Tracked, Untracked

\* The receipt closes the request: it is the last step, and there is one.
LEMMA ClosingPlan ==
    ASSUME NEW a \in Seq(Steps), "receipt" \notin StepsOf(a)
    PROVE  /\ a \o <<"receipt">> \in Seq(Steps)
           /\ StepsOf(a \o <<"receipt">>) = StepsOf(a) \cup {"receipt"}
           /\ Parted(a \o <<"receipt">>, {"receipt"}, Steps)
           /\ Parted(a \o <<"receipt">>, {"receipt"}, {"receipt"})
           /\ Ordered(a) => Ordered(a \o <<"receipt">>)
           /\ \A S, T : Behind(a, S, T) /\ "receipt" \notin T => Behind(a \o <<"receipt">>, S, T)
           /\ \A S : ~Lacks(a, S) => Behind(a \o <<"receipt">>, S, {"receipt"})
           /\ \A S, T : Behind(a, S, T) /\ ~Lacks(a, S) => Behind(a \o <<"receipt">>, S, T)
<1> DEFINE b == <<"receipt">>
<1>1. b \in Seq(Steps) /\ StepsOf(b) = {"receipt"} /\ Len(b) = 1 /\ b[1] = "receipt"
  <2>1. "receipt" \in Steps
    BY DEF Steps
  <2> QED
    BY <2>1, Steps1
<1> HIDE DEF b
<1>2. \A S, T : Parted(b, S, T)
  BY <1>1 DEF Parted
<1>3. Lacks(a, {"receipt"}) /\ Lacks(b, {"halt"})
  BY <1>1, StepsLacks
<1>4. Parted(a, {"receipt"}, Steps) /\ Parted(a, {"receipt"}, {"receipt"})
  BY <1>3, LacksOrder
<1>5. Parted(a \o b, {"receipt"}, Steps) /\ Parted(a \o b, {"receipt"}, {"receipt"})
  BY <1>1, <1>2, <1>3, <1>4, ConcatOrder
<1>6. Ordered(b)
  BY <1>1, StepsLacks, PlainOrdered DEF Launches, Runs
<1>7. Ordered(a) => Ordered(a \o b)
  BY <1>1, <1>3, <1>6, ConcatOrdered
<1>8. ASSUME NEW S, NEW T, Behind(a, S, T), "receipt" \notin T
      PROVE  Behind(a \o b, S, T)
  <2>1. Lacks(b, T)
    BY <1>1, <1>8, StepsLacks
  <2>2. Behind(b, S, T)
    BY <2>1, LacksOrder
  <2> QED
    BY <1>1, <1>8, <2>2, ConcatOrder
<1>9. ASSUME NEW S, ~Lacks(a, S)
      PROVE  Behind(a \o b, S, {"receipt"})
  <2>1. Behind(a, S, {"receipt"})
    BY <1>3, LacksOrder
  <2> QED
    BY <1>1, <1>9, <2>1, ConcatOrder
<1>10. a \o b \in Seq(Steps) /\ StepsOf(a \o b) = StepsOf(a) \cup {"receipt"}
  BY <1>1, ConcatSteps
<1>11. \A S, T : Behind(a, S, T) /\ ~Lacks(a, S) => Behind(a \o b, S, T)
  BY <1>1, ConcatOrder
<1> QED
  BY <1>5, <1>7, <1>8, <1>9, <1>10, <1>11 DEF b

\* The handler and finishQuotaWrite's check of its result.
CheckedHandler(kind) ==
    Handler(kind) \o (IF kind \in Finishing THEN <<"post">> \o Preflight ELSE <<>>)

\* The plan of every request is ordered and has only steps its kind may take.
LEMMA CheckedPlan ==
    ASSUME NEW kind \in Tracked \cup Untracked
    PROVE  /\ CheckedHandler(kind) \in Seq(Steps) /\ Ordered(CheckedHandler(kind))
           /\ Proper(kind, StepsOf(CheckedHandler(kind)))
           /\ kind = "delete" => CheckedHandler(kind) = DeleteQuotaSite
           /\ kind = "stop" => CheckedHandler(kind) = <<"stat">> \o StopQuotaSite
<1> DEFINE h == Handler(kind)
           f == <<"post">> \o Preflight
<1>1. h \in Seq(Steps) /\ Ordered(h) /\ Proper(kind, StepsOf(h))
  BY HandlerPlan
<1>2. f \in Seq(Steps) /\ Ordered(f) /\ StepsOf(f) = {"post", "compose", "verify", "inspect"}
  <2> DEFINE p == <<"post">>
  <2>1. p \in Seq(Steps) /\ StepsOf(p) = {"post"}
    <3>1. "post" \in Steps
      BY DEF Steps
    <3> QED
      BY <3>1, Steps1
  <2>2. f = p \o Preflight
    OBVIOUS
  <2> HIDE DEF p, f
  <2>3. StepsOf(p) \cap (Launches \cup Runs \cup {"inspect", "halt", "quiesce"}) = {}
    BY <2>1 DEF Launches, Runs
  <2>4. f \in Seq(Steps) /\ Ordered(f) /\ StepsOf(f) = StepsOf(p) \cup StepsOf(Preflight)
    BY <2>1, <2>2, <2>3, PreflightPlan, AfterPlan
  <2> QED
    BY <2>1, <2>4, PreflightPlan
<1>3. CASE kind \in Finishing
  <2>1. CheckedHandler(kind) = h \o f /\ kind # "delete" /\ kind # "stop"
    BY <1>3 DEF CheckedHandler, Finishing
  <2> HIDE DEF h, f
  <2>2. Lacks(f, {"halt"})
    BY <1>2, StepsLacks
  <2>3. Ordered(h \o f)
    BY <1>1, <1>2, <2>2, ConcatOrdered
  <2>4. h \o f \in Seq(Steps) /\ StepsOf(h \o f) = StepsOf(h) \cup StepsOf(f)
    BY <1>1, <1>2, ConcatSteps
  <2> DEFINE U == StepsOf(h)
             V == StepsOf(h \o f)
  <2>5. V = U \cup {"post", "compose", "verify", "inspect"} /\ Proper(kind, U)
    BY <1>1, <1>2, <2>4
  <2>6. Proper(kind, V)
    <3> HIDE DEF U, V
    <3> QED
      BY <2>1, <2>5 DEF Proper, Steps, PreflightSteps
  <2> QED
    BY <2>1, <2>3, <2>4, <2>6
<1>4. CASE kind \notin Finishing
  <2>1. CheckedHandler(kind) = h \o <<>>
    BY <1>4 DEF CheckedHandler
  <2>2. h \o <<>> = h
    BY <1>1
  <2>3. /\ kind = "delete" => h = DeleteQuotaSite
        /\ kind = "stop" => h = <<"stat">> \o StopQuotaSite
    BY DEF Handler
  <2> QED
    BY <1>1, <2>1, <2>2, <2>3
<1> QED
  BY <1>3, <1>4

\* What a request begins with.
LEMMA RequestPlan ==
    ASSUME NEW kind \in Tracked \cup Untracked, NEW w, w = WholeRequest(kind)
    PROVE  /\ w \in Seq(Steps) /\ Ordered(w)
           /\ Lacks(w, {"assess", "survey"}) /\ Lacks(w, {"quiesce"}) /\ Lacks(w, {"survey"})
           /\ kind # "delete" => Lacks(w, {"rmdir"})
           /\ kind = "delete" => /\ Lacks(w, Launches \cup Runs \cup {"compose", "inspect", "survey"})
                                 /\ compose => Behind(w, {"down"}, {"rmdir"})
                                 /\ compose /\ Marked => /\ Behind(w, {"stopped"}, {"check", "rmdir"})
                                                          /\ Behind(w, {"check"}, {"rmdir"})
           /\ kind \notin {"start", "restore"} => Lacks(w, {"running"})
           /\ kind \in Tracked => Parted(w, {"receipt"}, Steps)
           /\ kind \notin Tracked => Lacks(w, {"receipt"})
           /\ Parted(w, {"receipt"}, {"receipt"})
           /\ kind \in {"stop", "prepare-restore", "delete"} =>
                 /\ Behind(w, {"stopped", "maintenance", "rmdir"}, {"check", "receipt"})
                 /\ Behind(w, {"check", "maintenance", "rmdir"}, {"receipt"})
<1> DEFINE c == CheckedHandler(kind)
<1>1. /\ c \in Seq(Steps) /\ Ordered(c) /\ Proper(kind, StepsOf(c))
      /\ kind = "delete" => c = DeleteQuotaSite
      /\ kind = "stop" => c = <<"stat">> \o StopQuotaSite
  BY CheckedPlan
<1>2. w = c \o (IF kind \in Tracked THEN <<"receipt">> ELSE <<>>)
  BY DEF WholeRequest, CheckedHandler
<1> HIDE DEF c
<1>3. "receipt" \notin StepsOf(c)
  BY <1>1 DEF Proper
<1>4. /\ w \in Seq(Steps) /\ Ordered(w)
      /\ StepsOf(w) = StepsOf(c) \cup (IF kind \in Tracked THEN {"receipt"} ELSE {})
      /\ Parted(w, {"receipt"}, {"receipt"})
      /\ kind \in Tracked => Parted(w, {"receipt"}, Steps)
  <2>1. CASE kind \in Tracked
    BY <1>1, <1>2, <1>3, <2>1, ClosingPlan
  <2>2. CASE kind \notin Tracked
    <3>1. w = c
      BY <1>1, <1>2, <2>2
    <3>2. Lacks(c, {"receipt"})
      BY <1>3, StepsLacks
    <3> QED
      BY <1>1, <2>2, <3>1, <3>2, LacksOrder
  <2> QED
    BY <2>1, <2>2
<1>5. /\ Lacks(w, {"assess", "survey"}) /\ Lacks(w, {"quiesce"}) /\ Lacks(w, {"survey"})
      /\ kind # "delete" => Lacks(w, {"rmdir"})
      /\ kind = "delete" => Lacks(w, Launches \cup Runs \cup {"compose", "inspect", "survey"})
      /\ kind \notin {"start", "restore"} => Lacks(w, {"running"})
      /\ kind \notin Tracked => Lacks(w, {"receipt"})
  <2> DEFINE U == StepsOf(c)
             V == StepsOf(w)
  <2>1. V = U \cup (IF kind \in Tracked THEN {"receipt"} ELSE {}) /\ Proper(kind, U)
    BY <1>1, <1>4
  <2>2. \A T : Lacks(w, T) <=> V \cap T = {}
    BY StepsLacks
  <2> HIDE DEF U, V
  <2>3. kind = "delete" => Lacks(w, Launches \cup Runs \cup {"compose", "inspect", "survey"})
    BY <2>1, <2>2 DEF Proper, Launches, Runs
  <2> QED
    BY <2>1, <2>2, <2>3 DEF Proper
<1>6. kind \in {"stop", "prepare-restore", "delete"} =>
         /\ Behind(w, {"stopped", "maintenance", "rmdir"}, {"check", "receipt"})
         /\ Behind(w, {"check", "maintenance", "rmdir"}, {"receipt"})
  <2>1. SUFFICES ASSUME kind \in {"stop", "prepare-restore", "delete"}
                 PROVE  /\ Behind(w, {"stopped", "maintenance", "rmdir"}, {"check", "receipt"})
                        /\ Behind(w, {"check", "maintenance", "rmdir"}, {"receipt"})
    OBVIOUS
  <2>2. w = c \o <<"receipt">>
    BY <1>2, <2>1 DEF Tracked
  <2>3. /\ Behind(c, {"stopped", "maintenance", "rmdir"}, {"check"})
        /\ ~Lacks(c, {"check", "maintenance", "rmdir"})
    <3>1. CASE kind = "stop"
      <4> DEFINE a == <<"stat">>
      <4>1. a \in Seq(Steps) /\ StepsOf(a) = {"stat"}
        <5>1. "stat" \in Steps
          BY DEF Steps
        <5> QED
          BY <5>1, Steps1
      <4>2. c = a \o StopQuotaSite
        BY <1>1, <3>1
      <4> HIDE DEF a
      <4>3. Lacks(a, {"check"})
        BY <4>1, StepsLacks
      <4>4. Behind(a, {"stopped", "maintenance", "rmdir"}, {"check"})
        BY <4>3, LacksOrder
      <4>5. "check" \in StepsOf(StopQuotaSite) /\ StopQuotaSite \in Seq(Steps)
        BY StopPlan
      <4>6. "check" \in StepsOf(c)
        BY <4>1, <4>2, <4>5, ConcatSteps
      <4>7. Behind(c, {"stopped", "maintenance", "rmdir"}, {"check"})
        BY <4>1, <4>2, <4>4, StopPlan, ConcatOrder
      <4> QED
        BY <4>6, <4>7, StepsLacks
    <3>2. CASE kind = "prepare-restore"
      <4>1. Lacks(c, {"check"}) /\ "maintenance" \in StepsOf(c)
        BY <1>1, <3>2, StepsLacks DEF Proper
      <4> QED
        BY <4>1, StepsLacks, LacksOrder
    <3>3. CASE kind = "delete"
      BY <1>1, <3>3, StepsLacks, DeletePlan
    <3> QED
      BY <2>1, <3>1, <3>2, <3>3
  <2>4. Behind(c, {"stopped", "maintenance", "rmdir"}, {"check", "receipt"})
    <3>1. Lacks(c, {"receipt"})
      BY <1>3, StepsLacks
    <3> QED
      BY <2>3, <3>1 DEF Behind, Lacks
  <2>5. ~Lacks(c, {"stopped", "maintenance", "rmdir"})
    BY <1>1, <2>1, StepsLacks DEF Proper
  <2>6. Behind(w, {"stopped", "maintenance", "rmdir"}, {"check", "receipt"})
    BY <1>1, <1>3, <2>2, <2>4, <2>5, ClosingPlan
  <2> QED
    BY <1>1, <1>3, <2>2, <2>3, <2>6, ClosingPlan
<1>7. kind = "delete" => /\ compose => Behind(w, {"down"}, {"rmdir"})
                         /\ compose /\ Marked => /\ Behind(w, {"stopped"}, {"check", "rmdir"})
                                                  /\ Behind(w, {"check"}, {"rmdir"})
  <2>1. SUFFICES ASSUME kind = "delete"
                 PROVE  /\ compose => Behind(w, {"down"}, {"rmdir"})
                        /\ compose /\ Marked => /\ Behind(w, {"stopped"}, {"check", "rmdir"})
                                                 /\ Behind(w, {"check"}, {"rmdir"})
    OBVIOUS
  <2>2. w = c \o <<"receipt">> /\ c = DeleteQuotaSite
    BY <1>1, <1>2, <2>1 DEF Tracked
  <2>3. /\ compose => Behind(c, {"down"}, {"rmdir"})
        /\ compose /\ Marked => Behind(c, {"stopped"}, {"check", "rmdir"}) /\ Behind(c, {"check"}, {"rmdir"})
    BY <2>2, DeletePlan
  <2> QED
    BY <1>1, <1>3, <2>2, <2>3, ClosingPlan
<1> QED
  BY <1>4, <1>5, <1>6, <1>7

\* The steps of a way out.
Exit == {"blocked", "rmjobs", "halt", "quiesce", "receipt", "check"}

\* finish after an error: quiesceSite, then the receipt.
LEMMA ExitPlan ==
    ASSUME NEW a \in Seq(Steps), Ordered(a), StepsOf(a) \subseteq {"blocked", "rmjobs", "halt"},
           NEW w, w = a \o <<"quiesce", "receipt">>
    PROVE  /\ w \in Seq(Steps) /\ Ordered(w) /\ StepsOf(w) \subseteq Exit \ {"check"}
           /\ Parted(w, {"receipt"}, Steps) /\ Parted(w, {"receipt"}, {"receipt"})
           /\ Behind(w, {"quiesce"}, {"receipt"})
<1> DEFINE b == <<"quiesce", "receipt">>
<1>1. /\ b \in Seq(Steps) /\ StepsOf(b) = {"quiesce", "receipt"}
      /\ Len(b) = 2 /\ b[1] = "quiesce" /\ b[2] = "receipt"
  <2>1. "quiesce" \in Steps /\ "receipt" \in Steps
    BY DEF Steps
  <2> QED
    BY <2>1, Steps2
<1>2. w = a \o b
  OBVIOUS
<1> HIDE DEF b
<1>3. \A T : Parted(b, {"receipt"}, T)
  BY <1>1 DEF Parted
<1>4. Behind(b, {"quiesce"}, {"receipt"})
  BY <1>1 DEF Behind
<1>5. Lacks(a, {"receipt"}) /\ Lacks(b, {"halt"})
  BY <1>1, StepsLacks
<1>6. Ordered(b)
  BY <1>1, StepsLacks, PlainOrdered DEF Launches, Runs
<1>7. Ordered(w)
  BY <1>1, <1>2, <1>5, <1>6, ConcatOrdered
<1>8. \A T : Parted(a, {"receipt"}, T)
  BY <1>5, LacksOrder
<1>9. ASSUME NEW T PROVE Parted(w, {"receipt"}, T)
  <2>1. Parted(a, {"receipt"}, T) /\ Parted(b, {"receipt"}, T) /\ Lacks(a, {"receipt"}) =>
           Parted(a \o b, {"receipt"}, T)
    BY <1>1, ConcatOrder
  <2> QED
    BY <1>2, <1>3, <1>5, <1>8, <2>1
<1>10. Behind(a, {"quiesce"}, {"receipt"})
  BY <1>5, LacksOrder
<1>11. Behind(w, {"quiesce"}, {"receipt"})
  BY <1>1, <1>2, <1>4, <1>10, ConcatOrder
<1>12. w \in Seq(Steps) /\ StepsOf(w) = StepsOf(a) \cup StepsOf(b)
  <2>1. a \o b \in Seq(Steps) /\ StepsOf(a \o b) = StepsOf(a) \cup StepsOf(b)
    BY <1>1, ConcatSteps
  <2> QED
    BY <1>2, <2>1
<1>13. StepsOf(w) \subseteq Exit \ {"check"}
  BY <1>1, <1>12 DEF Exit
<1> QED
  BY <1>7, <1>9, <1>11, <1>12, <1>13

\* Nothing left to do.
LEMMA EmptyOrdered == Ordered(<<>>)
<1> DEFINE s == <<>>
<1>1. StepsOf(s) = {}
  BY Steps0
<1> HIDE DEF s
<1>2. Lacks(s, Launches \cup Runs \cup {"inspect", "halt"})
  BY <1>1, StepsLacks
<1>3. Ordered(s)
  BY <1>2, PlainOrdered
<1> QED
  BY <1>3 DEF s

\* What is left after an error.
LEMMA UnwindPlan ==
    ASSUME NEW t, NEW step, NEW u, u = Unwind(t, step)
    PROVE  /\ u \in Seq(Steps) /\ Ordered(u) /\ StepsOf(u) \subseteq Exit
           /\ t.kind \in Tracked => Parted(u, {"receipt"}, Steps)
           /\ t.kind \notin Tracked => Lacks(u, {"receipt"})
           /\ Parted(u, {"receipt"}, {"receipt"})
           /\ Behind(u, {"quiesce"}, {"receipt"})
<1> DEFINE a == IF Recoils(t, step) THEN Fence("blocked") ELSE <<>>
           b == IF t.kind \in Finishing /\ t.stage = "main" /\ step # "stat"
                THEN Fence("blocked") ELSE <<>>
           ab == a \o b
           c == IF t.kind \in Tracked THEN <<"quiesce", "receipt">> ELSE <<>>
           d == IF t.kind = "startup" /\ t.stage = "main" /\ step # "check"
                THEN <<"check">> ELSE <<>>
<1>1. u = (ab \o c) \o d
  BY DEF Unwind
<1>2. /\ <<>> \in Seq(Steps) /\ StepsOf(<<>>) = {} /\ Ordered(<<>>)
  BY Steps0, EmptyOrdered
<1>3. /\ Fence("blocked") \in Seq(Steps) /\ Ordered(Fence("blocked"))
      /\ StepsOf(Fence("blocked")) = {"blocked", "rmjobs", "halt"}
  BY FencePlan
<1>4. a \in Seq(Steps) /\ Ordered(a) /\ StepsOf(a) \subseteq {"blocked", "rmjobs", "halt"}
  BY <1>2, <1>3
<1>5. b \in Seq(Steps) /\ Ordered(b) /\ StepsOf(b) \subseteq {"blocked", "rmjobs", "halt"}
  BY <1>2, <1>3
<1> HIDE DEF a, b
<1>6. Lacks(a, {"running", "quiesce"})
  BY <1>4, StepsLacks
<1>7. Ordered(ab)
  BY <1>4, <1>5, <1>6, ConcatOrdered
<1>8. ab \in Seq(Steps) /\ StepsOf(ab) = StepsOf(a) \cup StepsOf(b)
  BY <1>4, <1>5, ConcatSteps
<1>9. StepsOf(ab) \subseteq {"blocked", "rmjobs", "halt"}
  BY <1>4, <1>5, <1>8
<1> HIDE DEF ab
<1>10. CASE t.kind \in Tracked
  <2>1. c = <<"quiesce", "receipt">> /\ d = <<>>
    BY <1>10 DEF Tracked
  <2>2. PICK w : w = ab \o <<"quiesce", "receipt">>
    OBVIOUS
  <2>3. /\ w \in Seq(Steps) /\ Ordered(w) /\ StepsOf(w) \subseteq Exit \ {"check"}
        /\ Parted(w, {"receipt"}, Steps) /\ Parted(w, {"receipt"}, {"receipt"})
        /\ Behind(w, {"quiesce"}, {"receipt"})
    BY <1>7, <1>8, <1>9, <2>2, ExitPlan
  <2>4. u = w \o <<>>
    BY <1>1, <2>1, <2>2
  <2>5. u = w
    BY <2>3, <2>4
  <2> QED
    BY <1>10, <2>3, <2>5
<1>11. CASE t.kind \notin Tracked
  <2>1. c = <<>>
    BY <1>11
  <2>2. u = ab \o d
    <3>1. ab \o <<>> = ab
      BY <1>8
    <3>2. u = (ab \o <<>>) \o d
      BY <1>1, <2>1
    <3> HIDE DEF d
    <3> QED
      BY <3>1, <3>2
  <2>3. d \in Seq(Steps) /\ StepsOf(d) \subseteq {"check"}
    <3>1. "check" \in Steps
      BY DEF Steps
    <3>2. <<"check">> \in Seq(Steps) /\ StepsOf(<<"check">>) = {"check"}
      BY <3>1, Steps1
    <3> QED
      BY <1>2, <3>2
  <2> HIDE DEF c, d
  <2>4. Ordered(d) /\ Lacks(d, {"halt"})
    BY <2>3, StepsLacks, PlainOrdered DEF Launches, Runs
  <2>5. Ordered(u)
    BY <1>7, <1>8, <2>2, <2>3, <2>4, ConcatOrdered
  <2>6. u \in Seq(Steps) /\ StepsOf(u) = StepsOf(ab) \cup StepsOf(d)
    BY <1>8, <2>2, <2>3, ConcatSteps
  <2>7. StepsOf(u) \subseteq {"blocked", "rmjobs", "halt", "check"}
    BY <1>9, <2>3, <2>6
  <2>8. Lacks(u, {"receipt"})
    BY <2>7, StepsLacks
  <2>9. Behind(u, {"quiesce"}, {"receipt"}) /\ Parted(u, {"receipt"}, {"receipt"})
    BY <2>8, LacksOrder
  <2>10. StepsOf(u) \subseteq Exit
    BY <2>7 DEF Exit
  <2> QED
    BY <1>11, <2>5, <2>6, <2>8, <2>9, <2>10
<1> QED
  BY <1>10, <1>11

\* A certified refusal: the check of finishQuotaWrite and the receipt.
LEMMA RejectPlan ==
    ASSUME NEW w, w = <<"post">> \o Preflight \o <<"receipt">>
    PROVE  /\ w \in Seq(Steps) /\ Ordered(w)
           /\ StepsOf(w) = {"post", "compose", "verify", "inspect", "receipt"}
           /\ Parted(w, {"receipt"}, Steps) /\ Parted(w, {"receipt"}, {"receipt"})
<1> DEFINE p == <<"post">>
           f == p \o Preflight
<1>1. p \in Seq(Steps) /\ StepsOf(p) = {"post"}
  <2>1. "post" \in Steps
    BY DEF Steps
  <2> QED
    BY <2>1, Steps1
<1>2. w = f \o <<"receipt">>
  OBVIOUS
<1> HIDE DEF p
<1>3. StepsOf(p) \cap (Launches \cup Runs \cup {"inspect", "halt", "quiesce"}) = {}
  BY <1>1 DEF Launches, Runs
<1>4. f \in Seq(Steps) /\ Ordered(f) /\ StepsOf(f) = StepsOf(p) \cup StepsOf(Preflight)
  BY <1>1, <1>3, PreflightPlan, AfterPlan
<1>5. StepsOf(f) = {"post", "compose", "verify", "inspect"}
  BY <1>1, <1>4, PreflightPlan
<1> HIDE DEF f
<1>6. "receipt" \notin StepsOf(f)
  BY <1>5
<1>7. /\ w \in Seq(Steps) /\ Ordered(w) /\ StepsOf(w) = StepsOf(f) \cup {"receipt"}
      /\ Parted(w, {"receipt"}, Steps) /\ Parted(w, {"receipt"}, {"receipt"})
  BY <1>2, <1>4, <1>6, ClosingPlan
<1> QED
  BY <1>5, <1>7

\* What reconcileQuotaSites has to do about the site.
LEMMA AssessedPlan ==
    ASSUME NEW a, a = Assessed
    PROVE  /\ a \in Seq(Steps) /\ Ordered(a)
           /\ \/ StepsOf(a) \subseteq {"blocked", "stopped", "rmjobs", "halt"}
              \/ StepsOf(a) = {"compose", "verify", "survey"} /\ Marked /\ Resolved
<1>1. /\ <<>> \in Seq(Steps) /\ Ordered(<<>>) /\ StepsOf(<<>>) = {}
  BY Steps0, EmptyOrdered
<1>2. ASSUME NEW state \in {"blocked", "stopped"}
      PROVE  /\ Fence(state) \in Seq(Steps) /\ Ordered(Fence(state))
             /\ StepsOf(Fence(state)) \subseteq {"blocked", "stopped", "rmjobs", "halt"}
  BY FencePlan
<1> DEFINE s == <<"compose", "verify", "survey">>
<1>3. s \in Seq(Steps) /\ StepsOf(s) = {"compose", "verify", "survey"}
  <2>1. {"compose", "verify", "survey"} \subseteq Steps
    BY DEF Steps, PreflightSteps
  <2> QED
    BY <2>1, Steps3
<1>4. \/ a = <<>>
      \/ a = Fence("blocked")
      \/ SavedIntent \in {"blocked", "stopped"} /\ a = Fence(SavedIntent)
      \/ a = s /\ Marked /\ Resolved
  BY DEF Assessed
<1> HIDE DEF s
<1>5. Ordered(s)
  BY <1>3, StepsLacks, PlainOrdered DEF Launches, Runs
<1>6. CASE a = <<>>
  BY <1>1, <1>6
<1>7. CASE a = Fence("blocked")
  BY <1>2, <1>7
<1>8. CASE SavedIntent \in {"blocked", "stopped"} /\ a = Fence(SavedIntent)
  BY <1>2, <1>8
<1>9. CASE a = s /\ Marked /\ Resolved
  BY <1>3, <1>5, <1>9
<1> QED
  BY <1>4, <1>6, <1>7, <1>8, <1>9

-----------------------------------------------------------------------------
(* Where a task goes on *)

\* The states of a task, without its types.
LEMMA NextSound ==
    ASSUME NEW t, task' = t, t = NoTask \/ TaskSound(t)', GateTypeOK', SiteSound'
    PROVE  GateInv'
<1>1. t = NoTask \/ TaskSound(task)'
  BY DEF TaskSound, Arranged, Tracking, Resuming, Preflighted, Removing, Fencing, Withdrawing
<1> QED
  BY <1>1 DEF GateInv

\* A plan of the way out holds none of the steps the rest of the invariant is about.
LEMMA ExitLacks ==
    ASSUME NEW s, StepsOf(s) \subseteq Exit
    PROVE  /\ Lacks(s, Launches \cup Runs \cup {"compose", "inspect", "survey"})
           /\ Lacks(s, {"rmdir"}) /\ Lacks(s, {"running"}) /\ Lacks(s, {"post"})
           /\ Lacks(s, Launches \cup {"running"}) /\ Lacks(s, {"assess", "survey"})
           /\ Lacks(s, {"survey"}) /\ Lacks(s, Launches \cup Runs \cup {"survey"})
           /\ Lacks(s, Steps \ WayOut)
<1>1. \A T : T \cap Exit = {} => Lacks(s, T)
  BY StepsLacks
<1>2. /\ (Launches \cup Runs \cup {"compose", "inspect", "survey"}) \cap Exit = {}
      /\ (Steps \ WayOut) \cap Exit = {}
  BY DEF Exit, Launches, Runs, WayOut
<1>3. /\ {"rmdir"} \cap Exit = {} /\ {"running"} \cap Exit = {} /\ {"post"} \cap Exit = {}
      /\ {"survey"} \cap Exit = {} /\ {"assess", "survey"} \cap Exit = {}
  BY DEF Exit
<1>4. /\ (Launches \cup {"running"}) \cap Exit = {}
      /\ (Launches \cup Runs \cup {"survey"}) \cap Exit = {}
  BY DEF Exit, Launches, Runs
<1> QED
  BY <1>1, <1>2, <1>3, <1>4

\* An error: the fences of the callers, quiesceSite, the receipt.
LEMMA FailSound ==
    ASSUME NEW u, NEW t, NEW step, TaskSound(u), u.todo # <<>>, u.todo \in Seq(Steps),
           t.kind = u.kind, t.todo = Unwind(u, step), t.verdict = "failed",
           t.stage = IF u.stage = "resume" THEN "resume" ELSE "unwind",
           receipt' = receipt, u.stage = "resume" => consent'
    PROVE  TaskSound(t)'
<1>1. /\ t.todo \in Seq(Steps) /\ Ordered(t.todo) /\ StepsOf(t.todo) \subseteq Exit
      /\ u.kind \in Tracked => Parted(t.todo, {"receipt"}, Steps)
      /\ u.kind \notin Tracked => Lacks(t.todo, {"receipt"})
      /\ Parted(t.todo, {"receipt"}, {"receipt"})
      /\ Behind(t.todo, {"quiesce"}, {"receipt"})
  BY UnwindPlan
<1>2. /\ Lacks(t.todo, Launches \cup Runs \cup {"compose", "inspect", "survey"})
      /\ Lacks(t.todo, {"rmdir"}) /\ Lacks(t.todo, {"running"}) /\ Lacks(t.todo, {"post"})
      /\ Lacks(t.todo, Launches \cup {"running"}) /\ Lacks(t.todo, {"assess", "survey"})
      /\ Lacks(t.todo, {"survey"}) /\ Lacks(t.todo, Launches \cup Runs \cup {"survey"})
      /\ Lacks(t.todo, Steps \ WayOut)
  BY <1>1, ExitLacks
<1>3. ~Lacks(u.todo, Steps)
  BY TailOrder
<1>4. Arranged(t)'
  <2>1. u.kind \notin {"sweep", "startup"} => u.stage # "resume"
    BY DEF TaskSound, Arranged
  <2>2. {"sweep", "startup"} \cap Tracked = {}
    BY DEF Tracked
  <2> QED
    BY <1>1, <1>2, <2>1, <2>2 DEF Arranged, Ordered
<1>5. Tracking(t)'
  BY <1>1, <1>3 DEF TaskSound, Tracking
<1>6. Resuming(t)'
  BY <1>2 DEF Resuming
<1>7. Preflighted(t)'
  BY <1>1 DEF Preflighted, Ordered
<1>8. Removing(t)'
  <2>1. Behind(t.todo, {"down"}, {"rmdir"})
    BY <1>2, LacksOrder
  <2> QED
    BY <1>2, <2>1 DEF Removing
<1>9. Fencing(t)' /\ Withdrawing(t)'
  BY <1>1 DEF Fencing, Withdrawing, Ordered
<1> QED
  BY <1>4, <1>5, <1>6, <1>7, <1>8, <1>9 DEF TaskSound

\* What a step h of a task may do to the site.
Effect(h) ==
    /\ receipt' = receipt
    /\ h # "rmdir" => guard' = guard /\ compose' = compose
    /\ \/ h # "rmdir" /\ manual' = manual
       \/ h = "compose" /\ manual' /\ compose
       \/ h = "rmdir" /\ (manual' => compose')
    /\ auto' \subseteq auto \/ (h \in Launches /\ ~manual)
    /\ up' \subseteq up \/ h \in Launches
    /\ job' => job \/ h \in Launches
    /\ \/ intent' = intent
       \/ h \in Intents /\ intent' = h
       \/ h = "rmdir" /\ intent' = "none"
    /\ consent' = consent \/ (h = "halt" /\ ~task.failed /\ task.stage # "resume")

\* What the task's position says of the site, when h comes next.
LEMMA Position ==
    ASSUME GateInv, task # NoTask, task.todo # <<>>, NEW h, h = Head(task.todo)
    PROVE  /\ task \in Tasks /\ TaskSound(task) /\ h \in Steps
           /\ h = "rmdir" => intent \notin Runs /\ up = {} /\ task.kind = "delete"
           /\ h \in Runs => manual /\ auto = {} /\ Marked
           /\ h \in Launches => manual /\ compose /\ Marked /\ task.verified
           /\ h \in {"running"} => consent \/ receipt.state = "pending"
           /\ h = "halt" => intent # "running" \/ task.failed
           /\ h \in Launches /\ task.kind \in {"sweep", "startup"} => task.stage = "resume"
<1>1. task \in Tasks /\ TaskSound(task) /\ SiteSound
  BY DEF GateInv, GateTypeOK
<1>2. task.todo \in Seq(Steps)
  BY <1>1 DEF Tasks
<1>3. /\ h \in Steps
      /\ \A T : Lacks(task.todo, T) => h \notin T
      /\ \A S, T : Behind(task.todo, S, T) => h \notin T
  BY <1>2, TailOrder
<1>4. h = "rmdir" => intent \notin Runs /\ up = {} /\ task.kind = "delete"
  <2>1. SUFFICES ASSUME h = "rmdir" PROVE  intent \notin Runs /\ up = {} /\ task.kind = "delete"
    OBVIOUS
  <2>2. ~Lacks(task.todo, {"rmdir"}) /\ ~Behind(task.todo, {"check"}, {"rmdir"})
        /\ ~Behind(task.todo, {"down"}, {"rmdir"})
    BY <1>3, <2>1
  <2> QED
    BY <1>1, <2>2 DEF TaskSound, Removing, Arranged
<1>5. h \in Runs => manual /\ auto = {} /\ Marked
  <2>1. SUFFICES ASSUME h \in Runs PROVE  manual /\ auto = {} /\ Marked
    OBVIOUS
  <2>2. /\ ~Behind(task.todo, {"compose"}, Launches \cup Runs \cup {"inspect"})
        /\ ~Behind(task.todo, {"inspect"}, Runs)
        /\ ~Lacks(task.todo, Launches \cup Runs \cup {"survey"})
    BY <1>3, <2>1
  <2> QED
    BY <1>1, <2>2 DEF TaskSound, Preflighted, Resuming
<1>6. h \in Launches => manual /\ compose /\ Marked /\ task.verified
  <2>1. SUFFICES ASSUME h \in Launches PROVE  manual /\ compose /\ Marked /\ task.verified
    OBVIOUS
  <2>2. /\ ~Behind(task.todo, {"compose"}, Launches \cup Runs \cup {"inspect"})
        /\ ~Behind(task.todo, {"verify"}, Launches)
        /\ ~Lacks(task.todo, Launches \cup Runs \cup {"survey"})
    BY <1>3, <2>1
  <2> QED
    BY <1>1, <2>2 DEF TaskSound, Preflighted, Resuming, SiteSound
<1>7. h = "running" => consent \/ receipt.state = "pending"
  <2>1. SUFFICES ASSUME h = "running" PROVE  consent \/ receipt.state = "pending"
    OBVIOUS
  <2>2. ~Lacks(task.todo, {"running"}) /\ ~Lacks(task.todo, Launches \cup {"running"})
        /\ ~Lacks(task.todo, Steps)
    BY <1>3, <2>1
  <2>3. task.kind \in {"start", "restore"} \/ task.stage = "resume"
    BY <1>1, <2>2 DEF TaskSound, Arranged
  <2>4. {"start", "restore"} \subseteq Tracked
    BY DEF Tracked
  <2> QED
    BY <1>1, <2>2, <2>3, <2>4 DEF TaskSound, Tracking, Resuming
<1>8. h = "halt" => intent # "running" \/ task.failed
  <2>1. h = "halt" => ~Behind(task.todo, {"blocked", "stopped"}, {"halt"})
    BY <1>3
  <2> QED
    BY <1>1, <2>1 DEF TaskSound, Withdrawing
<1>9. h \in Launches /\ task.kind \in {"sweep", "startup"} => task.stage = "resume"
  <2>1. h \in Launches => ~Lacks(task.todo, Launches \cup {"running"})
    BY <1>3
  <2> QED
    BY <1>1, <2>1 DEF TaskSound, Arranged
<1> QED
  BY <1>1, <1>3, <1>4, <1>5, <1>6, <1>7, <1>8, <1>9

\* Such a step leaves the site sound.
LEMMA SiteStep ==
    ASSUME GateInv, task # NoTask, task.todo # <<>>, NEW h, h = Head(task.todo), Effect(h)
    PROVE  SiteSound'
<1>1. /\ h = "rmdir" => intent \notin Runs /\ up = {}
      /\ h \in Runs => manual /\ auto = {} /\ Marked
      /\ h \in Launches => manual /\ compose /\ Marked
      /\ h = "running" => consent \/ receipt.state = "pending"
      /\ h = "halt" => intent # "running" \/ task.failed
  BY Position
<1>2. SiteSound
  BY DEF GateInv
<1>3. /\ h \in Launches => h \notin Intents /\ h # "rmdir" /\ h # "compose" /\ h # "halt"
      /\ h \in Intents => h # "rmdir" /\ h # "compose" /\ h # "halt" /\ h \notin Launches
      /\ "none" \notin Runs /\ "running" \in Runs
      /\ h \in Intents /\ h \notin Runs => h # "running"
  BY DEF Launches, Intents, Runs
<1>4. auto' \subseteq auto
  BY <1>1 DEF Effect
<1>5. intent' \in Runs => h # "rmdir" /\ (intent' = intent \/ (h \in Runs /\ intent' = h))
  BY <1>1, <1>3 DEF Effect
<1>6. RestartIsOurs'
  <2>1. SUFFICES ASSUME intent' \in Runs
                 PROVE  auto' = {} /\ manual'
    BY DEF RestartIsOurs, Runs
  <2>2. auto = {} /\ manual
    BY <1>1, <1>2, <1>5, <2>1 DEF SiteSound, RestartIsOurs, Runs
  <2>3. manual'
    BY <1>5, <2>1, <2>2 DEF Effect
  <2> QED
    BY <1>4, <2>2, <2>3
<1>7. manual' => compose'
  BY <1>2, <1>3 DEF Effect, SiteSound
<1>8. ~Marked' => intent' \notin Runs
  BY <1>1, <1>2, <1>5 DEF Effect, SiteSound, Marked
<1>9. ~Marked' \/ ~compose' => up' = {}
  <2>1. CASE h = "rmdir"
    BY <1>1, <1>3, <2>1 DEF Effect
  <2>2. CASE h # "rmdir" /\ h \in Launches
    BY <1>1, <2>2 DEF Effect, Marked
  <2>3. CASE h # "rmdir" /\ h \notin Launches
    BY <1>2, <2>3 DEF Effect, Marked, SiteSound
  <2> QED
    BY <2>1, <2>2, <2>3
<1>10. intent' = "running" => consent' \/ receipt'.state = "pending"
  <2>1. SUFFICES ASSUME intent' = "running" PROVE  consent' \/ receipt'.state = "pending"
    OBVIOUS
  <2>2. (intent = "running" \/ h = "running") /\ receipt' = receipt
    BY <2>1 DEF Effect
  <2>3. consent \/ receipt.state = "pending"
    BY <1>1, <1>2, <2>2 DEF SiteSound
  <2>4. CASE h = "halt"
    BY <1>1, <2>2, <2>3, <2>4 DEF Effect
  <2>5. CASE h # "halt"
    BY <2>2, <2>3, <2>5 DEF Effect
  <2> QED
    BY <2>4, <2>5
<1> QED
  BY <1>6, <1>7, <1>8, <1>9, <1>10 DEF SiteSound

\* What a step has achieved when the task t goes on with the next one; a fence
\* goes on with its error.
Achieved(h, t) ==
    /\ h = "verify" => t.verified
    /\ h = "compose" => manual'
    /\ h = "inspect" => auto' = {}
    /\ h \in {"blocked", "stopped"} => intent' = h \/ t.failed
    /\ h \in Runs => intent' = h
    /\ h = "rmdir" => intent' = "none"
    /\ h = "down" => up' = {}
    /\ h = "halt" => up' = {} \/ t.failed
    /\ h = "rmjobs" => ~job' \/ t.failed
    /\ h = "check" => ~task.failed
    /\ h \notin {"quiesce", "receipt", "assess", "survey"}

\* Then the rest of the plan fits the site.
LEMMA OnwardSound ==
    ASSUME GateInv, task # NoTask, task.todo # <<>>, NEW h, h = Head(task.todo), Effect(h),
           NEW t, t.kind = task.kind, t.verdict = task.verdict, t.todo = Tail(task.todo),
           t.stage = task.stage \/ (h = "post" /\ t.stage = "post"),
           task.failed => t.failed, task.verified => t.verified, Achieved(h, t)
    PROVE  TaskSound(t)'
<1> DEFINE s == task.todo
           r == t.todo
<1>1. task \in Tasks /\ TaskSound(task) /\ SiteSound
  BY DEF GateInv, GateTypeOK
<1>2. s \in Seq(Steps)
  BY <1>1 DEF Tasks
<1>3. /\ h \in Steps
      /\ \A T : Lacks(s, T) => Lacks(r, T) /\ h \notin T
      /\ \A S, T : Behind(s, S, T) => h \notin T
      /\ \A S, T : Behind(s, S, T) /\ h \notin S => Behind(r, S, T)
      /\ \A S, T : Parted(s, S, T) => Parted(r, S, T)
      /\ \A S, T : Parted(s, S, T) /\ h \in S => Lacks(r, T)
  BY <1>2, TailOrder
<1>4. /\ h = "rmdir" => task.kind = "delete"
      /\ h \in Launches => manual
      /\ h = "halt" => intent # "running" \/ task.failed
  BY Position
<1>5. /\ Arranged(task) /\ Tracking(task) /\ Resuming(task) /\ Preflighted(task)
      /\ Removing(task) /\ Fencing(task) /\ Withdrawing(task)
  BY <1>1 DEF TaskSound
<1> HIDE DEF s, r
<1>6. /\ h \in Launches => h \notin Intents /\ h # "rmdir" /\ h # "compose" /\ h # "halt"
      /\ h \in Intents => h # "rmdir" /\ h # "compose" /\ h # "halt" /\ h \notin Launches
      /\ h \in Runs => h \in Intents
      /\ "none" \notin Runs
  BY DEF Launches, Intents, Runs
<1>7. Arranged(t)'
  <2>1. t.stage = "resume" => task.stage = "resume"
    OBVIOUS
  <2>2. task.kind \in {"sweep", "startup"} => Lacks(s, {"post"})
    BY <1>5 DEF Arranged, s
  <2>3. task.kind \in {"sweep", "startup"} => t.stage = task.stage
    BY <1>3, <2>2
  <2> QED
    BY <1>3, <1>5, <2>1, <2>3 DEF Arranged, s, r
<1>8. Tracking(t)'
  BY <1>3, <1>5 DEF Tracking, Effect, s, r
<1>9. Resuming(t)'
  <2>1. t.stage = "resume" => consent'
    BY <1>5 DEF Resuming, Effect
  <2>2. Marked' \/ Lacks(r, Launches \cup Runs \cup {"survey"})
    <3>1. CASE h = "rmdir"
      <4>1. Lacks(r, Launches \cup Runs \cup {"compose", "inspect", "survey"})
        BY <1>3, <1>4, <1>5, <3>1 DEF Arranged, s
      <4> QED
        BY <4>1, LacksOrder
    <3>2. CASE h # "rmdir"
      BY <1>3, <1>5, <3>2 DEF Resuming, Effect, Marked, s
    <3> QED
      BY <3>1, <3>2
  <2>3. Resolved' \/ Lacks(r, {"survey"})
    BY <1>3, <1>5 DEF Resuming, Effect, Resolved, s
  <2> QED
    BY <2>1, <2>2, <2>3 DEF Resuming, r
<1>10. Preflighted(t)'
  <2>1. t.verified \/ Behind(r, {"verify"}, Launches)
    BY <1>3, <1>5 DEF Preflighted, Achieved, s
  <2>2. manual' \/ Behind(r, {"compose"}, Launches \cup Runs \cup {"inspect"})
    <3>1. CASE h = "rmdir"
      <4>1. Lacks(r, Launches \cup Runs \cup {"compose", "inspect", "survey"})
        BY <1>3, <1>4, <1>5, <3>1 DEF Arranged, s
      <4> QED
        BY <4>1, LacksOrder
    <3>2. CASE h # "rmdir"
      BY <1>3, <1>5, <3>2 DEF Preflighted, Achieved, Effect, s
    <3> QED
      BY <3>1, <3>2
  <2>3. auto' = {} \/ Behind(r, {"inspect"}, Runs)
    BY <1>3, <1>4, <1>5 DEF Preflighted, Achieved, Effect, s
  <2> QED
    BY <2>1, <2>2, <2>3 DEF Preflighted, r
<1>11. Removing(t)'
  <2>1. CASE task.kind # "delete"
    <3>1. Lacks(r, {"rmdir"})
      BY <1>3, <1>5, <2>1 DEF Arranged, s
    <3>2. Behind(r, {"down"}, {"rmdir"})
      BY <3>1, LacksOrder
    <3> QED
      BY <3>1, <3>2 DEF Removing, r
  <2>2. CASE task.kind = "delete"
    <3>1. h \notin Launches \cup Runs
      BY <1>3, <1>5, <2>2 DEF Arranged, s
    <3>2. intent \notin Runs => intent' \notin Runs
      BY <1>6, <3>1 DEF Effect
    <3>3. \/ intent' \notin Runs \/ Lacks(r, {"rmdir"})
          \/ /\ t.failed \/ Behind(r, {"stopped"}, {"check", "rmdir"})
             /\ Behind(r, {"check"}, {"rmdir"})
      <4>1. CASE intent \notin Runs \/ Lacks(s, {"rmdir"})
        BY <1>3, <3>2, <4>1
      <4>2. CASE /\ task.failed \/ Behind(s, {"stopped"}, {"check", "rmdir"})
                 /\ Behind(s, {"check"}, {"rmdir"})
        <5>1. h # "check"
          BY <1>3, <4>2 DEF Achieved
        <5>2. Behind(r, {"check"}, {"rmdir"})
          BY <1>3, <4>2, <5>1
        <5>3. CASE h = "stopped"
          BY <5>2, <5>3 DEF Achieved, Runs
        <5>4. CASE h # "stopped"
          BY <1>3, <4>2, <5>2, <5>4
        <5> QED
          BY <5>3, <5>4
      <4> QED
        BY <1>5, <4>1, <4>2 DEF Removing, s
    <3>4. up' = {} \/ Behind(r, {"down"}, {"rmdir"})
      <4>1. up = {} => up' = {}
        BY <3>1 DEF Effect
      <4> QED
        BY <1>3, <1>5, <4>1 DEF Removing, Achieved, s
    <3> QED
      BY <3>3, <3>4 DEF Removing, r
  <2> QED
    BY <2>1, <2>2
<1>12. Fencing(t)'
  <2>1. SUFFICES ASSUME task.verdict = "failed"
                 PROVE  \/ Behind(r, {"quiesce"}, {"receipt"})
                        \/ t.failed
                        \/ /\ intent' = "blocked" \/ ~Marked' \/ Behind(r, {"blocked"}, {"receipt"})
                           /\ ~job' \/ Behind(r, {"rmjobs"}, {"receipt"})
                           /\ up' = {} \/ Behind(r, {"halt"}, {"receipt"})
    BY DEF Fencing, r
  <2>2. h \in WayOut
    BY <1>3, <1>5, <2>1 DEF Arranged, s
  <2>3. /\ h \notin Launches /\ h # "rmdir" /\ h # "compose"
        /\ h \in Intents => h = "blocked"
    BY <2>2 DEF WayOut, Launches, Intents
  <2>4. /\ (job' => job) /\ up' \subseteq up /\ (Marked' <=> Marked)
        /\ intent = "blocked" => intent' = "blocked"
    BY <2>3 DEF Effect, Marked
  <2>5. h # "quiesce"
    BY DEF Achieved
  <2>6. CASE Behind(s, {"quiesce"}, {"receipt"}) \/ task.failed
    BY <1>3, <2>5, <2>6
  <2>7. CASE /\ intent = "blocked" \/ ~Marked \/ Behind(s, {"blocked"}, {"receipt"})
             /\ ~job \/ Behind(s, {"rmjobs"}, {"receipt"})
             /\ up = {} \/ Behind(s, {"halt"}, {"receipt"})
             /\ ~t.failed
    <3>1. intent' = "blocked" \/ ~Marked' \/ Behind(r, {"blocked"}, {"receipt"})
      BY <1>3, <2>4, <2>7 DEF Achieved
    <3>2. ~job' \/ Behind(r, {"rmjobs"}, {"receipt"})
      BY <1>3, <2>4, <2>7 DEF Achieved
    <3>3. up' = {} \/ Behind(r, {"halt"}, {"receipt"})
      BY <1>3, <2>4, <2>7 DEF Achieved
    <3> QED
      BY <3>1, <3>2, <3>3
  <2> QED
    BY <1>5, <2>1, <2>6, <2>7 DEF Fencing, s
<1>13. Withdrawing(t)'
  <2>1. \/ intent' # "running" \/ t.failed
        \/ Behind(r, {"blocked", "stopped"}, {"halt"})
    <3>1. CASE h = "running"
      <4>1. Lacks(r, {"halt"})
        BY <1>3, <1>5, <3>1 DEF Arranged, s
      <4> QED
        BY <4>1, LacksOrder
    <3>2. CASE h \in {"blocked", "stopped"}
      BY <3>2 DEF Achieved
    <3>3. CASE h \notin {"running", "blocked", "stopped"}
      <4>1. intent # "running" => intent' # "running"
        BY <3>3 DEF Effect
      <4> QED
        BY <1>3, <1>5, <3>3, <4>1 DEF Withdrawing, s
    <3> QED
      BY <3>1, <3>2, <3>3
  <2>2. ASSUME task.kind \in {"update", "backup", "resources", "create"}, task.verdict # "failed"
        PROVE  intent' # "running" \/ consent'
    <3>1. h # "running"
      BY <1>3, <1>5, <2>2 DEF Arranged, s
    <3>2. intent # "running" => intent' # "running"
      BY <3>1 DEF Effect
    <3>3. intent # "running" \/ consent
      BY <1>5, <2>2 DEF Withdrawing
    <3>4. CASE h = "halt"
      BY <1>4, <3>2, <3>3, <3>4 DEF Effect
    <3>5. CASE h # "halt"
      BY <3>2, <3>3, <3>5 DEF Effect
    <3> QED
      BY <3>4, <3>5
  <2>3. ASSUME task.kind \in {"stop", "prepare-restore", "delete"}, task.verdict # "failed"
        PROVE  \/ intent' # "running"
               \/ /\ t.failed \/ Behind(r, {"stopped", "maintenance", "rmdir"}, {"check", "receipt"})
                  /\ Behind(r, {"check", "maintenance", "rmdir"}, {"receipt"})
    <3>1. h # "running"
      BY <1>3, <1>5, <2>3 DEF Arranged, s
    <3>2. intent # "running" => intent' # "running"
      BY <3>1 DEF Effect
    <3>3. CASE h \in {"maintenance", "rmdir"}
      BY <3>3 DEF Achieved, Runs
    <3>4. CASE intent = "running" /\ h \notin {"maintenance", "rmdir"}
      <4>1. /\ task.failed \/ Behind(s, {"stopped", "maintenance", "rmdir"}, {"check", "receipt"})
            /\ Behind(s, {"check", "maintenance", "rmdir"}, {"receipt"})
        BY <1>5, <2>3, <3>4 DEF Withdrawing, s
      <4>2. h # "check"
        BY <1>3, <4>1 DEF Achieved
      <4>3. Behind(r, {"check", "maintenance", "rmdir"}, {"receipt"})
        BY <1>3, <3>4, <4>1, <4>2
      <4>4. CASE h = "stopped"
        BY <4>3, <4>4 DEF Achieved
      <4>5. CASE h # "stopped"
        BY <1>3, <3>4, <4>1, <4>3, <4>5
      <4> QED
        BY <4>4, <4>5
    <3> QED
      BY <3>2, <3>3, <3>4
  <2> QED
    BY <2>1, <2>2, <2>3 DEF Withdrawing, r
<1> QED
  BY <1>7, <1>8, <1>9, <1>10, <1>11, <1>12, <1>13 DEF TaskSound

-----------------------------------------------------------------------------
(* How a step ends *)

SiteTypeOK ==
    /\ intent \in Intents \cup {"none"}
    /\ receipt \in [kind : Tracked,
                    state : {"pending", "succeeded", "failed", "rejected"}]
                   \cup {[kind |-> "none", state |-> "none"]}
    /\ up \subseteq Writers
    /\ auto \subseteq made /\ old \subseteq made /\ made \subseteq Services
    /\ job \in BOOLEAN /\ manual \in BOOLEAN /\ compose \in BOOLEAN
    /\ enforced \in BOOLEAN /\ consent \in BOOLEAN
    /\ guard \in {"ready", "incomplete", "missing", "none"}
    /\ requests \in 0..MaxRequests
    /\ faults \in 0..MaxFaults /\ changes \in 0..MaxChanges

Phases == {"down", "starting", "serving"}

\* The types of the task and of the site.
LEMMA TypeParts ==
    GateTypeOK <=> worker \in Phases /\ task \in Tasks \cup {NoTask} /\ SiteTypeOK
BY DEF GateTypeOK, SiteTypeOK, Phases

\* A task is not the absence of one.
LEMMA TaskIsTask ==
    /\ NoTask \notin Tasks
    /\ GateInv /\ task # NoTask => task \in Tasks
<1>1. NoTask \notin Tasks
  <2>1. SUFFICES ASSUME NoTask \in Tasks PROVE FALSE
    OBVIOUS
  <2>2. NoTask.kind \in Tracked \cup Untracked \cup {"sweep", "startup", "runtime"}
    BY <2>1 DEF Tasks
  <2>3. NoTask.kind = "none"
    BY DEF NoTask
  <2> QED
    BY <2>2, <2>3 DEF Tracked, Untracked
<1> QED
  BY <1>1 DEF GateInv, GateTypeOK

\* The task goes on with the rest of its plan.
LEMMA OnwardKeeps ==
    ASSUME GateInv, NEW h, At(h), Effect(h), SiteTypeOK', UNCHANGED worker,
           NEW t, task' = t, t \in Tasks,
           t.kind = task.kind, t.verdict = task.verdict, t.todo = Tail(task.todo),
           t.stage = task.stage \/ (h = "post" /\ t.stage = "post"),
           task.failed => t.failed, task.verified => t.verified, Achieved(h, t)
    PROVE  GateInv'
<1>1. task # NoTask /\ task.todo # <<>> /\ h = Head(task.todo)
  BY DEF At
<1>2. TaskSound(t)'
  BY <1>1, OnwardSound
<1>3. SiteSound'
  BY <1>1, SiteStep
<1>4. GateTypeOK'
  <2>1. worker' \in Phases /\ task' \in Tasks \cup {NoTask}
    BY TypeParts DEF GateInv
  <2> QED
    BY <2>1 DEF GateTypeOK, SiteTypeOK, Phases
<1> QED
  BY <1>2, <1>3, <1>4, NextSound

\* The step is done.
LEMMA ProceedKeeps ==
    ASSUME GateInv, NEW h, At(h), Effect(h), SiteTypeOK', Proceed,
           \A t : t.failed = task.failed /\ t.verified = task.verified => Achieved(h, t)
    PROVE  GateInv'
<1>1. task \in Tasks /\ task.todo # <<>>
  BY TaskIsTask DEF At
<1>2. PICK t : t = [task EXCEPT !.todo = Tail(@)]
  OBVIOUS
<1>3. Tail(task.todo) \in Seq(Steps)
  BY <1>1 DEF Tasks
<1>4. /\ t \in Tasks /\ t.kind = task.kind /\ t.verdict = task.verdict /\ t.todo = Tail(task.todo)
      /\ t.stage = task.stage /\ t.failed = task.failed /\ t.verified = task.verified
  BY <1>1, <1>2, <1>3 DEF Tasks
<1>5. task' = t /\ UNCHANGED worker
  BY <1>2 DEF Proceed
<1>6. Achieved(h, t)
  BY <1>4
<1> QED
  BY <1>4, <1>5, <1>6, OnwardKeeps

\* A launch has succeeded.
LEMMA LaunchedKeeps ==
    ASSUME GateInv, NEW h \in Launches, At(h), Effect(h), SiteTypeOK', Launched
    PROVE  GateInv'
<1>1. task \in Tasks /\ task.todo # <<>>
  BY TaskIsTask DEF At
<1>2. PICK t : t = [task EXCEPT !.todo = Tail(@), !.unseen = TRUE]
  OBVIOUS
<1>3. Tail(task.todo) \in Seq(Steps)
  BY <1>1 DEF Tasks
<1>4. /\ t \in Tasks /\ t.kind = task.kind /\ t.verdict = task.verdict /\ t.todo = Tail(task.todo)
      /\ t.stage = task.stage /\ t.failed = task.failed /\ t.verified = task.verified
  BY <1>1, <1>2, <1>3 DEF Tasks
<1>5. task' = t /\ UNCHANGED worker
  BY <1>2 DEF Launched
<1>6. Achieved(h, t)
  BY DEF Achieved, Launches, Runs
<1> QED
  BY <1>4, <1>5, <1>6, OnwardKeeps

\* A fence goes on with an error.
LEMMA BlunderKeeps ==
    ASSUME GateInv, NEW h \in FenceSteps, At(h), Effect(h), SiteTypeOK', Blunder
    PROVE  GateInv'
<1>1. task \in Tasks /\ task.todo # <<>>
  BY TaskIsTask DEF At
<1>2. PICK t : t = [task EXCEPT !.todo = Tail(@), !.failed = TRUE]
  OBVIOUS
<1>3. Tail(task.todo) \in Seq(Steps)
  BY <1>1 DEF Tasks
<1>4. /\ t \in Tasks /\ t.kind = task.kind /\ t.verdict = task.verdict /\ t.todo = Tail(task.todo)
      /\ t.stage = task.stage /\ t.failed = TRUE /\ t.verified = task.verified
  BY <1>1, <1>2, <1>3 DEF Tasks
<1>5. task' = t /\ UNCHANGED worker
  BY <1>2 DEF Blunder
<1>6. Achieved(h, t)
  BY <1>4 DEF Achieved, FenceSteps, Runs
<1> QED
  BY <1>4, <1>5, <1>6, OnwardKeeps

\* The step has failed, or ended the worker's start.
LEMMA FailKeeps ==
    ASSUME GateInv, NEW h, At(h), Effect(h), SiteTypeOK', h # "halt", Fail(h)
    PROVE  GateInv'
<1>1. task \in Tasks /\ task.todo # <<>> /\ task # NoTask /\ h = Head(task.todo)
  BY TaskIsTask DEF At
<1>2. SiteSound'
  BY <1>1, SiteStep
<1>3. worker \in Phases
  BY TypeParts DEF GateInv
<1>4. CASE task' = NoTask /\ worker' = "down"
  <2>1. GateTypeOK'
    BY <1>4 DEF GateTypeOK, SiteTypeOK
  <2> QED
    BY <1>2, <1>4, <2>1 DEF GateInv
<1>5. CASE /\ task' = [task EXCEPT !.todo = Unwind(task, h), !.verdict = "failed",
                                   !.stage = IF @ = "resume" THEN @ ELSE "unwind"]
           /\ UNCHANGED worker
  <2>1. PICK w : w = Unwind(task, h)
    OBVIOUS
  <2>2. w \in Seq(Steps)
    BY <2>1, UnwindPlan
  <2>3. PICK t : t = [task EXCEPT !.todo = w, !.verdict = "failed",
                                  !.stage = IF @ = "resume" THEN @ ELSE "unwind"]
    OBVIOUS
  <2>4. /\ t \in Tasks /\ t.kind = task.kind /\ t.verdict = "failed" /\ t.todo = w
        /\ t.stage = IF task.stage = "resume" THEN "resume" ELSE "unwind"
    BY <1>1, <2>2, <2>3 DEF Tasks
  <2>5. receipt' = receipt /\ consent' = consent
    BY DEF Effect
  <2>6. TaskSound(task) /\ (task.stage = "resume" => consent)
    BY <1>1 DEF GateInv, TaskSound, Resuming
  <2>7. task.todo \in Seq(Steps)
    BY <1>1 DEF Tasks
  <2>8. TaskSound(t)'
    BY <1>1, <2>1, <2>4, <2>5, <2>6, <2>7, FailSound
  <2>9. task' = t
    BY <1>5, <2>1, <2>3
  <2>10. GateTypeOK'
    <3>1. worker' \in Phases /\ task' \in Tasks \cup {NoTask}
      BY <1>3, <1>5, <2>4, <2>9
    <3> QED
      BY <3>1 DEF GateTypeOK, SiteTypeOK, Phases
  <2> QED
    BY <1>2, <2>8, <2>9, <2>10, NextSound
<1> QED
  BY <1>4, <1>5 DEF Fail

-----------------------------------------------------------------------------
(* The steps *)

\* Faults are counted within their bound.
LEMMA Counted ==
    ASSUME faults \in 0..MaxFaults, faults' = faults \/ Fault
    PROVE  faults' \in 0..MaxFaults
BY GateFaultsAssumption DEF Fault

\* A step that leaves the site as it is.
LEMMA Unmoved ==
    ASSUME GateInv, UNCHANGED <<Environment, Host>>, faults' = faults \/ Fault
    PROVE  SiteTypeOK' /\ \A h : Effect(h)
<1>1. SiteTypeOK /\ (manual => compose)
  BY TypeParts DEF GateInv, SiteSound
<1>2. faults' \in 0..MaxFaults
  BY <1>1, Counted DEF SiteTypeOK
<1>3. SiteTypeOK'
  BY <1>1, <1>2 DEF SiteTypeOK, Environment, Host
<1>4. \A h : Effect(h)
  BY <1>1 DEF Effect, Environment, Host
<1> QED
  BY <1>3, <1>4

\* saveQuotaIntent: an intent is written, or the write fails and the plan goes on as its caller decides.
LEMMA SaveIntentKeeps ==
    ASSUME GateInv, NEW state \in Intents, SaveIntent(state)
    PROVE  GateInv'
<1>1. At(state) /\ SiteTypeOK
  BY TypeParts DEF GateInv, SaveIntent
<1>2. faults' \in 0..MaxFaults
  BY <1>1, Counted DEF SiteTypeOK, SaveIntent
<1>3. intent' \in {intent, state}
  BY DEF SaveIntent
<1>4. SiteTypeOK'
  BY <1>1, <1>2, <1>3 DEF SiteTypeOK, SaveIntent, Environment
<1>5. state \notin {"rmdir", "halt", "quiesce", "receipt", "assess", "survey", "verify", "compose",
                    "inspect", "down", "rmjobs", "check"}
  BY DEF Intents
<1>6. Effect(state)
  BY <1>3, <1>5 DEF Effect, SaveIntent, Environment
<1>7. CASE intent' = state /\ Proceed
  <2>1. \A t : Achieved(state, t)
    BY <1>5, <1>7 DEF Achieved
  <2> QED
    BY <1>1, <1>4, <1>6, <1>7, <2>1, ProceedKeeps
<1>8. CASE state \in FenceSteps /\ Blunder
  BY <1>1, <1>4, <1>6, <1>8, BlunderKeeps
<1>9. CASE Fail(state)
  BY <1>1, <1>4, <1>5, <1>6, <1>9, FailKeeps
<1> QED
  BY <1>7, <1>8, <1>9 DEF SaveIntent

\* The jobs are removed: none is left, or the fence remembers that it failed.
LEMMA RemoveJobsKeeps ==
    ASSUME GateInv, RemoveJobs
    PROVE  GateInv'
<1>1. At("rmjobs") /\ SiteTypeOK /\ "rmjobs" \in FenceSteps
  BY TypeParts DEF GateInv, RemoveJobs, FenceSteps
<1>2. faults' \in 0..MaxFaults
  BY <1>1, Counted DEF SiteTypeOK, RemoveJobs
<1>3. job' = FALSE \/ job' = job
  BY DEF RemoveJobs
<1>4. SiteTypeOK'
  BY <1>1, <1>2, <1>3 DEF SiteTypeOK, RemoveJobs, Environment
<1>5. Effect("rmjobs")
  BY <1>3 DEF Effect, RemoveJobs, Environment
<1>6. CASE job' = FALSE /\ Proceed
  <2>1. \A t : Achieved("rmjobs", t)
    BY <1>6 DEF Achieved, Runs
  <2> QED
    BY <1>1, <1>4, <1>5, <1>6, <2>1, ProceedKeeps
<1>7. CASE Blunder
  BY <1>1, <1>4, <1>5, <1>7, BlunderKeeps
<1> QED
  BY <1>6, <1>7 DEF RemoveJobs

\* docker stop: the containers are stopped and get no restart, or the fence remembers that it failed.
LEMMA HaltKeeps ==
    ASSUME GateInv, HaltContainers
    PROVE  GateInv'
<1>1. At("halt") /\ SiteTypeOK /\ "halt" \in FenceSteps
  BY TypeParts DEF GateInv, HaltContainers, FenceSteps
<1>2. faults' \in 0..MaxFaults
  BY <1>1, Counted DEF SiteTypeOK, HaltContainers
<1>3. up' \subseteq up /\ auto' \subseteq auto
  BY DEF HaltContainers
<1>4. consent' = consent \/ (~task.failed /\ task.stage # "resume" /\ consent' = FALSE)
  <2>1. CASE task.failed \/ task.stage = "resume"
    BY <1>1, <2>1 DEF HaltContainers, SiteTypeOK
  <2>2. CASE ~(task.failed \/ task.stage = "resume")
    BY <2>2 DEF HaltContainers
  <2> QED
    BY <2>1, <2>2
<1>5. SiteTypeOK'
  BY <1>1, <1>2, <1>3, <1>4 DEF SiteTypeOK, HaltContainers, Environment
<1>6. Effect("halt")
  BY <1>3, <1>4 DEF Effect, HaltContainers, Environment
<1>7. CASE up' = {} /\ Proceed
  <2>1. \A t : Achieved("halt", t)
    BY <1>7 DEF Achieved, Runs
  <2> QED
    BY <1>1, <1>5, <1>6, <1>7, <2>1, ProceedKeeps
<1>8. CASE Blunder
  BY <1>1, <1>5, <1>6, <1>8, BlunderKeeps
<1> QED
  BY <1>7, <1>8 DEF HaltContainers

\* A caller that looks at its fence's error goes no further after one.
LEMMA CheckKeeps ==
    ASSUME GateInv, CheckFence
    PROVE  GateInv'
<1>1. At("check") /\ SiteTypeOK' /\ Effect("check")
  BY Unmoved DEF CheckFence
<1>2. CASE task.failed /\ Fail("check")
  BY <1>1, <1>2, FailKeeps
<1>3. CASE ~task.failed /\ Proceed
  <2>1. \A t : Achieved("check", t)
    BY <1>3 DEF Achieved, Runs
  <2> QED
    BY <1>1, <1>3, <2>1, ProceedKeeps
<1> QED
  BY <1>2, <1>3 DEF CheckFence

\* ensureQuotaRestartCompose: from here compose.yaml has no restart policy.
LEMMA ComposeKeeps ==
    ASSUME GateInv, EnsureCompose
    PROVE  GateInv'
<1>1. At("compose") /\ SiteTypeOK
  BY TypeParts DEF GateInv, EnsureCompose
<1>2. faults' \in 0..MaxFaults
  BY <1>1, Counted DEF SiteTypeOK, EnsureCompose
<1>3. manual' = manual \/ (manual' = TRUE /\ compose)
  BY DEF EnsureCompose
<1>4. SiteTypeOK'
  BY <1>1, <1>2, <1>3 DEF SiteTypeOK, EnsureCompose, Environment
<1>5. Effect("compose")
  BY <1>3 DEF Effect, EnsureCompose, Environment
<1>6. CASE manual' = TRUE /\ Proceed
  <2>1. \A t : Achieved("compose", t)
    BY <1>6 DEF Achieved, Runs
  <2> QED
    BY <1>1, <1>4, <1>5, <1>6, <2>1, ProceedKeeps
<1>7. CASE Fail("compose")
  BY <1>1, <1>4, <1>5, <1>7, FailKeeps
<1> QED
  BY <1>6, <1>7 DEF EnsureCompose

\* The storage is verified: what is launched later in this task may be.
LEMMA VerifyKeeps ==
    ASSUME GateInv, VerifyStorage
    PROVE  GateInv'
<1>1. At("verify") /\ SiteTypeOK' /\ Effect("verify")
  BY Unmoved DEF VerifyStorage
<1>2. CASE /\ task' = [task EXCEPT !.todo = Tail(@), !.verified = TRUE, !.unseen = FALSE]
           /\ UNCHANGED worker
  <2>1. task \in Tasks /\ task.todo # <<>>
    BY <1>1, TaskIsTask DEF At
  <2>2. PICK t : t = [task EXCEPT !.todo = Tail(@), !.verified = TRUE, !.unseen = FALSE]
    OBVIOUS
  <2>3. Tail(task.todo) \in Seq(Steps)
    BY <2>1 DEF Tasks
  <2>4. /\ t \in Tasks /\ t.kind = task.kind /\ t.verdict = task.verdict /\ t.todo = Tail(task.todo)
        /\ t.stage = task.stage /\ t.failed = task.failed /\ t.verified = TRUE
    BY <2>1, <2>2, <2>3 DEF Tasks
  <2>5. Achieved("verify", t)
    BY <2>4 DEF Achieved, Runs
  <2>6. task' = t
    BY <1>2, <2>2
  <2> QED
    BY <1>1, <1>2, <2>4, <2>5, <2>6, OnwardKeeps
<1>3. CASE Fail("verify")
  BY <1>1, <1>3, FailKeeps
<1> QED
  BY <1>2, <1>3 DEF VerifyStorage

\* The containers are inspected: one that Docker would restart refuses the launch.
LEMMA InspectKeeps ==
    ASSUME GateInv, InspectContainers
    PROVE  GateInv'
<1>1. At("inspect") /\ SiteTypeOK' /\ Effect("inspect") /\ auto' = auto
  BY Unmoved DEF InspectContainers, Host
<1>2. CASE auto = {} /\ Proceed
  <2>1. \A t : Achieved("inspect", t)
    BY <1>1, <1>2 DEF Achieved, Runs
  <2> QED
    BY <1>1, <1>2, <2>1, ProceedKeeps
<1>3. CASE Fail("inspect")
  BY <1>1, <1>3, FailKeeps
<1> QED
  BY <1>2, <1>3 DEF InspectContainers

\* Steps that no part of the invariant waits for.
LEMMA PlainStep ==
    ASSUME NEW h, h \notin {"verify", "compose", "inspect", "blocked", "stopped", "running",
                            "maintenance", "rmdir", "down", "halt", "rmjobs", "check", "quiesce",
                            "receipt", "assess", "survey"}
    PROVE  \A t : Achieved(h, t)
BY DEF Achieved, Runs

\* A certified refusal of a resource change.
LEMMA RejectKeeps ==
    ASSUME GateInv, NEW h \in {"admit", "snapshot"}, At(h), Reject, UNCHANGED <<Environment, Host>>
    PROVE  GateInv'
<1>1. SiteTypeOK' /\ Effect(h)
  BY Unmoved DEF Reject
<1>2. task \in Tasks /\ task.todo # <<>> /\ task # NoTask /\ h = Head(task.todo)
  BY TaskIsTask DEF At
<1>3. SiteSound'
  BY <1>1, <1>2, SiteStep
<1>4. PICK w : w = <<"post">> \o Preflight \o <<"receipt">>
  OBVIOUS
<1>5. /\ w \in Seq(Steps) /\ Ordered(w)
      /\ StepsOf(w) = {"post", "compose", "verify", "inspect", "receipt"}
      /\ Parted(w, {"receipt"}, Steps) /\ Parted(w, {"receipt"}, {"receipt"})
  BY <1>4, RejectPlan
<1>6. PICK t : t = [task EXCEPT !.verdict = "rejected", !.todo = w]
  OBVIOUS
<1>7. /\ t \in Tasks /\ t.kind = task.kind /\ t.verdict = "rejected" /\ t.todo = w
      /\ t.stage = task.stage
  BY <1>2, <1>5, <1>6 DEF Tasks
<1>8. task' = t /\ worker' = worker /\ task.kind = "resources"
  BY <1>4, <1>6 DEF Reject
<1>9. \A T : T \cap {"post", "compose", "verify", "inspect", "receipt"} = {} => Lacks(w, T)
  BY <1>5, StepsLacks
<1>10. TaskSound(task) /\ ~Lacks(task.todo, Steps \ WayOut) /\ ~Lacks(task.todo, Steps)
  <2>1. TaskSound(task) /\ task.todo \in Seq(Steps)
    BY <1>2 DEF GateInv, Tasks
  <2>2. h \in Steps \ WayOut
    BY DEF Steps, WayOut
  <2> QED
    BY <1>2, <2>1, <2>2, TailOrder
<1>11. task.verdict # "failed" /\ task.stage # "resume"
  BY <1>8, <1>10 DEF TaskSound, Arranged
<1>12. /\ Lacks(w, {"rmdir"}) /\ Lacks(w, {"running"}) /\ Lacks(w, {"assess", "survey"})
       /\ Lacks(w, {"quiesce"}) /\ Lacks(w, {"survey"})
       /\ Lacks(w, Launches \cup Runs \cup {"survey"})
  <2>1. (Launches \cup Runs \cup {"survey"}) \cap {"post", "compose", "verify", "inspect", "receipt"} = {}
    BY DEF Launches, Runs
  <2> QED
    BY <1>9, <2>1
<1>13. Arranged(t)'
  BY <1>5, <1>7, <1>8, <1>11, <1>12 DEF Arranged, Ordered
<1>14. Tracking(t)'
  BY <1>1, <1>7, <1>8, <1>10 DEF TaskSound, Tracking, Effect, Tracked
<1>15. Resuming(t)' /\ Preflighted(t)'
  BY <1>5, <1>7, <1>11, <1>12 DEF Resuming, Preflighted, Ordered
<1>16. Removing(t)'
  <2>1. Behind(w, {"down"}, {"rmdir"})
    BY <1>12, LacksOrder
  <2> QED
    BY <1>7, <1>12, <2>1 DEF Removing
<1>17. Fencing(t)' /\ Withdrawing(t)'
  <2>1. intent # "running" \/ consent
    BY <1>8, <1>10, <1>11 DEF TaskSound, Withdrawing
  <2>2. intent' = intent /\ consent' = consent
    BY DEF Host
  <2> QED
    BY <1>5, <1>7, <1>8, <2>1, <2>2 DEF Fencing, Withdrawing, Ordered
<1>18. TaskSound(t)'
  BY <1>13, <1>14, <1>15, <1>16, <1>17 DEF TaskSound
<1>19. GateTypeOK'
  <2>1. worker' \in Phases /\ task' \in Tasks \cup {NoTask}
    BY <1>7, <1>8, TypeParts DEF GateInv
  <2> QED
    BY <1>1, <2>1 DEF GateTypeOK, SiteTypeOK, Phases
<1> QED
  BY <1>3, <1>8, <1>18, <1>19, NextSound

\* checkCapacity: a launch is admitted or refused.
LEMMA AdmitKeeps ==
    ASSUME GateInv, Admit
    PROVE  GateInv'
<1>1. At("admit") /\ SiteTypeOK' /\ Effect("admit") /\ UNCHANGED <<Environment, Host>>
  <2>1. faults' = faults \/ Fault
    BY DEF Admit, Reject
  <2> QED
    BY <2>1, Unmoved DEF Admit
<1>2. CASE Proceed
  BY <1>1, <1>2, PlainStep, ProceedKeeps
<1>3. CASE Fail("admit")
  BY <1>1, <1>3, FailKeeps
<1>4. CASE Reject
  BY <1>1, <1>4, RejectKeeps
<1> QED
  BY <1>2, <1>3, <1>4 DEF Admit

\* runtimeSnapshot: a change of resources finds out what was running.
LEMMA SnapshotKeeps ==
    ASSUME GateInv, Snapshot
    PROVE  GateInv'
<1>1. At("snapshot") /\ SiteTypeOK' /\ Effect("snapshot") /\ UNCHANGED <<Environment, Host>>
  <2>1. faults' = faults \/ Fault
    BY DEF Snapshot, Reject
  <2> QED
    BY <2>1, Unmoved DEF Snapshot
<1>2. CASE /\ task' = [task EXCEPT !.todo = Tail(@), !.was = "wp" \in up]
           /\ UNCHANGED worker
  <2>1. task \in Tasks /\ task.todo # <<>>
    BY <1>1, TaskIsTask DEF At
  <2>2. PICK b \in BOOLEAN : b = ("wp" \in up)
    <3>1. CASE "wp" \in up
      <4>1. TRUE = ("wp" \in up)
        BY <3>1
      <4> QED
        BY <4>1, Zenon
    <3>2. CASE "wp" \notin up
      <4>1. FALSE = ("wp" \in up)
        BY <3>2
      <4> QED
        BY <4>1, Zenon
    <3> QED
      BY <3>1, <3>2
  <2>3. PICK t : t = [task EXCEPT !.todo = Tail(@), !.was = b]
    OBVIOUS
  <2>4. Tail(task.todo) \in Seq(Steps)
    BY <2>1 DEF Tasks
  <2>5. /\ t \in Tasks /\ t.kind = task.kind /\ t.verdict = task.verdict /\ t.todo = Tail(task.todo)
        /\ t.stage = task.stage /\ t.failed = task.failed /\ t.verified = task.verified
    BY <2>1, <2>3, <2>4 DEF Tasks
  <2>6. Achieved("snapshot", t)
    BY PlainStep
  <2>7. task' = t
    BY <1>2, <2>2, <2>3
  <2> QED
    BY <1>1, <1>2, <2>5, <2>6, <2>7, OnwardKeeps
<1>3. CASE Fail("snapshot")
  BY <1>1, <1>3, FailKeeps
<1>4. CASE Reject
  BY <1>1, <1>4, RejectKeeps
<1> QED
  BY <1>2, <1>3, <1>4 DEF Snapshot

\* docker compose up: containers run, with the policy compose.yaml has.
LEMMA ComposeUpKeeps ==
    ASSUME GateInv, NEW h \in Launches \ {"job"}, NEW xs, xs \subseteq Writers, ComposeUp(h, xs)
    PROVE  GateInv'
<1>1. At(h) /\ SiteTypeOK
  BY TypeParts DEF GateInv, ComposeUp
<1>2. faults' \in 0..MaxFaults
  BY <1>1, Counted DEF SiteTypeOK, ComposeUp
<1>3. PICK some \in SUBSET xs : Launch(some)
  BY DEF ComposeUp
<1>4. SiteTypeOK'
  BY <1>1, <1>2, <1>3 DEF SiteTypeOK, ComposeUp, Launch, Environment, Writers
<1>5. h \notin {"verify", "compose", "inspect", "blocked", "stopped", "running",
                "maintenance", "rmdir", "down", "halt", "rmjobs", "check", "quiesce",
                "receipt", "assess", "survey"}
  BY DEF Launches
<1>6. Effect(h)
  <2>1. auto' \subseteq auto \/ ~manual
    BY <1>3 DEF Launch
  <2> QED
    BY <1>5, <2>1 DEF Effect, ComposeUp, Environment
<1>7. CASE Launched
  BY <1>1, <1>4, <1>6, <1>7, LaunchedKeeps
<1>8. CASE Fail(h)
  BY <1>1, <1>4, <1>5, <1>6, <1>8, FailKeeps
<1> QED
  BY <1>7, <1>8 DEF ComposeUp

\* docker compose stop: some of the containers no longer run.
LEMMA ComposeStopKeeps ==
    ASSUME GateInv, NEW h \in {"closetool", "stopwp", "stopall"}, NEW xs, ComposeStop(h, xs)
    PROVE  GateInv'
<1>1. At(h) /\ SiteTypeOK
  BY TypeParts DEF GateInv, ComposeStop
<1>2. faults' \in 0..MaxFaults
  BY <1>1, Counted DEF SiteTypeOK, ComposeStop
<1>3. up' \subseteq up
  BY DEF ComposeStop
<1>4. SiteTypeOK'
  BY <1>1, <1>2, <1>3 DEF SiteTypeOK, ComposeStop, Environment
<1>5. Effect(h)
  BY <1>3 DEF Effect, ComposeStop, Environment
<1>6. CASE Proceed
  BY <1>1, <1>4, <1>5, <1>6, PlainStep, ProceedKeeps
<1>7. CASE Fail(h)
  BY <1>1, <1>4, <1>5, <1>7, FailKeeps
<1> QED
  BY <1>6, <1>7 DEF ComposeStop

\* Both services are found running, or the operation fails.
LEMMA SettledKeeps ==
    ASSUME GateInv, Settled
    PROVE  GateInv'
<1>1. At("settled") /\ SiteTypeOK' /\ Effect("settled")
  BY Unmoved DEF Settled
<1>2. CASE Proceed
  BY <1>1, <1>2, PlainStep, ProceedKeeps
<1>3. CASE Fail("settled")
  BY <1>1, <1>3, FailKeeps
<1> QED
  BY <1>2, <1>3 DEF Settled

\* A job is started, and its end awaited.
LEMMA JobKeeps ==
    ASSUME GateInv, StartJob \/ AwaitJob
    PROVE  GateInv'
<1>1. SiteTypeOK /\ faults' \in 0..MaxFaults
  BY TypeParts, Counted DEF GateInv, SiteTypeOK, StartJob, AwaitJob
<1>2. SiteTypeOK'
  BY <1>1 DEF SiteTypeOK, StartJob, AwaitJob, Environment
<1>3. CASE StartJob
  <2>1. At("job") /\ Effect("job")
    BY <1>3 DEF StartJob, Effect, Environment, Launches
  <2>2. CASE Launched
    BY <1>2, <2>1, <2>2, LaunchedKeeps DEF Launches
  <2>3. CASE Fail("job")
    BY <1>2, <2>1, <2>3, FailKeeps
  <2> QED
    BY <1>3, <2>2, <2>3 DEF StartJob
<1>4. CASE AwaitJob
  <2>1. At("wait") /\ Effect("wait")
    <3>1. job' = job \/ job' = FALSE
      BY <1>4 DEF AwaitJob
    <3>2. job' => job
      BY <3>1, Zenon
    <3> QED
      BY <1>4, <3>2 DEF AwaitJob, Effect, Environment
  <2>2. CASE Proceed
    BY <1>2, <2>1, <2>2, PlainStep, ProceedKeeps
  <2>3. CASE Fail("wait")
    BY <1>2, <2>1, <2>3, FailKeeps
  <2> QED
    BY <1>4, <2>2, <2>3 DEF AwaitJob
<1> QED
  BY <1>3, <1>4

\* Steps that look at the site's files or containers.
LEMMA LookKeeps ==
    ASSUME GateInv, StatCompose \/ RefuseCreate \/ ConfirmAbsent
    PROVE  GateInv'
<1>1. UNCHANGED <<Environment, Host>> /\ (faults' = faults \/ Fault)
  BY DEF StatCompose, RefuseCreate, ConfirmAbsent
<1>2. SiteTypeOK' /\ \A h : Effect(h)
  BY <1>1, Unmoved
<1>3. PICK h \in {"stat", "refuse", "absent"} : At(h) /\ (Proceed \/ Fail(h))
  BY DEF StatCompose, RefuseCreate, ConfirmAbsent
<1>4. CASE Proceed
  BY <1>2, <1>3, <1>4, PlainStep, ProceedKeeps
<1>5. CASE Fail(h)
  BY <1>2, <1>3, <1>5, FailKeeps
<1> QED
  BY <1>3, <1>4, <1>5

\* docker compose down: no container is left.
LEMMA DownKeeps ==
    ASSUME GateInv, ComposeDown
    PROVE  GateInv'
<1>1. At("down") /\ SiteTypeOK
  BY TypeParts DEF GateInv, ComposeDown
<1>2. faults' \in 0..MaxFaults
  BY <1>1, Counted DEF SiteTypeOK, ComposeDown
<1>3. up' \subseteq up /\ auto' \subseteq auto /\ auto' \subseteq made' /\ old' \subseteq made'
      /\ made' \subseteq made
  BY DEF ComposeDown
<1>4. SiteTypeOK'
  BY <1>1, <1>2, <1>3 DEF SiteTypeOK, ComposeDown, Environment
<1>5. Effect("down")
  BY <1>3 DEF Effect, ComposeDown, Environment
<1>6. CASE up' = {} /\ Proceed
  <2>1. \A t : Achieved("down", t)
    BY <1>6 DEF Achieved, Runs
  <2> QED
    BY <1>1, <1>4, <1>5, <1>6, <2>1, ProceedKeeps
<1>7. CASE Fail("down")
  BY <1>1, <1>4, <1>5, <1>7, FailKeeps
<1> QED
  BY <1>6, <1>7 DEF ComposeDown

\* The removal of the directory, whole or in part.
LEMMA Removed ==
    ASSUME SiteTypeOK, faults' \in 0..MaxFaults,
           UNCHANGED <<enforced, requests, changes, receipt, up, job, auto, old, made, consent>>,
           \/ PartlyRemoved
           \/ compose' = FALSE /\ manual' = FALSE /\ guard' = "none" /\ intent' = "none"
    PROVE  SiteTypeOK' /\ Effect("rmdir")
<1>1. manual' \in BOOLEAN /\ (manual' => compose')
  <2>1. CASE PartlyRemoved
    <3>1. compose' \in BOOLEAN
      BY <2>1 DEF PartlyRemoved, SiteTypeOK
    <3>2. manual' = (manual /\ compose')
      BY <2>1 DEF PartlyRemoved
    <3>3. manual \in BOOLEAN
      BY DEF SiteTypeOK
    <3>4. CASE manual = TRUE
      <4>1. manual' = compose'
        BY <3>1, <3>2, <3>4, Zenon
      <4> QED
        BY <3>1, <4>1
    <3>5. CASE manual = FALSE
      <4>1. manual' = FALSE
        BY <3>2, <3>5, Zenon
      <4> QED
        BY <4>1
    <3> QED
      BY <3>3, <3>4, <3>5
  <2>2. CASE manual' = FALSE
    BY <2>2
  <2> QED
    BY <2>1, <2>2
<1>2. /\ compose' \in BOOLEAN /\ intent' \in {intent, "none"}
      /\ guard' \in {"ready", "incomplete", "missing", "none"}
  BY DEF PartlyRemoved, SiteTypeOK
<1>3. SiteTypeOK'
  BY <1>1, <1>2 DEF SiteTypeOK
<1>4. Effect("rmdir")
  BY <1>1, <1>2 DEF Effect
<1> QED
  BY <1>3, <1>4

\* The site's directory is removed, its intent and record with it.
LEMMA RemoveDirKeeps ==
    ASSUME GateInv, RemoveDir
    PROVE  GateInv'
<1>1. At("rmdir") /\ SiteTypeOK
  BY TypeParts DEF GateInv, RemoveDir
<1>2. faults' \in 0..MaxFaults
  BY <1>1, Counted DEF SiteTypeOK, RemoveDir
<1>3. SiteTypeOK' /\ Effect("rmdir")
  BY <1>1, <1>2, Removed DEF RemoveDir
<1>4. CASE intent' = "none" /\ Proceed
  <2>1. \A t : Achieved("rmdir", t)
    BY <1>4 DEF Achieved, Runs
  <2> QED
    BY <1>1, <1>3, <1>4, <2>1, ProceedKeeps
<1>5. CASE Fail("rmdir")
  BY <1>1, <1>3, <1>5, FailKeeps
<1> QED
  BY <1>4, <1>5 DEF RemoveDir

\* finishQuotaWrite begins: from here its own preflight counts.
LEMMA PostKeeps ==
    ASSUME GateInv, Post
    PROVE  GateInv'
<1>1. At("post") /\ SiteTypeOK' /\ Effect("post")
  BY Unmoved DEF Post
<1>2. task \in Tasks /\ task.todo # <<>>
  BY <1>1, TaskIsTask DEF At
<1>3. PICK t : t = [task EXCEPT !.todo = Tail(@), !.stage = "post"]
  OBVIOUS
<1>4. Tail(task.todo) \in Seq(Steps)
  BY <1>2 DEF Tasks
<1>5. /\ t \in Tasks /\ t.kind = task.kind /\ t.verdict = task.verdict /\ t.todo = Tail(task.todo)
      /\ t.stage = "post" /\ t.failed = task.failed /\ t.verified = task.verified
  BY <1>2, <1>3, <1>4 DEF Tasks
<1>6. Achieved("post", t)
  BY PlainStep
<1>7. task' = t /\ UNCHANGED worker
  BY <1>3 DEF Post
<1> QED
  BY <1>1, <1>5, <1>6, <1>7, OnwardKeeps

\* quiesceSite: a failed request fences the site before its receipt.
LEMMA QuiesceKeeps ==
    ASSUME GateInv, Quiesce
    PROVE  GateInv'
<1>1. At("quiesce") /\ SiteTypeOK' /\ Effect("quiesce") /\ UNCHANGED <<Environment, Host>>
  BY Unmoved DEF Quiesce
<1>2. task \in Tasks /\ task.todo # <<>> /\ task # NoTask /\ "quiesce" = Head(task.todo)
  BY <1>1, TaskIsTask DEF At
<1>3. SiteSound' /\ SiteSound
  BY <1>1, <1>2, SiteStep DEF GateInv
<1>4. task.todo \in Seq(Steps) /\ TaskSound(task)
  BY <1>2 DEF GateInv, Tasks
<1>5. PICK r : r = Tail(task.todo)
  OBVIOUS
<1>6. /\ r \in Seq(Steps)
      /\ \A T : Lacks(task.todo, T) => Lacks(r, T) /\ "quiesce" \notin T
      /\ \A S, T : Parted(task.todo, S, T) => Parted(r, S, T)
      /\ \A S, T : Parted(task.todo, S, T) /\ "quiesce" \in S => Lacks(r, T)
  BY <1>2, <1>4, <1>5, TailOrder
<1>7. PICK f : f = IF Marked THEN Fence("blocked") ELSE <<"rmjobs">>
  OBVIOUS
<1>8. /\ f \in Seq(Steps) /\ Ordered(f) /\ StepsOf(f) \subseteq {"blocked", "rmjobs", "halt"}
      /\ "rmjobs" \in StepsOf(f)
      /\ Marked => "blocked" \in StepsOf(f) /\ "halt" \in StepsOf(f)
  <2>1. CASE Marked
    <3>1. f = Fence("blocked")
      BY <1>7, <2>1
    <3>2. /\ Fence("blocked") \in Seq(Steps) /\ Ordered(Fence("blocked"))
          /\ StepsOf(Fence("blocked")) = {"blocked", "rmjobs", "halt"}
      BY FencePlan
    <3> QED
      BY <3>1, <3>2
  <2>2. CASE ~Marked
    <3>1. f = <<"rmjobs">>
      BY <1>7, <2>2
    <3>2. "rmjobs" \in Steps
      BY DEF Steps, FenceSteps
    <3>3. f \in Seq(Steps) /\ StepsOf(f) = {"rmjobs"}
      BY <3>1, <3>2, Steps1
    <3>4. Lacks(f, Launches \cup Runs \cup {"inspect", "halt"})
      BY <3>3, StepsLacks DEF Launches, Runs
    <3> QED
      BY <2>2, <3>3, <3>4, PlainOrdered
  <2> QED
    BY <2>1, <2>2
<1>9. PICK w : w = f \o r
  OBVIOUS
<1>10. /\ w \in Seq(Steps)
       /\ \A T : Lacks(f, T) /\ Lacks(r, T) => Lacks(w, T)
       /\ \A S, T : Behind(f, S, T) /\ Behind(r, S, T) => Behind(w, S, T)
       /\ \A S, T : Behind(f, S, T) /\ ~Lacks(f, S) => Behind(w, S, T)
       /\ \A S, T : Parted(f, S, T) /\ Parted(r, S, T) /\ (Lacks(f, S) \/ Lacks(r, T)) =>
             Parted(w, S, T)
  BY <1>6, <1>8, <1>9, ConcatOrder
<1>11. PICK t : t = [task EXCEPT !.todo = w, !.failed = FALSE]
  OBVIOUS
<1>12. /\ t \in Tasks /\ t.kind = task.kind /\ t.verdict = task.verdict /\ t.todo = w
       /\ t.stage = task.stage /\ t.failed = FALSE /\ t.verified = task.verified
  BY <1>2, <1>10, <1>11 DEF Tasks
<1>13. task' = t /\ worker' = worker
  BY <1>5, <1>7, <1>9, <1>11 DEF Quiesce
<1>14. task.verdict = "failed" /\ Lacks(r, Steps \ WayOut)
  BY <1>4, <1>6 DEF TaskSound, Arranged
<1>15. \A T : T \cap {"blocked", "rmjobs", "halt"} = {} => Lacks(f, T)
  BY <1>8, StepsLacks
<1>16. /\ Lacks(w, Launches \cup Runs \cup {"compose", "inspect", "survey"})
       /\ Lacks(w, {"rmdir"}) /\ Lacks(w, {"running"}) /\ Lacks(w, {"post"})
       /\ Lacks(w, Launches \cup {"running"}) /\ Lacks(w, {"survey"})
       /\ Lacks(w, Launches \cup Runs \cup {"survey"}) /\ Lacks(w, Steps \ WayOut)
  <2>1. Lacks(w, Steps \ WayOut)
    <3>1. (Steps \ WayOut) \cap {"blocked", "rmjobs", "halt"} = {}
      BY DEF WayOut
    <3> QED
      BY <1>10, <1>14, <1>15, <3>1
  <2>2. /\ Launches \cup Runs \cup {"compose", "inspect", "survey"} \subseteq Steps \ WayOut
        /\ {"rmdir"} \subseteq Steps \ WayOut /\ {"running"} \subseteq Steps \ WayOut
        /\ {"post"} \subseteq Steps \ WayOut /\ {"survey"} \subseteq Steps \ WayOut
    BY DEF Steps, WayOut, Launches, Runs, Intents, PreflightSteps
  <2>3. /\ Launches \cup {"running"} \subseteq Steps \ WayOut
        /\ Launches \cup Runs \cup {"survey"} \subseteq Steps \ WayOut
    BY <2>2 DEF Runs
  <2> QED
    BY <2>1, <2>2, <2>3, LacksOrder
<1>17. Arranged(t)'
  <2>1. task.kind \notin {"sweep", "startup"} => Lacks(w, {"assess", "survey"}) /\ task.stage # "resume"
    BY <1>4, <1>6, <1>10, <1>15 DEF TaskSound, Arranged
  <2>2. task.stage = "resume" => Lacks(w, {"receipt"})
    BY <1>4, <1>6, <1>10, <1>15 DEF TaskSound, Arranged
  <2>3. Lacks(f, {"running", "quiesce"}) /\ Lacks(f, {"receipt"})
    BY <1>15
  <2>4. \A T : Parted(f, {"running", "quiesce"}, T) /\ Parted(f, {"receipt"}, T)
    BY <2>3, LacksOrder
  <2>5. Parted(w, {"running", "quiesce"}, {"halt"}) /\ Parted(w, {"receipt"}, {"receipt"})
    BY <1>4, <1>6, <1>10, <2>3, <2>4 DEF TaskSound, Arranged
  <2>6. task.kind \in Tracked => Parted(w, {"receipt"}, Steps)
    BY <1>4, <1>6, <1>10, <2>3, <2>4 DEF TaskSound, Arranged
  <2> QED
    BY <1>12, <1>14, <1>16, <2>1, <2>2, <2>5, <2>6 DEF Arranged
<1>18. Tracking(t)'
  <2>1. ~Lacks(task.todo, Steps)
    BY <1>6 DEF Steps
  <2>2. receipt' = receipt
    BY <1>1 DEF Host
  <2>3. Lacks(task.todo, {"receipt"}) => Lacks(w, {"receipt"})
    BY <1>6, <1>10, <1>15
  <2> QED
    BY <1>4, <1>12, <2>1, <2>2, <2>3 DEF TaskSound, Tracking
<1>19. Resuming(t)'
  <2>1. consent' = consent
    BY <1>1 DEF Host
  <2> QED
    BY <1>4, <1>12, <1>16, <2>1 DEF TaskSound, Resuming
<1>20. Preflighted(t)'
  <2>1. /\ Launches \subseteq Launches \cup Runs \cup {"compose", "inspect", "survey"}
        /\ Launches \cup Runs \cup {"inspect"} \subseteq
              Launches \cup Runs \cup {"compose", "inspect", "survey"}
        /\ Runs \subseteq Launches \cup Runs \cup {"compose", "inspect", "survey"}
    OBVIOUS
  <2>2. /\ Behind(w, {"verify"}, Launches)
        /\ Behind(w, {"compose"}, Launches \cup Runs \cup {"inspect"})
        /\ Behind(w, {"inspect"}, Runs)
    BY <1>16, <2>1, LacksOrder
  <2> QED
    BY <1>12, <2>2 DEF Preflighted
<1>21. Removing(t)'
  <2>1. Behind(w, {"down"}, {"rmdir"})
    BY <1>16, LacksOrder
  <2> QED
    BY <1>12, <1>16, <2>1 DEF Removing
<1>22. Fencing(t)'
  <2>1. Lacks(f, {"receipt"})
    BY <1>15
  <2>2. \A S : Behind(f, S, {"receipt"})
    BY <2>1, LacksOrder
  <2>3. ~Lacks(f, {"rmjobs"}) /\ (Marked => ~Lacks(f, {"blocked"}) /\ ~Lacks(f, {"halt"}))
    BY <1>8, StepsLacks
  <2>4. /\ Behind(w, {"rmjobs"}, {"receipt"})
        /\ Marked => Behind(w, {"blocked"}, {"receipt"}) /\ Behind(w, {"halt"}, {"receipt"})
    BY <1>10, <2>2, <2>3
  <2>5. (Marked' <=> Marked) /\ up' = up
    BY <1>1 DEF Marked, Environment, Host
  <2>6. ~Marked => up = {}
    BY <1>3 DEF SiteSound
  <2> QED
    BY <1>12, <2>4, <2>5, <2>6 DEF Fencing
<1>23. Withdrawing(t)'
  <2>1. Lacks(r, {"halt"})
    BY <1>4, <1>6 DEF TaskSound, Arranged
  <2>2. Behind(r, {"blocked", "stopped"}, {"halt"}) /\ Behind(f, {"blocked", "stopped"}, {"halt"})
    BY <1>8, <2>1, LacksOrder DEF Ordered
  <2>3. Behind(w, {"blocked", "stopped"}, {"halt"})
    BY <1>10, <2>2
  <2> QED
    BY <1>12, <1>14, <2>3 DEF Withdrawing
<1>24. TaskSound(t)'
  BY <1>17, <1>18, <1>19, <1>20, <1>21, <1>22, <1>23 DEF TaskSound
<1>25. GateTypeOK'
  <2>1. worker' \in Phases /\ task' \in Tasks \cup {NoTask}
    BY <1>12, <1>13, TypeParts DEF GateInv
  <2> QED
    BY <1>1, <2>1 DEF GateTypeOK, SiteTypeOK, Phases
<1> QED
  BY <1>3, <1>13, <1>24, <1>25, NextSound

\* The receipt is final: of a failure, once the site is blocked and stopped.
LEMMA ReceiptKeeps ==
    ASSUME GateInv, Receipt
    PROVE  /\ GateInv'
           /\ receipt'.state = "failed" => (Marked => intent = "blocked") /\ up = {} /\ ~job
<1>1. At("receipt") /\ SiteTypeOK
  BY TypeParts DEF GateInv, Receipt
<1>2. task \in Tasks /\ task.todo # <<>> /\ task # NoTask /\ "receipt" = Head(task.todo)
  BY <1>1, TaskIsTask DEF At
<1>3. TaskSound(task) /\ SiteSound /\ task.todo \in Seq(Steps) /\ worker \in Phases
  BY <1>2, TypeParts DEF GateInv, Tasks
<1>4. PICK r : r = Tail(task.todo)
  OBVIOUS
<1>5. /\ r \in Seq(Steps)
      /\ \A T : Lacks(task.todo, T) => Lacks(r, T) /\ "receipt" \notin T
      /\ \A S, T : Behind(task.todo, S, T) => "receipt" \notin T
      /\ \A S, T : Behind(task.todo, S, T) /\ "receipt" \notin S => Behind(r, S, T)
      /\ \A S, T : Parted(task.todo, S, T) => Parted(r, S, T)
      /\ \A S, T : Parted(task.todo, S, T) /\ "receipt" \in S => Lacks(r, T)
  BY <1>2, <1>3, <1>4, TailOrder
<1>6. /\ receipt.state = "pending" /\ receipt.kind \in Tracked
      /\ task.kind \in Tracked => receipt.kind = task.kind
      /\ task.kind \notin Tracked => task.verdict = "failed"
      /\ receipt \in [kind : Tracked, state : {"pending", "succeeded", "failed", "rejected"}]
  <2>1. ~Lacks(task.todo, Steps) /\ ~Lacks(task.todo, {"receipt"})
    BY <1>5 DEF Steps
  <2>2. /\ receipt.state = "pending"
        /\ task.kind \in Tracked => receipt.kind = task.kind
        /\ task.kind \notin Tracked => task.verdict = "failed"
    BY <1>3, <2>1 DEF TaskSound, Tracking
  <2>3. receipt # [kind |-> "none", state |-> "none"]
    <3>1. [kind |-> "none", state |-> "none"].state = "none"
      OBVIOUS
    <3> QED
      BY <2>2, <3>1
  <2> QED
    BY <1>1, <2>2, <2>3 DEF SiteTypeOK
<1>7. PICK c : c = [receipt EXCEPT !.state = task.verdict]
  OBVIOUS
<1>8. /\ c \in [kind : Tracked, state : {"pending", "succeeded", "failed", "rejected"}]
      /\ c.state = task.verdict /\ c.kind = receipt.kind
  <2>1. task.verdict \in {"succeeded", "failed", "rejected"}
    BY <1>2 DEF Tasks
  <2> QED
    BY <1>6, <1>7, <2>1
<1>9. /\ \/ receipt' = receipt
         \/ receipt' = c /\ ~(task.verdict = "failed" /\ task.failed)
      /\ consent' = CASE receipt'.state = "failed" -> FALSE
                      [] /\ receipt'.state = "succeeded"
                         /\ receipt.kind \in {"start", "restore"} -> TRUE
                      [] OTHER -> consent
      /\ faults' = faults \/ Fault
      /\ (task' = NoTask /\ worker' = "down") \/ Proceed
  BY <1>7 DEF Receipt
<1>10. UNCHANGED <<Environment, intent, up, job, auto, old, made, manual>>
  BY DEF Receipt
<1>11. /\ receipt'.state \in {"pending", task.verdict}
       /\ receipt' \in [kind : Tracked, state : {"pending", "succeeded", "failed", "rejected"}]
  BY <1>6, <1>8, <1>9
<1>12. /\ receipt'.state = "failed" => consent' = FALSE
       /\ receipt'.state = "succeeded" /\ receipt.kind \in {"start", "restore"} => consent' = TRUE
       /\ receipt'.state # "failed" => consent' = TRUE \/ consent' = consent
  BY <1>9
<1>13. SiteTypeOK'
  <2>1. consent' \in BOOLEAN
    BY <1>1, <1>12 DEF SiteTypeOK
  <2>2. faults' \in 0..MaxFaults
    BY <1>1, <1>9, Counted DEF SiteTypeOK
  <2> QED
    BY <1>1, <1>10, <1>11, <2>1, <2>2 DEF SiteTypeOK, Environment
<1>14. receipt'.state = "failed" =>
          task.verdict = "failed" /\ (intent = "blocked" \/ ~Marked) /\ up = {} /\ ~job
  <2>1. SUFFICES ASSUME receipt'.state = "failed"
                 PROVE  task.verdict = "failed" /\ (intent = "blocked" \/ ~Marked) /\ up = {} /\ ~job
    OBVIOUS
  <2>2. task.verdict = "failed" /\ ~task.failed
    BY <1>6, <1>8, <1>9, <2>1
  <2>3. \A S : ~Behind(task.todo, S, {"receipt"})
    BY <1>5
  <2> QED
    BY <1>3, <2>2, <2>3 DEF TaskSound, Fencing
<1>15. SiteSound'
  <2>1. RestartIsOurs' /\ (manual' => compose') /\ (~Marked' => intent' \notin Runs)
        /\ (~Marked' \/ ~compose' => up' = {})
    BY <1>3, <1>10 DEF SiteSound, RestartIsOurs, Marked, Environment
  <2>2. intent' = "running" => consent' \/ receipt'.state = "pending"
    <3>1. SUFFICES ASSUME intent = "running", receipt'.state # "pending"
                   PROVE  consent'
      BY <1>10
    <3>2. receipt'.state = task.verdict /\ task.verdict \in {"succeeded", "failed", "rejected"}
      BY <1>2, <1>11, <3>1 DEF Tasks
    <3>3. ~Marked => intent \notin Runs
      BY <1>3 DEF SiteSound
    <3>4. task.verdict # "failed"
      BY <1>14, <3>1, <3>2, <3>3 DEF Runs
    <3>5. task.kind \in Tracked /\ receipt.kind = task.kind
      BY <1>6, <3>4
    <3>6. task.kind \notin {"stop", "prepare-restore", "delete"}
      <4>1. \A S : ~Behind(task.todo, S, {"receipt"})
        BY <1>5
      <4> QED
        BY <1>3, <3>1, <3>4, <4>1 DEF TaskSound, Withdrawing
    <3>7. CASE task.kind \in {"start", "restore"}
      <4>1. task.verdict # "rejected"
        BY <1>3, <3>7 DEF TaskSound, Arranged
      <4> QED
        BY <1>12, <3>2, <3>4, <3>5, <3>7, <4>1
    <3>8. CASE task.kind \in {"update", "backup", "resources", "create"}
      <4>1. consent
        BY <1>3, <3>1, <3>4, <3>8 DEF TaskSound, Withdrawing
      <4> QED
        BY <1>12, <3>2, <3>4, <4>1
    <3> QED
      BY <3>5, <3>6, <3>7, <3>8 DEF Tracked
  <2> QED
    BY <2>1, <2>2 DEF SiteSound
<1> SUFFICES GateInv'
  BY <1>14
<1>16. CASE task' = NoTask /\ worker' = "down"
  <2>1. GateTypeOK'
    BY <1>13, <1>16 DEF GateTypeOK, SiteTypeOK
  <2> QED
    BY <1>15, <1>16, <2>1 DEF GateInv
<1>17. CASE Proceed
  <2>1. PICK t : t = [task EXCEPT !.todo = r]
    OBVIOUS
  <2>2. /\ t \in Tasks /\ t.kind = task.kind /\ t.verdict = task.verdict /\ t.todo = r
        /\ t.stage = task.stage /\ t.failed = task.failed /\ t.verified = task.verified
    BY <1>2, <1>5, <2>1 DEF Tasks
  <2>3. task' = t /\ worker' = worker
    BY <1>4, <1>17, <2>1 DEF Proceed
  <2>4. Lacks(r, {"receipt"}) /\ (task.kind \in Tracked => Lacks(r, Steps))
    BY <1>3, <1>5 DEF TaskSound, Arranged
  <2>5. Arranged(t)'
    BY <1>3, <1>5, <2>2 DEF TaskSound, Arranged
  <2>6. Tracking(t)'
    BY <2>2, <2>4 DEF Tracking
  <2>7. Resuming(t)'
    <3>1. task.stage # "resume"
      BY <1>3, <1>5 DEF TaskSound, Arranged
    <3>2. Marked' \/ Lacks(r, Launches \cup Runs \cup {"survey"})
      BY <1>3, <1>5, <1>10 DEF TaskSound, Resuming, Marked, Environment
    <3>3. Lacks(r, {"survey"})
      <4>1. ~Resolved
        BY <1>6 DEF Resolved
      <4> QED
        BY <1>3, <1>5, <4>1 DEF TaskSound, Resuming
    <3> QED
      BY <2>2, <3>1, <3>2, <3>3 DEF Resuming
  <2>8. Preflighted(t)' /\ Removing(t)'
    <3>1. "receipt" \notin {"verify"} /\ "receipt" \notin {"compose"} /\ "receipt" \notin {"inspect"}
          /\ "receipt" \notin {"stopped"} /\ "receipt" \notin {"check"} /\ "receipt" \notin {"down"}
      OBVIOUS
    <3>2. Preflighted(t)'
      BY <1>3, <1>5, <1>10, <2>2, <3>1 DEF TaskSound, Preflighted
    <3>3. Removing(t)'
      BY <1>3, <1>5, <1>10, <2>2, <3>1 DEF TaskSound, Removing
    <3> QED
      BY <3>2, <3>3
  <2>9. \A S : Behind(r, S, {"receipt"})
    BY <2>4, LacksOrder
  <2>10. Fencing(t)'
    BY <2>2, <2>9 DEF Fencing
  <2>11. Withdrawing(t)'
    <3>1. \/ intent' # "running" \/ t.failed
          \/ Behind(r, {"blocked", "stopped"}, {"halt"})
      <4>1. "receipt" \notin {"blocked", "stopped"}
        OBVIOUS
      <4> QED
        BY <1>3, <1>5, <1>10, <2>2, <4>1 DEF TaskSound, Withdrawing
    <3>2. task.kind \in {"update", "backup", "resources", "create"} /\ task.verdict # "failed" =>
             intent' # "running" \/ consent'
      <4>1. SUFFICES ASSUME task.kind \in {"update", "backup", "resources", "create"},
                            task.verdict # "failed", intent = "running"
                     PROVE  consent'
        BY <1>10
      <4>2. consent
        BY <1>3, <4>1 DEF TaskSound, Withdrawing
      <4> QED
        BY <1>11, <1>12, <4>1, <4>2
    <3>3. task.kind \in {"stop", "prepare-restore", "delete"} =>
             /\ Behind(r, {"stopped", "maintenance", "rmdir"}, {"check", "receipt"})
             /\ Behind(r, {"check", "maintenance", "rmdir"}, {"receipt"})
      <4>1. SUFFICES ASSUME task.kind \in {"stop", "prepare-restore", "delete"}
                     PROVE  /\ Behind(r, {"stopped", "maintenance", "rmdir"}, {"check", "receipt"})
                            /\ Behind(r, {"check", "maintenance", "rmdir"}, {"receipt"})
        OBVIOUS
      <4>2. Lacks(r, Steps) /\ {"check", "receipt"} \subseteq Steps
        BY <2>4, <4>1 DEF Tracked, Steps
      <4> QED
        BY <2>9, <4>2, LacksOrder
    <3> QED
      BY <2>2, <3>1, <3>2, <3>3 DEF Withdrawing
  <2>12. TaskSound(t)'
    BY <2>5, <2>6, <2>7, <2>8, <2>10, <2>11 DEF TaskSound
  <2>13. GateTypeOK'
    <3>1. worker' \in Phases /\ task' \in Tasks \cup {NoTask}
      BY <1>3, <2>2, <2>3
    <3> QED
      BY <1>13, <3>1 DEF GateTypeOK, SiteTypeOK, Phases
  <2> QED
    BY <1>15, <2>3, <2>12, <2>13, NextSound
<1> QED
  BY <1>9, <1>16, <1>17

\* A plan of reconcileQuotaSites.
LEMMA SweepSound ==
    ASSUME NEW t, t.kind \in {"sweep", "startup"}, t.verdict = "succeeded", Ordered(t.todo),
           Lacks(t.todo, {"rmdir"}), Lacks(t.todo, {"post"}), Lacks(t.todo, {"receipt"}),
           Lacks(t.todo, {"quiesce"}),
           t.stage = "resume" => consent',
           t.stage = "resume" \/ Lacks(t.todo, Launches \cup {"running"}),
           Marked' \/ Lacks(t.todo, Launches \cup Runs \cup {"survey"}),
           Resolved' \/ Lacks(t.todo, {"survey"})
    PROVE  TaskSound(t)'
<1>1. Parted(t.todo, {"receipt"}, {"receipt"}) /\ Behind(t.todo, {"down"}, {"rmdir"})
  BY LacksOrder
<1>2. t.kind \notin Tracked
  BY DEF Tracked
<1>3. Arranged(t)'
  BY <1>1, <1>2 DEF Arranged, Ordered
<1>4. Tracking(t)' /\ Resuming(t)'
  BY <1>2 DEF Tracking, Resuming
<1>5. Preflighted(t)' /\ Removing(t)' /\ Fencing(t)' /\ Withdrawing(t)'
  BY <1>1 DEF Preflighted, Removing, Fencing, Withdrawing, Ordered
<1> QED
  BY <1>3, <1>4, <1>5 DEF TaskSound

\* The sweep reaches the site: receipt, intent and record decide what it does.
LEMMA AssessKeeps ==
    ASSUME GateInv, Assess
    PROVE  GateInv'
<1>1. At("assess") /\ SiteTypeOK' /\ Effect("assess") /\ UNCHANGED <<Environment, Host>>
  BY Unmoved DEF Assess
<1>2. task \in Tasks /\ task.todo # <<>> /\ task # NoTask /\ "assess" = Head(task.todo)
  BY <1>1, TaskIsTask DEF At
<1>3. SiteSound'
  BY <1>1, <1>2, SiteStep
<1>4. TaskSound(task) /\ task.todo \in Seq(Steps) /\ worker \in Phases
  BY <1>2, TypeParts DEF GateInv, Tasks
<1>5. task.kind \in {"sweep", "startup"}
  <2>1. ~Lacks(task.todo, {"assess", "survey"})
    BY <1>2, <1>4, TailOrder
  <2> QED
    BY <1>4, <2>1 DEF TaskSound, Arranged
<1>6. PICK a : a = Assessed
  OBVIOUS
<1>7. /\ a \in Seq(Steps) /\ Ordered(a)
      /\ \/ StepsOf(a) \subseteq {"blocked", "stopped", "rmjobs", "halt"}
         \/ StepsOf(a) = {"compose", "verify", "survey"} /\ Marked /\ Resolved
  BY <1>6, AssessedPlan
<1>8. PICK c : /\ c \in {<<"check">>, <<>>}
               /\ task' = [task EXCEPT !.todo = a \o c, !.failed = FALSE, !.verdict = "succeeded"]
  BY <1>6 DEF Assess
<1>9. c \in Seq(Steps) /\ StepsOf(c) \subseteq {"check"}
  <2>1. "check" \in Steps
    BY DEF Steps
  <2>2. <<"check">> \in Seq(Steps) /\ StepsOf(<<"check">>) = {"check"}
    BY <2>1, Steps1
  <2> QED
    BY <1>8, <2>2, Steps0
<1>10. Ordered(c) /\ Lacks(c, {"halt"})
  BY <1>9, StepsLacks, PlainOrdered DEF Launches, Runs
<1>11. PICK w : w = a \o c
  OBVIOUS
<1>12. w \in Seq(Steps) /\ Ordered(w) /\ StepsOf(w) = StepsOf(a) \cup StepsOf(c)
  <2>1. Ordered(a \o c)
    BY <1>7, <1>9, <1>10, ConcatOrdered
  <2>2. a \o c \in Seq(Steps) /\ StepsOf(a \o c) = StepsOf(a) \cup StepsOf(c)
    BY <1>7, <1>9, ConcatSteps
  <2> QED
    BY <1>11, <2>1, <2>2
<1>13. StepsOf(w) \subseteq {"blocked", "stopped", "rmjobs", "halt", "check", "compose", "verify", "survey"}
  BY <1>7, <1>9, <1>12
<1>14. \A T : T \cap {"blocked", "stopped", "rmjobs", "halt", "check", "compose", "verify", "survey"} = {}
                => Lacks(w, T)
  BY <1>13, StepsLacks
<1>15. /\ Lacks(w, {"rmdir"}) /\ Lacks(w, {"post"}) /\ Lacks(w, {"receipt"}) /\ Lacks(w, {"quiesce"})
       /\ Lacks(w, Launches \cup {"running"})
  <2>1. (Launches \cup {"running"})
           \cap {"blocked", "stopped", "rmjobs", "halt", "check", "compose", "verify", "survey"} = {}
    BY DEF Launches
  <2> QED
    BY <1>14, <2>1
<1>16. (Marked /\ Resolved) \/ (Lacks(w, Launches \cup Runs \cup {"survey"}) /\ Lacks(w, {"survey"}))
  <2>1. SUFFICES ASSUME ~(Marked /\ Resolved)
                 PROVE  Lacks(w, Launches \cup Runs \cup {"survey"}) /\ Lacks(w, {"survey"})
    OBVIOUS
  <2>2. StepsOf(w) \subseteq {"blocked", "stopped", "rmjobs", "halt", "check"}
    BY <1>7, <1>9, <1>12, <2>1
  <2> QED
    BY <2>2, StepsLacks DEF Launches, Runs
<1>17. PICK t : t = [task EXCEPT !.todo = w, !.failed = FALSE, !.verdict = "succeeded"]
  OBVIOUS
<1>18. /\ t \in Tasks /\ t.kind = task.kind /\ t.verdict = "succeeded" /\ t.todo = w
       /\ t.stage = task.stage
  BY <1>2, <1>12, <1>17 DEF Tasks
<1>19. task' = t /\ worker' = worker
  BY <1>8, <1>11, <1>17 DEF Assess
<1>20. (Marked' <=> Marked) /\ (Resolved' <=> Resolved) /\ consent' = consent
  BY <1>1 DEF Marked, Resolved, Environment, Host
<1>21. task.stage = "resume" => consent
  BY <1>4 DEF TaskSound, Resuming
<1>22. TaskSound(t)'
  <2>1. /\ t.kind \in {"sweep", "startup"} /\ t.verdict = "succeeded" /\ Ordered(t.todo)
        /\ Lacks(t.todo, {"rmdir"}) /\ Lacks(t.todo, {"post"}) /\ Lacks(t.todo, {"receipt"})
        /\ Lacks(t.todo, {"quiesce"}) /\ Lacks(t.todo, Launches \cup {"running"})
    BY <1>5, <1>12, <1>15, <1>18
  <2>2. /\ t.stage = "resume" => consent'
        /\ Marked' \/ Lacks(t.todo, Launches \cup Runs \cup {"survey"})
        /\ Resolved' \/ Lacks(t.todo, {"survey"})
    BY <1>16, <1>18, <1>20, <1>21
  <2> QED
    BY <2>1, <2>2, SweepSound
<1>23. GateTypeOK'
  <2>1. worker' \in Phases /\ task' \in Tasks \cup {NoTask}
    BY <1>4, <1>18, <1>19
  <2> QED
    BY <1>1, <2>1 DEF GateTypeOK, SiteTypeOK, Phases
<1> QED
  BY <1>3, <1>19, <1>22, <1>23, NextSound

\* The containers of a site that may run are compared with its intent.
LEMMA SurveyKeeps ==
    ASSUME GateInv, Survey
    PROVE  GateInv'
<1>1. At("survey") /\ SiteTypeOK' /\ Effect("survey") /\ UNCHANGED <<Environment, Host>>
  BY Unmoved DEF Survey
<1>2. task \in Tasks /\ task.todo # <<>> /\ task # NoTask /\ "survey" = Head(task.todo)
  BY <1>1, TaskIsTask DEF At
<1>3. SiteSound' /\ SiteSound
  BY <1>1, <1>2, SiteStep DEF GateInv
<1>4. TaskSound(task) /\ task.todo \in Seq(Steps) /\ worker \in Phases
  BY <1>2, TypeParts DEF GateInv, Tasks
<1>5. /\ task.kind \in {"sweep", "startup"} /\ task.verdict = "succeeded"
      /\ Marked /\ Resolved
  <2>1. \A T : Lacks(task.todo, T) => "survey" \notin T
    BY <1>2, <1>4, TailOrder
  <2>2. "survey" \in Steps \ WayOut
    BY DEF Steps, WayOut
  <2>3. /\ ~Lacks(task.todo, {"assess", "survey"}) /\ ~Lacks(task.todo, Steps \ WayOut)
        /\ ~Lacks(task.todo, {"survey"}) /\ ~Lacks(task.todo, Launches \cup Runs \cup {"survey"})
    BY <2>1, <2>2
  <2>4. task.verdict \in {"succeeded", "failed", "rejected"}
    BY <1>2 DEF Tasks
  <2> QED
    BY <1>4, <2>3, <2>4 DEF TaskSound, Arranged, Resuming
<1>6. CASE Fail("survey")
  BY <1>1, <1>6, FailKeeps
<1>7. ASSUME NEW w, NEW b, w \in Seq(Steps), Ordered(w),
             StepsOf(w) \cap {"rmdir", "post", "receipt", "quiesce", "survey"} = {},
             b \in {task.stage, "resume"}, b = "resume" => consent,
             b = "resume" \/ w = <<>>,
             task' = [task EXCEPT !.todo = w, !.stage = b], worker' = worker
      PROVE  GateInv'
  <2>1. PICK t : t = [task EXCEPT !.todo = w, !.stage = b]
    OBVIOUS
  <2>2. /\ t \in Tasks /\ t.kind = task.kind /\ t.verdict = "succeeded" /\ t.todo = w
        /\ t.stage = b
    <3>1. b \in {"main", "post", "unwind", "resume"}
      BY <1>2, <1>7 DEF Tasks
    <3> QED
      BY <1>2, <1>5, <1>7, <2>1, <3>1 DEF Tasks
  <2>3. task' = t
    BY <1>7, <2>1
  <2>4. /\ Lacks(w, {"rmdir"}) /\ Lacks(w, {"post"}) /\ Lacks(w, {"receipt"})
        /\ Lacks(w, {"quiesce"}) /\ Lacks(w, {"survey"})
    BY <1>7, StepsLacks
  <2>5. b = "resume" \/ Lacks(w, Launches \cup {"running"})
    BY <1>7, Steps0, StepsLacks
  <2>6. (Marked' <=> Marked) /\ consent' = consent
    BY <1>1 DEF Marked, Environment, Host
  <2>7. TaskSound(t)'
    <3>1. /\ t.kind \in {"sweep", "startup"} /\ t.verdict = "succeeded" /\ Ordered(t.todo)
          /\ Lacks(t.todo, {"rmdir"}) /\ Lacks(t.todo, {"post"}) /\ Lacks(t.todo, {"receipt"})
          /\ Lacks(t.todo, {"quiesce"}) /\ Lacks(t.todo, {"survey"})
      BY <1>5, <1>7, <2>2, <2>4
    <3>2. /\ t.stage = "resume" => consent'
          /\ t.stage = "resume" \/ Lacks(t.todo, Launches \cup {"running"})
          /\ Marked'
      BY <1>5, <1>7, <2>2, <2>5, <2>6
    <3> QED
      BY <3>1, <3>2, SweepSound
  <2>8. GateTypeOK'
    <3>1. worker' \in Phases /\ task' \in Tasks \cup {NoTask}
      BY <1>4, <1>7, <2>2, <2>3
    <3> QED
      BY <1>1, <3>1 DEF GateTypeOK, SiteTypeOK, Phases
  <2> QED
    BY <1>3, <2>3, <2>7, <2>8, NextSound
<1>8. CASE /\ SavedIntent = "running" /\ worker' = worker
           /\ task' = [task EXCEPT !.todo = StartQuotaSite, !.stage = "resume"]
  <2>1. consent
    BY <1>3, <1>5, <1>8 DEF SavedIntent, SiteSound, Resolved
  <2>2. StepsOf(StartQuotaSite) \cap {"rmdir", "post", "receipt", "quiesce", "survey"} = {}
    BY StartPlan
  <2> QED
    BY <1>7, <1>8, <2>1, <2>2, StartPlan
<1>9. CASE /\ worker' = worker
           /\ task' = [task EXCEPT !.todo = <<>>, !.stage = @]
  <2>1. task.stage = "resume" => consent
    BY <1>4 DEF TaskSound, Resuming
  <2> QED
    BY <1>7, <1>9, <2>1, Steps0, EmptyOrdered
<1> QED
  BY <1>6, <1>8, <1>9 DEF Survey

-----------------------------------------------------------------------------
(* Requests, the supervisor and the life of the processes *)

\* The recovery of a pending receipt.
LEMMA RecoverySound ==
    ASSUME NEW t, t.kind \in {"startup", "runtime"}, t.verdict = "failed", t.stage = "main",
           Ordered(t.todo),
           StepsOf(t.todo) \subseteq {"quiesce", "receipt", "assess"},
           t.kind = "runtime" => "assess" \notin StepsOf(t.todo),
           Parted(t.todo, {"receipt"}, {"receipt"}),
           Behind(t.todo, {"quiesce"}, {"receipt"}),
           "receipt" \in StepsOf(t.todo) => receipt'.state = "pending"
    PROVE  TaskSound(t)'
<1>1. \A T : T \cap {"quiesce", "receipt", "assess"} = {} => Lacks(t.todo, T)
  BY StepsLacks
<1>2. /\ Lacks(t.todo, Launches \cup Runs \cup {"survey"}) /\ Lacks(t.todo, Steps \ WayOut)
      /\ Lacks(t.todo, Launches \cup {"running"})
  <2>1. /\ (Launches \cup Runs \cup {"survey"}) \cap {"quiesce", "receipt", "assess"} = {}
        /\ (Steps \ WayOut) \cap {"quiesce", "receipt", "assess"} = {}
        /\ (Launches \cup {"running"}) \cap {"quiesce", "receipt", "assess"} = {}
    BY DEF Launches, Runs, WayOut
  <2> QED
    BY <1>1, <2>1
<1>3. /\ Lacks(t.todo, {"rmdir"}) /\ Lacks(t.todo, {"running"}) /\ Lacks(t.todo, {"post"})
      /\ Lacks(t.todo, {"survey"})
  BY <1>1
<1>4. t.kind = "runtime" => Lacks(t.todo, {"assess", "survey"})
  BY StepsLacks
<1>5. Lacks(t.todo, {"receipt"}) \/ receipt'.state = "pending"
  BY StepsLacks
<1>6. t.kind \notin Tracked
  BY DEF Tracked
<1>7. Behind(t.todo, {"down"}, {"rmdir"})
  BY <1>3, LacksOrder
<1>8. Arranged(t)'
  BY <1>2, <1>3, <1>4, <1>6 DEF Arranged, Ordered
<1>9. Tracking(t)' /\ Resuming(t)'
  BY <1>2, <1>3, <1>5, <1>6 DEF Tracking, Resuming
<1>10. Preflighted(t)' /\ Removing(t)' /\ Fencing(t)' /\ Withdrawing(t)'
  BY <1>3, <1>7 DEF Preflighted, Removing, Fencing, Withdrawing, Ordered
<1> QED
  BY <1>8, <1>9, <1>10 DEF TaskSound

\* quiesceSite and the receipt, alone or before the sweep of a startup.
LEMMA RecoveryPlan ==
    ASSUME NEW w, w = Recovery \/ w = Recovery \o <<"assess">>
    PROVE  /\ w \in Seq(Steps) /\ Ordered(w) /\ StepsOf(w) \subseteq {"quiesce", "receipt", "assess"}
           /\ w = Recovery => "assess" \notin StepsOf(w)
           /\ Parted(w, {"receipt"}, {"receipt"}) /\ Behind(w, {"quiesce"}, {"receipt"})
           /\ "receipt" \in StepsOf(w) => receipt.state = "pending"
<1> DEFINE b == <<"assess">>
<1>1. PICK r : r = Recovery
  OBVIOUS
<1>2. /\ r \in Seq(Steps) /\ Ordered(r) /\ StepsOf(r) \subseteq {"quiesce", "receipt"}
      /\ Parted(r, {"receipt"}, {"receipt"}) /\ Behind(r, {"quiesce"}, {"receipt"})
      /\ "receipt" \in StepsOf(r) => receipt.state = "pending"
  <2>1. CASE receipt.state = "pending"
    <3>1. r = <<"quiesce", "receipt">>
      BY <1>1, <2>1 DEF Recovery
    <3>2. {"quiesce", "receipt"} \subseteq Steps
      BY DEF Steps
    <3>3. /\ r \in Seq(Steps) /\ StepsOf(r) = {"quiesce", "receipt"}
          /\ Len(r) = 2 /\ r[1] = "quiesce" /\ r[2] = "receipt"
      BY <3>1, <3>2, Steps2
    <3>4. Ordered(r)
      BY <3>3, StepsLacks, PlainOrdered DEF Launches, Runs
    <3>5. Parted(r, {"receipt"}, {"receipt"})
      BY <3>3 DEF Parted
    <3>6. Behind(r, {"quiesce"}, {"receipt"})
      BY <3>3 DEF Behind
    <3> QED
      BY <2>1, <3>3, <3>4, <3>5, <3>6
  <2>2. CASE receipt.state # "pending"
    <3>1. r = <<>>
      BY <1>1, <2>2 DEF Recovery
    <3>2. r \in Seq(Steps) /\ StepsOf(r) = {} /\ Ordered(r)
      BY <3>1, Steps0, EmptyOrdered
    <3>3. Lacks(r, {"receipt"})
      BY <3>2, StepsLacks
    <3> QED
      BY <3>2, <3>3, LacksOrder
  <2> QED
    BY <2>1, <2>2
<1>3. CASE w = Recovery
  BY <1>1, <1>2, <1>3
<1>4. CASE w = Recovery \o <<"assess">> /\ w # Recovery
  <2>1. b \in Seq(Steps) /\ StepsOf(b) = {"assess"}
    <3>1. "assess" \in Steps
      BY DEF Steps
    <3> QED
      BY <3>1, Steps1
  <2>2. w = r \o b
    BY <1>1, <1>4
  <2> HIDE DEF b
  <2>3. Ordered(b) /\ Lacks(b, {"halt"}) /\ Lacks(b, {"receipt"})
    BY <2>1, StepsLacks, PlainOrdered DEF Launches, Runs
  <2>4. Ordered(r \o b)
    BY <1>2, <2>1, <2>3, ConcatOrdered
  <2>5. r \o b \in Seq(Steps) /\ StepsOf(r \o b) = StepsOf(r) \cup StepsOf(b)
    BY <1>2, <2>1, ConcatSteps
  <2>6. Parted(b, {"receipt"}, {"receipt"}) /\ Behind(b, {"quiesce"}, {"receipt"})
    BY <2>3, LacksOrder
  <2>7. Parted(r \o b, {"receipt"}, {"receipt"}) /\ Behind(r \o b, {"quiesce"}, {"receipt"})
    BY <1>2, <2>1, <2>3, <2>6, ConcatOrder
  <2> QED
    BY <1>2, <1>4, <2>1, <2>2, <2>4, <2>5, <2>7
<1> QED
  BY <1>3, <1>4

\* The site is the same, except that a job may have ended.
LEMMA SiteRests ==
    ASSUME SiteSound, UNCHANGED <<intent, receipt, up, auto, manual, compose, guard, consent>>
    PROVE  SiteSound'
BY DEF SiteSound, RestartIsOurs, Marked

\* A recovery begins, by /runtime or at startup.
LEMMA RecoveryBegins ==
    ASSUME GateInv, NEW kind \in {"startup", "runtime"}, NEW w,
           w = Recovery \/ (kind = "startup" /\ w = Recovery \o <<"assess">>),
           task' = [NewTask(kind, w) EXCEPT !.verdict = "failed"],
           worker' \in {worker, "starting"},
           UNCHANGED <<intent, receipt, up, auto, old, made, manual, compose, guard, enforced, consent,
                       requests, faults, changes>>,
           job' = job \/ job' = FALSE
    PROVE  GateInv'
<1>1. SiteTypeOK /\ SiteSound
  BY TypeParts DEF GateInv
<1>2. receipt' = receipt
  OBVIOUS
<1>3. SiteTypeOK' /\ SiteSound'
  <2>1. SiteSound'
    BY <1>1, SiteRests
  <2>2. SiteTypeOK'
    BY <1>1 DEF SiteTypeOK
  <2> QED
    BY <2>1, <2>2
<1>4. kind \in {"startup", "runtime"} /\ (w = Recovery \/ kind = "startup")
  OBVIOUS
<1>5. /\ w \in Seq(Steps) /\ Ordered(w) /\ StepsOf(w) \subseteq {"quiesce", "receipt", "assess"}
      /\ w = Recovery => "assess" \notin StepsOf(w)
      /\ Parted(w, {"receipt"}, {"receipt"}) /\ Behind(w, {"quiesce"}, {"receipt"})
      /\ "receipt" \in StepsOf(w) => receipt.state = "pending"
  BY RecoveryPlan
<1>6. PICK t : t = [NewTask(kind, w) EXCEPT !.verdict = "failed"]
  OBVIOUS
<1>7. t \in Tasks /\ t.kind = kind /\ t.stage = "main" /\ t.verdict = "failed" /\ t.todo = w
  <2>1. kind \in {"startup", "runtime"} /\ w \in Seq(Steps)
    BY <1>4, <1>5
  <2> QED
    BY <1>6, <2>1 DEF NewTask, Tasks
<1>8. TaskSound(t)'
  <2>1. t.kind = "runtime" => "assess" \notin StepsOf(t.todo)
    BY <1>4, <1>5, <1>7
  <2>2. "receipt" \in StepsOf(t.todo) => receipt'.state = "pending"
    BY <1>2, <1>5, <1>7
  <2> QED
    BY <1>4, <1>5, <1>7, <2>1, <2>2, RecoverySound
<1>9. task' = t
  BY <1>6
<1>10. GateTypeOK'
  <2>1. worker' \in Phases /\ task' \in Tasks \cup {NoTask}
    <3>1. worker \in Phases
      BY TypeParts DEF GateInv
    <3> QED
      BY <1>7, <1>9, <3>1 DEF Phases
  <2> QED
    BY <1>3, <2>1 DEF GateTypeOK, SiteTypeOK, Phases
<1> QED
  BY <1>3, <1>8, <1>9, <1>10, NextSound

\* /runtime finds a pending receipt and recovers it.
LEMMA RuntimeKeeps ==
    ASSUME GateInv, Runtime
    PROVE  GateInv'
<1>1. PICK w : w = Recovery
  OBVIOUS
<1>2. task' = [NewTask("runtime", w) EXCEPT !.verdict = "failed"] /\ worker' = worker
  BY <1>1 DEF Runtime
<1>3. UNCHANGED <<intent, receipt, up, auto, old, made, manual, compose, guard, enforced, consent,
                  requests, faults, changes, job>>
  BY DEF Runtime, Environment, Host
<1> QED
  BY <1>1, <1>2, <1>3, RecoveryBegins

\* main: the worker starts, removes the jobs and begins its recovery.
LEMMA BootKeeps ==
    ASSUME GateInv, Boot
    PROVE  GateInv'
<1>1. PICK w : w = Recovery \o <<"assess">>
  OBVIOUS
<1>2. task' = [NewTask("startup", w) EXCEPT !.verdict = "failed"] /\ worker' = "starting"
  BY <1>1 DEF Boot
<1>3. /\ UNCHANGED <<intent, receipt, up, auto, old, made, manual, compose, guard, enforced, consent,
                     requests, faults, changes>>
      /\ job' = FALSE
  BY DEF Boot, Environment
<1> QED
  BY <1>1, <1>2, <1>3, RecoveryBegins

\* runQuotaSupervisor begins a sweep.
LEMMA TickKeeps ==
    ASSUME GateInv, Tick
    PROVE  GateInv'
<1>1. SiteTypeOK /\ SiteSound /\ worker \in Phases
  BY TypeParts DEF GateInv
<1>2. SiteTypeOK' /\ SiteSound'
  <2>1. UNCHANGED <<intent, receipt, up, auto, manual, compose, guard, consent>>
    BY DEF Tick, Environment, Host
  <2>2. SiteTypeOK'
    BY <1>1 DEF SiteTypeOK, Tick, Environment, Host
  <2> QED
    BY <1>1, <2>1, <2>2, SiteRests
<1>3. PICK w : w = <<"assess">>
  OBVIOUS
<1>4. w \in Seq(Steps) /\ StepsOf(w) = {"assess"}
  <2>1. "assess" \in Steps
    BY DEF Steps
  <2> QED
    BY <1>3, <2>1, Steps1
<1>5. \A T : "assess" \notin T => Lacks(w, T)
  BY <1>4, StepsLacks
<1>6. /\ Lacks(w, {"rmdir"}) /\ Lacks(w, {"post"}) /\ Lacks(w, {"receipt"}) /\ Lacks(w, {"quiesce"})
      /\ Lacks(w, {"survey"}) /\ Lacks(w, Launches \cup {"running"})
      /\ Lacks(w, Launches \cup Runs \cup {"survey"})
      /\ Lacks(w, Launches \cup Runs \cup {"inspect", "halt"})
  <2>1. /\ "assess" \notin Launches \cup {"running"} /\ "assess" \notin Launches \cup Runs \cup {"survey"}
        /\ "assess" \notin Launches \cup Runs \cup {"inspect", "halt"}
    BY DEF Launches, Runs
  <2> QED
    BY <1>5, <2>1
<1>7. PICK t : t = NewTask("sweep", w)
  OBVIOUS
<1>8. t \in Tasks /\ t.kind = "sweep" /\ t.stage = "main" /\ t.verdict = "succeeded" /\ t.todo = w
  BY <1>4, <1>7 DEF NewTask, Tasks
<1>9. task' = t /\ worker' = worker
  BY <1>3, <1>7 DEF Tick
<1>10. TaskSound(t)'
  <2>1. Ordered(t.todo)
    BY <1>6, <1>8, PlainOrdered
  <2> QED
    BY <1>6, <1>8, <2>1, SweepSound
<1>11. GateTypeOK'
  <2>1. worker' \in Phases /\ task' \in Tasks \cup {NoTask}
    BY <1>1, <1>8, <1>9
  <2> QED
    BY <1>2, <2>1 DEF GateTypeOK, SiteTypeOK, Phases
<1> QED
  BY <1>2, <1>9, <1>10, <1>11, NextSound

\* A request begins with a plan that is in order.
LEMMA RequestKeeps ==
    ASSUME GateInv, NEW kind \in Tracked \cup Untracked, Request(kind)
    PROVE  GateInv'
<1>1. SiteTypeOK /\ SiteSound /\ worker \in Phases /\ task = NoTask
  BY TypeParts DEF GateInv, Request, Free
<1>2. /\ UNCHANGED <<worker, intent, up, job, auto, old, made, manual, compose, guard, enforced, changes>>
      /\ Marked \/ kind = "delete"
  BY DEF Request
<1>3. requests' \in 0..MaxRequests
  BY <1>1, MaxRequestsAssumption DEF Request, SiteTypeOK
<1>4. \/ /\ kind \in Tracked /\ receipt' = [kind |-> kind, state |-> "pending"]
         /\ receipt.state # "pending"
         /\ consent' = (consent /\ kind \notin {"stop", "prepare-restore", "delete"})
      \/ kind \in Untracked /\ receipt' = receipt /\ consent' = consent
  BY DEF Request
<1>5. consent' \in BOOLEAN /\ (kind \notin {"stop", "prepare-restore", "delete"} => consent' = consent)
  <2>1. consent \in BOOLEAN
    BY <1>1 DEF SiteTypeOK
  <2>2. CASE kind \in {"stop", "prepare-restore", "delete"} /\ consent' = (consent /\ FALSE)
    <3>1. consent' = FALSE
      BY <2>2, Zenon
    <3> QED
      BY <2>2, <3>1
  <2>3. CASE consent' = (consent /\ TRUE) \/ consent' = consent
    <3>1. consent' = consent
      BY <2>1, <2>3, Zenon
    <3> QED
      BY <2>1, <3>1
  <2>4. \/ kind \in {"stop", "prepare-restore", "delete"} /\ consent' = (consent /\ FALSE)
        \/ consent' = (consent /\ TRUE) \/ consent' = consent
    <3>1. CASE kind \in {"stop", "prepare-restore", "delete"}
      <4>1. kind \notin Untracked
        BY <3>1 DEF Untracked
      <4> QED
        BY <1>4, <3>1, <4>1
    <3>2. CASE kind \notin {"stop", "prepare-restore", "delete"}
      BY <1>4, <3>2
    <3> QED
      BY <3>1, <3>2
  <2> QED
    BY <2>2, <2>3, <2>4
<1>6. /\ receipt' \in [kind : Tracked, state : {"pending", "succeeded", "failed", "rejected"}]
                      \cup {[kind |-> "none", state |-> "none"]}
      /\ kind \in Tracked => receipt'.state = "pending" /\ receipt'.kind = kind
  <2>1. CASE kind \in Tracked
    <3>1. kind \notin Untracked
      BY <2>1 DEF Tracked, Untracked
    <3>2. receipt' = [kind |-> kind, state |-> "pending"]
      BY <1>4, <3>1
    <3> QED
      BY <2>1, <3>2
  <2>2. CASE kind \notin Tracked
    BY <1>1, <1>4, <2>2 DEF SiteTypeOK
  <2> QED
    BY <2>1, <2>2
<1>7. faults' \in 0..MaxFaults
  BY <1>1, Counted DEF Request, SiteTypeOK
<1>8. SiteTypeOK'
  BY <1>1, <1>2, <1>3, <1>5, <1>6, <1>7 DEF SiteTypeOK
<1>9. SiteSound'
  <2>1. RestartIsOurs' /\ (manual' => compose') /\ (~Marked' => intent' \notin Runs)
        /\ (~Marked' \/ ~compose' => up' = {})
    BY <1>1, <1>2 DEF SiteSound, RestartIsOurs, Marked
  <2>2. intent' = "running" => consent' \/ receipt'.state = "pending"
    <3>1. CASE kind \in Tracked
      BY <1>6, <3>1
    <3>2. CASE kind \notin Tracked
      BY <1>1, <1>2, <1>4, <3>2 DEF SiteSound
    <3> QED
      BY <3>1, <3>2
  <2> QED
    BY <2>1, <2>2 DEF SiteSound
<1>10. CASE task' = task
  <2>1. GateTypeOK'
    BY <1>1, <1>2, <1>8, <1>10 DEF GateTypeOK, SiteTypeOK, Phases
  <2> QED
    BY <1>1, <1>9, <1>10, <2>1 DEF GateInv
<1>11. CASE task' = NewTask(kind, WholeRequest(kind))
  <2>1. PICK w : w = WholeRequest(kind)
    OBVIOUS
  <2>2. /\ w \in Seq(Steps) /\ Ordered(w)
        /\ Lacks(w, {"assess", "survey"}) /\ Lacks(w, {"quiesce"}) /\ Lacks(w, {"survey"})
        /\ kind # "delete" => Lacks(w, {"rmdir"})
        /\ kind = "delete" => /\ Lacks(w, Launches \cup Runs \cup {"compose", "inspect", "survey"})
                              /\ compose => Behind(w, {"down"}, {"rmdir"})
                              /\ compose /\ Marked => /\ Behind(w, {"stopped"}, {"check", "rmdir"})
                                                       /\ Behind(w, {"check"}, {"rmdir"})
        /\ kind \notin {"start", "restore"} => Lacks(w, {"running"})
        /\ kind \in Tracked => Parted(w, {"receipt"}, Steps)
        /\ kind \notin Tracked => Lacks(w, {"receipt"})
        /\ Parted(w, {"receipt"}, {"receipt"})
        /\ kind \in {"stop", "prepare-restore", "delete"} =>
              /\ Behind(w, {"stopped", "maintenance", "rmdir"}, {"check", "receipt"})
              /\ Behind(w, {"check", "maintenance", "rmdir"}, {"receipt"})
    BY <2>1, RequestPlan
  <2>3. PICK t : t = NewTask(kind, w)
    OBVIOUS
  <2>4. /\ t \in Tasks /\ t.kind = kind /\ t.stage = "main" /\ t.verdict = "succeeded" /\ t.todo = w
        /\ t.failed = FALSE /\ t.verified = FALSE
    BY <2>2, <2>3 DEF NewTask, Tasks
  <2>5. task' = t
    BY <1>11, <2>1, <2>3
  <2>6. kind \notin {"sweep", "startup"}
    BY DEF Tracked, Untracked
  <2>7. Arranged(t)'
    BY <2>2, <2>4, <2>6 DEF Arranged, Ordered
  <2>8. Tracking(t)'
    BY <1>6, <2>2, <2>4 DEF Tracking
  <2>9. Resuming(t)'
    <3>1. Marked' \/ Lacks(w, Launches \cup Runs \cup {"survey"})
      <4>1. CASE kind = "delete"
        <5>1. Launches \cup Runs \cup {"survey"} \subseteq
                 Launches \cup Runs \cup {"compose", "inspect", "survey"}
          OBVIOUS
        <5> QED
          BY <2>2, <4>1, <5>1, LacksOrder
      <4>2. CASE kind # "delete"
        BY <1>2, <4>2 DEF Marked
      <4> QED
        BY <4>1, <4>2
    <3> QED
      BY <2>2, <2>4, <3>1 DEF Resuming
  <2>10. Preflighted(t)'
    BY <2>2, <2>4 DEF Preflighted, Ordered
  <2>11. Removing(t)'
    <3>1. CASE kind # "delete"
      <4>1. Lacks(w, {"rmdir"}) /\ Behind(w, {"down"}, {"rmdir"})
        BY <2>2, <3>1, LacksOrder
      <4> QED
        BY <2>4, <4>1 DEF Removing
    <3>2. CASE kind = "delete"
      <4>1. ~Marked \/ ~compose => intent \notin Runs /\ up = {}
        BY <1>1 DEF SiteSound, RestartIsOurs, Runs
      <4>2. Marked /\ compose => \/ intent \notin Runs
                                 \/ /\ Behind(w, {"stopped"}, {"check", "rmdir"})
                                    /\ Behind(w, {"check"}, {"rmdir"})
        BY <2>2, <3>2
      <4>3. up = {} \/ Behind(w, {"down"}, {"rmdir"})
        BY <2>2, <3>2, <4>1
      <4> QED
        BY <1>2, <2>4, <4>1, <4>2, <4>3 DEF Removing
    <3> QED
      BY <3>1, <3>2
  <2>12. Fencing(t)'
    BY <2>4 DEF Fencing
  <2>13. Withdrawing(t)'
    <3>1. kind \in {"update", "backup", "resources", "create"} => intent' # "running" \/ consent'
      <4>1. SUFFICES ASSUME kind \in {"update", "backup", "resources", "create"}, intent = "running"
                     PROVE  consent'
        BY <1>2
      <4>2. receipt.state # "pending"
        BY <1>4, <4>1 DEF Untracked
      <4>3. consent
        BY <1>1, <4>1, <4>2 DEF SiteSound
      <4> QED
        BY <1>5, <4>1, <4>3
    <3> QED
      BY <2>2, <2>4, <3>1 DEF Withdrawing, Ordered
  <2>14. TaskSound(t)'
    BY <2>7, <2>8, <2>9, <2>10, <2>11, <2>12, <2>13 DEF TaskSound
  <2>15. GateTypeOK'
    <3>1. worker' \in Phases /\ task' \in Tasks \cup {NoTask}
      BY <1>1, <1>2, <2>4, <2>5
    <3> QED
      BY <1>8, <3>1 DEF GateTypeOK, SiteTypeOK, Phases
  <2> QED
    BY <1>9, <2>5, <2>14, <2>15, NextSound
<1> QED
  BY <1>10, <1>11 DEF Request

\* The worker's end, and the machine's: no task is left.
LEMMA EndingKeeps ==
    ASSUME GateInv, End \/ CrashWorker \/ Reboot
    PROVE  GateInv'
<1>1. SiteTypeOK /\ SiteSound
  BY TypeParts DEF GateInv
<1>2. faults' \in 0..MaxFaults
  BY <1>1, Counted DEF End, CrashWorker, Reboot, SiteTypeOK
<1>3. task' = NoTask /\ worker' \in {"down", "serving"}
  BY DEF End, CrashWorker, Reboot
<1>4. SUFFICES SiteTypeOK' /\ SiteSound'
  BY <1>3 DEF GateInv, GateTypeOK, SiteTypeOK
<1>5. CASE End
  <2>1. UNCHANGED <<intent, receipt, up, auto, manual, compose, guard, consent>>
    BY <1>5 DEF End, Environment, Host
  <2>2. SiteTypeOK'
    BY <1>1, <1>2, <1>5 DEF End, Environment, Host, SiteTypeOK
  <2> QED
    BY <1>1, <2>1, <2>2, SiteRests
<1>6. CASE CrashWorker /\ UNCHANGED <<compose, guard, intent, manual>>
  <2>1. UNCHANGED <<intent, receipt, up, auto, manual, compose, guard, consent>>
    BY <1>6 DEF CrashWorker
  <2>2. SiteTypeOK'
    BY <1>1, <1>2, <1>6 DEF CrashWorker, SiteTypeOK
  <2> QED
    BY <1>1, <2>1, <2>2, SiteRests
<1>7. CASE CrashWorker /\ At("rmdir") /\ PartlyRemoved
  <2>1. SiteTypeOK' /\ Effect("rmdir")
    BY <1>1, <1>2, <1>7, Removed DEF CrashWorker
  <2>2. task # NoTask /\ task.todo # <<>> /\ "rmdir" = Head(task.todo)
    BY <1>7 DEF At
  <2>3. SiteSound'
    BY <2>1, <2>2, SiteStep
  <2> QED
    BY <2>1, <2>3
<1>8. CASE Reboot
  <2>1. SiteTypeOK'
    BY <1>1, <1>2, <1>8 DEF Reboot, SiteTypeOK, Environment
  <2>2. SiteSound'
    BY <1>1, <1>8 DEF Reboot, SiteSound, RestartIsOurs, Marked, Environment
  <2> QED
    BY <2>1, <2>2
<1> QED
  BY <1>5, <1>6, <1>7, <1>8 DEF CrashWorker

\* A job ends, or the storage changes, under a task that goes on.
LEMMA AsideKeeps ==
    ASSUME GateInv, JobEnds \/ StorageChanges
    PROVE  GateInv'
<1>1. SiteTypeOK /\ SiteSound /\ worker \in Phases /\ task \in Tasks \cup {NoTask}
  BY TypeParts DEF GateInv
<1>2. /\ UNCHANGED <<worker, task, intent, receipt, up, auto, old, made, manual, compose, guard, consent,
                     requests, faults>>
      /\ job' = job \/ job' = FALSE
  BY DEF JobEnds, StorageChanges, Environment, Host
<1>3. SiteSound'
  BY <1>1, <1>2, SiteRests
<1>4. changes' \in 0..MaxChanges /\ enforced' \in BOOLEAN
  <2>1. CASE JobEnds
    BY <1>1, <2>1 DEF JobEnds, Environment, SiteTypeOK
  <2>2. CASE StorageChanges
    BY <1>1, <2>2, MaxChangesAssumption DEF StorageChanges, SiteTypeOK
  <2> QED
    BY <2>1, <2>2
<1>5. SiteTypeOK'
  BY <1>1, <1>2, <1>4 DEF SiteTypeOK
<1>6. GateTypeOK'
  BY <1>1, <1>2, <1>5 DEF GateTypeOK, SiteTypeOK, Phases
<1>7. PICK t : t = task
  OBVIOUS
<1>8. t # NoTask => TaskSound(t)'
  <2>1. SUFFICES ASSUME TaskSound(t)
                 PROVE  TaskSound(t)'
    BY <1>7 DEF GateInv
  <2>2. job' => job
    BY <1>2
  <2>3. Arranged(t)' /\ Tracking(t)' /\ Resuming(t)' /\ Preflighted(t)' /\ Removing(t)' /\ Withdrawing(t)'
    BY <1>2, <2>1 DEF TaskSound, Arranged, Tracking, Resuming, Preflighted, Removing, Withdrawing,
                      Marked, Resolved
  <2>4. Fencing(t)'
    BY <1>2, <2>1, <2>2 DEF TaskSound, Fencing, Marked
  <2> QED
    BY <2>3, <2>4 DEF TaskSound
<1> QED
  BY <1>2, <1>3, <1>6, <1>7, <1>8, NextSound

-----------------------------------------------------------------------------
(* Theorems *)

\* A step of a task keeps the invariant.
LEMMA StepKeeps ==
    ASSUME GateInv, GateStep
    PROVE  GateInv'
<1>1. CASE \E state \in Intents : SaveIntent(state)
  BY <1>1, SaveIntentKeeps
<1>2. CASE RemoveJobs \/ HaltContainers \/ CheckFence
  BY <1>2, RemoveJobsKeeps, HaltKeeps, CheckKeeps
<1>3. CASE EnsureCompose \/ VerifyStorage \/ InspectContainers \/ Admit
  BY <1>3, ComposeKeeps, VerifyKeeps, InspectKeeps, AdmitKeeps
<1>4. ASSUME NEW h \in Launches \ {"job"}, NEW xs, xs \subseteq Writers, ComposeUp(h, xs)
      PROVE  GateInv'
  BY <1>4, ComposeUpKeeps
<1>5. /\ Services \subseteq Writers /\ {"db"} \subseteq Writers /\ {"db", "pma"} \subseteq Writers
      /\ {} \subseteq Writers
      /\ {"up", "updb", "upwp", "uptool", "restart"} \subseteq Launches \ {"job"}
  BY DEF Writers, Services, Launches
<1>6. CASE ComposeUp("up", Services) \/ ComposeUp("upwp", Services)
  BY <1>4, <1>5, <1>6
<1>7. CASE ComposeUp("updb", {"db"}) \/ ComposeUp("uptool", {"db", "pma"})
  BY <1>4, <1>5, <1>7
<1>8. CASE RestartServices
  <2>1. PICK xs : xs = IF task # NoTask /\ task.was THEN Services ELSE {}
    OBVIOUS
  <2>2. xs \subseteq Writers /\ ComposeUp("restart", xs)
    BY <1>5, <1>8, <2>1 DEF RestartServices
  <2> QED
    BY <1>4, <1>5, <2>2
<1>9. CASE \/ ComposeStop("closetool", {"pma"}) \/ ComposeStop("stopwp", {"wp"})
           \/ ComposeStop("stopall", Services)
  BY <1>9, ComposeStopKeeps
<1>10. CASE Settled \/ StartJob \/ AwaitJob \/ Snapshot
  BY <1>10, SettledKeeps, JobKeeps, SnapshotKeeps
<1>11. CASE StatCompose \/ RefuseCreate \/ ConfirmAbsent
  BY <1>11, LookKeeps
<1>12. CASE ComposeDown \/ RemoveDir
  BY <1>12, DownKeeps, RemoveDirKeeps
<1>13. CASE Post \/ Quiesce \/ Receipt
  BY <1>13, PostKeeps, QuiesceKeeps, ReceiptKeeps
<1>14. CASE Assess \/ Survey \/ End
  BY <1>14, AssessKeeps, SurveyKeeps, EndingKeeps
<1> QED
  BY <1>1, <1>2, <1>3, <1>6, <1>7, <1>8, <1>9, <1>10, <1>11, <1>12, <1>13, <1>14 DEF GateStep

\* Every step does.
LEMMA GateKeeps ==
    ASSUME GateInv, [GateNext]_gateVars
    PROVE  GateInv'
<1>1. CASE \E kind \in Tracked \cup Untracked : Request(kind)
  BY <1>1, RequestKeeps
<1>2. CASE Runtime \/ Tick \/ Boot
  BY <1>2, RuntimeKeeps, TickKeeps, BootKeeps
<1>3. CASE GateStep
  BY <1>3, StepKeeps
<1>4. CASE CrashWorker \/ Reboot
  BY <1>4, EndingKeeps
<1>5. CASE JobEnds \/ StorageChanges
  BY <1>5, AsideKeeps
<1>6. CASE UNCHANGED gateVars
  <2>1. SiteTypeOK /\ SiteSound /\ worker \in Phases /\ task \in Tasks \cup {NoTask}
    BY TypeParts DEF GateInv
  <2>2. SiteSound'
    BY <1>6, <2>1, SiteRests DEF gateVars
  <2>3. GateTypeOK'
    BY <1>6, <2>1 DEF gateVars, GateTypeOK, SiteTypeOK, Phases
  <2>4. PICK t : t = task
    OBVIOUS
  <2>5. t # NoTask => TaskSound(t)'
    <3>1. SUFFICES ASSUME TaskSound(t)
                   PROVE  TaskSound(t)'
      BY <2>4 DEF GateInv
    <3> QED
      BY <1>6, <3>1 DEF gateVars, TaskSound, Arranged, Tracking, Resuming, Preflighted, Removing,
                        Fencing, Withdrawing, Marked, Resolved
  <2>6. task' = t
    BY <1>6, <2>4 DEF gateVars
  <2> QED
    BY <2>2, <2>3, <2>5, <2>6, NextSound
<1> QED
  BY <1>1, <1>2, <1>3, <1>4, <1>5, <1>6 DEF GateNext

\* The restart gate keeps its inductive invariant for any bound on requests,
\* faults and changes of the storage.
THEOREM GateSafety == GateSpec => []GateInv
<1>1. GateInit => GateInv
  <2>1. SUFFICES ASSUME GateInit PROVE GateInv
    OBVIOUS
  <2>2. GateTypeOK
    <3>1. /\ worker \in {"down", "starting", "serving"} /\ task \in Tasks \cup {NoTask}
          /\ intent \in Intents \cup {"none"}
          /\ guard \in {"ready", "incomplete", "missing", "none"}
      BY <2>1 DEF GateInit
    <3>2. receipt \in [kind : Tracked, state : {"pending", "succeeded", "failed", "rejected"}]
                     \cup {[kind |-> "none", state |-> "none"]}
      BY <2>1, Zenon DEF GateInit
    <3>3. /\ up \subseteq Writers
          /\ auto \subseteq made /\ old \subseteq made /\ made \subseteq Services
      BY <2>1 DEF GateInit, Writers
    <3>4. {job, manual, compose, enforced, consent} \subseteq BOOLEAN
      BY <2>1, Zenon DEF GateInit
    <3>5. /\ requests \in 0..MaxRequests
          /\ faults \in 0..MaxFaults /\ changes \in 0..MaxChanges
      BY <2>1, MaxRequestsAssumption, GateFaultsAssumption, MaxChangesAssumption DEF GateInit
    <3> QED
      BY <3>1, <3>2, <3>3, <3>4, <3>5 DEF GateTypeOK
  <2>3. SiteSound
    BY <2>1 DEF GateInit, SiteSound, RestartIsOurs, Marked, Runs
  <2> QED
    BY <2>1, <2>2, <2>3 DEF GateInit, GateInv
<1>2. GateInv /\ [GateNext]_gateVars => GateInv'
  BY GateKeeps
<1> QED
  BY <1>1, <1>2, PTL DEF GateSpec

\* RestartIsOurs: a site that may run by intent is not one that Docker starts by
\* itself, whatever failed or crashed since its compose.yaml was changed.
THEOREM RestartIsOursHolds == GateSpec => []RestartIsOurs
<1>1. GateInv => RestartIsOurs
  BY DEF GateInv, SiteSound
<1> QED
  BY <1>1, GateSafety, PTL

\* A container or a job is started only by a step of a task that launches.
LEMMA LaunchStep ==
    ASSUME GateInv, [GateNext]_gateVars, ~(up' \subseteq up) \/ (job' /\ ~job)
    PROVE  \E h \in Launches : At(h)
<1>1. CASE GateStep
  <2>1. ASSUME NEW h \in Launches, NEW xs, ComposeUp(h, xs) \/ (h = "job" /\ StartJob)
        PROVE  \E x \in Launches : At(x)
    BY <2>1 DEF ComposeUp, StartJob
  <2>2. {"up", "updb", "upwp", "uptool", "restart", "job"} \subseteq Launches
    BY DEF Launches
  <2>3. CASE \/ ComposeUp("up", Services) \/ ComposeUp("upwp", Services)
             \/ ComposeUp("updb", {"db"}) \/ ComposeUp("uptool", {"db", "pma"}) \/ StartJob
    BY <2>1, <2>2, <2>3
  <2>4. CASE RestartServices
    BY <2>2, <2>4 DEF RestartServices, ComposeUp
  <2>5. CASE \/ \E state \in Intents : SaveIntent(state)
             \/ CheckFence \/ EnsureCompose \/ VerifyStorage \/ InspectContainers \/ Admit
    BY <2>5 DEF SaveIntent, CheckFence, EnsureCompose, VerifyStorage, InspectContainers, Admit, Host
  <2>6. CASE RemoveJobs \/ HaltContainers \/ AwaitJob
    <3>1. (job' = job \/ job' = FALSE) /\ up' \subseteq up
      BY <2>6 DEF RemoveJobs, HaltContainers, AwaitJob
    <3> QED
      BY <3>1
  <2>7. CASE \/ ComposeStop("closetool", {"pma"}) \/ ComposeStop("stopwp", {"wp"})
             \/ ComposeStop("stopall", Services) \/ ComposeDown
    <3>1. job' = job /\ up' \subseteq up
      BY <2>7 DEF ComposeStop, ComposeDown
    <3> QED
      BY <3>1
  <2>8. CASE Settled \/ Snapshot \/ StatCompose \/ RefuseCreate \/ ConfirmAbsent \/ Post \/ Quiesce
             \/ Assess \/ Survey \/ End
    BY <2>8 DEF Settled, Snapshot, StatCompose, RefuseCreate, ConfirmAbsent, Post, Quiesce,
                Assess, Survey, End, Host
  <2>9. CASE RemoveDir \/ Receipt
    BY <2>9 DEF RemoveDir, Receipt
  <2> QED
    BY <1>1, <2>3, <2>4, <2>5, <2>6, <2>7, <2>8, <2>9 DEF GateStep
<1>2. CASE \/ \E kind \in Tracked \cup Untracked : Request(kind)
           \/ Runtime \/ Tick \/ Boot \/ JobEnds \/ CrashWorker \/ Reboot \/ StorageChanges
           \/ UNCHANGED gateVars
  <2>1. (job' = job \/ job' = FALSE) /\ up' \subseteq up
    BY <1>2 DEF Request, Runtime, Tick, Boot, JobEnds, CrashWorker, Reboot, StorageChanges, gateVars, Host
  <2> QED
    BY <2>1
<1> QED
  BY <1>1, <1>2 DEF GateNext

-----------------------------------------------------------------------------
(* What was launched is verified again *)

\* Every launch that is left has a verification after it.
Rechecked(s) ==
    \A n \in 1..Len(s) : s[n] \in Launches => \E m \in 1..Len(s) : n < m /\ s[m] = "verify"

\* The step that makes the task's success known.
Seal(kind) == IF kind \in Finishing THEN "receipt" ELSE "running"

\* A task that must look at what it launches has not failed: it verifies after each
\* launch, and before its seal if it has launched since it verified.
Attended(t) ==
    t.kind \in Finishing \cup {"start", "sweep", "startup"} /\ t.verdict # "failed" =>
        /\ Rechecked(t.todo)
        /\ t.kind \notin Finishing => Parted(t.todo, {"running"}, {"verify"})
        /\ t.unseen => ~Lacks(t.todo, {"verify"}) \/ Lacks(t.todo, {Seal(t.kind)})

LaunchInv == task # NoTask => Attended(task)

\* A launch that is done leaves its verification.
LEMMA RecheckedTail ==
    ASSUME NEW s \in Seq(Steps), s # <<>>, Rechecked(s)
    PROVE  Rechecked(Tail(s)) /\ (Head(s) \in Launches => ~Lacks(Tail(s), {"verify"}))
<1> DEFINE r == Tail(s)
<1>1. /\ Len(s) \in Nat /\ Len(s) >= 1 /\ Len(r) = Len(s) - 1 /\ Head(s) = s[1]
      /\ \A n \in 1..Len(r) : r[n] = s[n + 1]
  OBVIOUS
<1> HIDE DEF r
<1>2. ASSUME NEW n \in 1..Len(s), s[n] \in Launches
      PROVE  \E m \in 1..Len(r) : n - 1 < m /\ r[m] = "verify"
  <2>1. PICK m \in 1..Len(s) : n < m /\ s[m] = "verify"
    BY <1>2 DEF Rechecked
  <2>2. m - 1 \in 1..Len(r) /\ n - 1 < m - 1 /\ (m - 1) + 1 = m
    BY <1>1, <2>1
  <2>3. r[m - 1] = s[m]
    BY <1>1, <2>2
  <2> QED
    BY <2>1, <2>2, <2>3
<1>3. Rechecked(r)
  <2>1. SUFFICES ASSUME NEW n \in 1..Len(r), r[n] \in Launches
                 PROVE  \E m \in 1..Len(r) : n < m /\ r[m] = "verify"
    BY DEF Rechecked
  <2>2. n + 1 \in 1..Len(s) /\ s[n + 1] \in Launches /\ (n + 1) - 1 = n
    BY <1>1, <2>1
  <2> QED
    BY <1>2, <2>2
<1>4. Head(s) \in Launches => ~Lacks(r, {"verify"})
  <2>1. 1 \in 1..Len(s)
    BY <1>1
  <2> QED
    BY <1>1, <1>2, <2>1 DEF Lacks
<1> QED
  BY <1>3, <1>4 DEF r

\* Plans, one after the other.
LEMMA RecheckedConcat ==
    ASSUME NEW a \in Seq(Steps), NEW b \in Seq(Steps), Rechecked(b),
           Rechecked(a) \/ ~Lacks(b, {"verify"})
    PROVE  Rechecked(a \o b)
<1> DEFINE c == a \o b
<1>1. Len(a) \in Nat /\ Len(b) \in Nat
  OBVIOUS
<1>2. \A n \in 1..Len(a) : n \in 1..Len(c) /\ c[n] = a[n]
  BY ConcatItems
<1>3. \A n \in 1..Len(b) : n + Len(a) \in 1..Len(c) /\ c[n + Len(a)] = b[n]
  BY ConcatItems
<1>4. \A n \in 1..Len(c) : n \in 1..Len(a) \/ (n - Len(a) \in 1..Len(b) /\ c[n] = b[n - Len(a)])
  BY ConcatItems
<1>5. Len(c) \in Nat
  OBVIOUS
<1> HIDE DEF c
<1>6. SUFFICES ASSUME NEW n \in 1..Len(c), c[n] \in Launches
               PROVE  \E m \in 1..Len(c) : n < m /\ c[m] = "verify"
  BY DEF Rechecked, c
<1>7. CASE n \in 1..Len(a)
  <2>1. CASE Rechecked(a)
    BY <1>2, <1>6, <1>7, <2>1 DEF Rechecked
  <2>2. CASE ~Lacks(b, {"verify"})
    <3>1. PICK k \in 1..Len(b) : b[k] = "verify"
      BY <2>2 DEF Lacks
    <3>2. n < k + Len(a)
      BY <1>1, <1>7, <3>1
    <3> QED
      BY <1>3, <3>1, <3>2
  <2> QED
    BY <2>1, <2>2
<1>8. CASE n - Len(a) \in 1..Len(b) /\ c[n] = b[n - Len(a)]
  <2>1. PICK k \in 1..Len(b) : n - Len(a) < k /\ b[k] = "verify"
    BY <1>6, <1>8 DEF Rechecked
  <2>2. n < k + Len(a)
    BY <1>1, <1>5, <2>1
  <2> QED
    BY <1>3, <2>1, <2>2
<1> QED
  BY <1>4, <1>7, <1>8

\* A plan that launches nothing.
LEMMA IdleRechecked ==
    ASSUME NEW s, Lacks(s, Launches)
    PROVE  Rechecked(s)
BY DEF Lacks, Rechecked

\* startQuotaSite verifies what it has launched before it lets the site run.
LEMMA StartRechecked ==
    /\ Rechecked(StartQuotaSite)
    /\ Parted(StartQuotaSite, {"running"}, {"verify"})
    /\ ~Lacks(StartQuotaSite, {"verify"})
<1> DEFINE a == Fence("blocked") \o <<"check">>
           b == a \o Preflight
           x == <<"admit", "up">>
           c == b \o x
           d == c \o Preflight
           y == <<"settled", "running">>
<1>1. {"check", "admit", "up", "settled", "running"} \subseteq Steps
  BY DEF Steps, Intents
<1>2. /\ <<"check">> \in Seq(Steps) /\ StepsOf(<<"check">>) = {"check"}
      /\ x \in Seq(Steps) /\ StepsOf(x) = {"admit", "up"}
      /\ y \in Seq(Steps) /\ StepsOf(y) = {"settled", "running"}
  BY <1>1, Steps1, Steps2
<1>3. /\ Fence("blocked") \in Seq(Steps) /\ StepsOf(Fence("blocked")) = {"blocked", "rmjobs", "halt"}
      /\ Preflight \in Seq(Steps) /\ StepsOf(Preflight) = {"compose", "verify", "inspect"}
  BY FencePlan, PreflightPlan
<1>4. a \in Seq(Steps) /\ StepsOf(a) = StepsOf(Fence("blocked")) \cup StepsOf(<<"check">>)
  BY <1>2, <1>3, ConcatSteps
<1>5. StartQuotaSite = d \o y
  BY DEF StartQuotaSite
<1> HIDE DEF a, x, y
<1>6. b \in Seq(Steps) /\ StepsOf(b) = StepsOf(a) \cup StepsOf(Preflight)
  BY <1>3, <1>4, ConcatSteps
<1> HIDE DEF b
<1>7. c \in Seq(Steps) /\ StepsOf(c) = StepsOf(b) \cup StepsOf(x)
  BY <1>2, <1>6, ConcatSteps
<1> HIDE DEF c
<1>8. d \in Seq(Steps) /\ StepsOf(d) = StepsOf(c) \cup StepsOf(Preflight)
  BY <1>3, <1>7, ConcatSteps
<1>9. Lacks(Preflight, Launches) /\ ~Lacks(Preflight, {"verify"})
  BY <1>3, StepsLacks DEF Launches
<1>10. Rechecked(d)
  BY <1>3, <1>7, <1>9, IdleRechecked, RecheckedConcat
<1> HIDE DEF d
<1>11. Lacks(y, Launches) /\ Lacks(y, {"verify"})
  BY <1>2, StepsLacks DEF Launches
<1>12. Rechecked(d \o y)
  BY <1>2, <1>8, <1>10, <1>11, IdleRechecked, RecheckedConcat
<1>13. Lacks(d, {"running"})
  <2>1. "running" \notin StepsOf(d)
    BY <1>2, <1>3, <1>4, <1>6, <1>7, <1>8
  <2> QED
    BY <2>1, StepsLacks
<1>14. Parted(d \o y, {"running"}, {"verify"})
  <2>1. Parted(d, {"running"}, {"verify"}) /\ Parted(y, {"running"}, {"verify"})
    BY <1>11, <1>13, LacksOrder
  <2> QED
    BY <1>2, <1>8, <1>13, <2>1, ConcatOrder
<1>15. ~Lacks(StartQuotaSite, {"verify"})
  <2>1. "verify" \in StepsOf(StartQuotaSite)
    BY StartPlan
  <2> QED
    BY <2>1, StepsLacks
<1> QED
  BY <1>5, <1>12, <1>14, <1>15

\* finishQuotaWrite verifies after everything its handler launches, and so does start.
LEMMA RequestRechecked ==
    ASSUME NEW kind \in Finishing \cup {"start"}, kind \in Tracked \cup Untracked,
           NEW w, w = WholeRequest(kind)
    PROVE  Rechecked(w) /\ (kind \notin Finishing => Parted(w, {"running"}, {"verify"}))
<1> DEFINE h == Handler(kind)
           c == CheckedHandler(kind)
           e == IF kind \in Tracked THEN <<"receipt">> ELSE <<>>
<1>1. h \in Seq(Steps) /\ c \in Seq(Steps)
  BY HandlerPlan, CheckedPlan
<1>2. w = c \o e
  BY DEF WholeRequest, CheckedHandler
<1>3. e \in Seq(Steps) /\ StepsOf(e) \subseteq {"receipt"}
  <2>1. "receipt" \in Steps
    BY DEF Steps
  <2> QED
    BY <2>1, Steps0, Steps1
<1>4. Lacks(e, Launches) /\ Lacks(e, {"verify"}) /\ Lacks(e, {"running"})
  BY <1>3, StepsLacks DEF Launches
<1> HIDE DEF e
<1>5. CASE kind \in Finishing
  <2> DEFINE p == <<"post">>
             f == p \o Preflight
  <2>1. p \in Seq(Steps) /\ StepsOf(p) = {"post"}
    <3>1. "post" \in Steps
      BY DEF Steps
    <3> QED
      BY <3>1, Steps1
  <2>2. c = h \o f
    BY <1>5 DEF CheckedHandler
  <2> HIDE DEF p
  <2>3. f \in Seq(Steps) /\ StepsOf(f) = {"post"} \cup {"compose", "verify", "inspect"}
    BY <2>1, PreflightPlan, ConcatSteps
  <2> HIDE DEF f
  <2>4. Lacks(f, Launches) /\ ~Lacks(f, {"verify"})
    BY <2>3, StepsLacks DEF Launches
  <2> HIDE DEF h, c
  <2>5. Rechecked(c)
    BY <1>1, <2>2, <2>3, <2>4, IdleRechecked, RecheckedConcat
  <2> QED
    BY <1>1, <1>2, <1>3, <1>4, <1>5, <2>5, IdleRechecked, RecheckedConcat
<1>6. CASE kind \notin Finishing
  <2> DEFINE a == <<"stat", "admit">>
  <2>1. a \in Seq(Steps) /\ StepsOf(a) = {"stat", "admit"}
    <3>1. "stat" \in Steps /\ "admit" \in Steps
      BY DEF Steps
    <3> QED
      BY <3>1, Steps2
  <2>2. kind = "start" /\ h = a \o StartQuotaSite
    BY <1>6 DEF Handler
  <2>3. c = h \o <<>>
    BY <1>6 DEF CheckedHandler
  <2>4. c = h
    BY <1>1, <2>3
  <2> HIDE DEF a, h, c
  <2>5. Lacks(a, Launches) /\ Lacks(a, {"running"})
    BY <2>1, StepsLacks DEF Launches
  <2>6. StartQuotaSite \in Seq(Steps) /\ Rechecked(StartQuotaSite)
        /\ Parted(StartQuotaSite, {"running"}, {"verify"})
    BY StartPlan, StartRechecked
  <2>7. Rechecked(h)
    BY <2>1, <2>2, <2>6, <2>5, IdleRechecked, RecheckedConcat
  <2>8. Parted(a, {"running"}, {"verify"}) /\ Parted(e, {"running"}, {"verify"})
    BY <1>4, <2>5, LacksOrder
  <2>9. Parted(h, {"running"}, {"verify"})
    BY <2>1, <2>2, <2>5, <2>6, <2>8, ConcatOrder
  <2>10. Rechecked(w)
    BY <1>1, <1>2, <1>3, <1>4, <2>4, <2>7, IdleRechecked, RecheckedConcat
  <2>11. Parted(w, {"running"}, {"verify"})
    BY <1>1, <1>2, <1>3, <1>4, <2>4, <2>8, <2>9, ConcatOrder
  <2> QED
    BY <2>10, <2>11
<1> QED
  BY <1>5, <1>6

\* A task that goes on with the rest of its plan stays attended.
LEMMA OnwardAttended ==
    ASSUME GateInv, LaunchInv, NEW h, At(h), NEW t, task' = t,
           t.kind = task.kind, t.verdict = task.verdict, t.todo = Tail(task.todo),
           t.unseen => (task.unseen /\ h # "verify") \/ h \in Launches
    PROVE  LaunchInv'
<1> DEFINE s == task.todo
           r == t.todo
<1>1. task \in Tasks /\ task # NoTask /\ s # <<>> /\ h = Head(s)
  BY TaskIsTask DEF At
<1>2. s \in Seq(Steps) /\ Attended(task)
  BY <1>1 DEF Tasks, LaunchInv
<1>3. /\ h \in Steps
      /\ \A T : Lacks(s, T) => Lacks(r, T)
      /\ \A T : Lacks(r, T) /\ h \notin T => Lacks(s, T)
      /\ \A S, T : Parted(s, S, T) => Parted(r, S, T)
  <2>1. ASSUME NEW T, Lacks(r, T), h \notin T
        PROVE  Lacks(s, T)
    <3>1. SUFFICES ASSUME NEW n \in 1..Len(s)
                   PROVE  s[n] \notin T
      BY DEF Lacks
    <3>2. CASE n = 1
      BY <1>1, <1>2, <2>1, <3>2
    <3>3. CASE n # 1
      <4>1. n - 1 \in 1..Len(r) /\ r[n - 1] = s[n]
        BY <1>1, <1>2, <3>1, <3>3
      <4> QED
        BY <2>1, <4>1 DEF Lacks
    <3> QED
      BY <3>2, <3>3
  <2> QED
    BY <1>1, <1>2, <2>1, TailOrder
<1> HIDE DEF s, r
<1>4. Attended(t)
  <2>1. SUFFICES ASSUME t.kind \in Finishing \cup {"start", "sweep", "startup"},
                        t.verdict # "failed"
                 PROVE  /\ Rechecked(r)
                        /\ t.kind \notin Finishing => Parted(r, {"running"}, {"verify"})
                        /\ t.unseen => ~Lacks(r, {"verify"}) \/ Lacks(r, {Seal(t.kind)})
    BY DEF Attended, r
  <2>2. /\ Rechecked(s)
        /\ task.kind \notin Finishing => Parted(s, {"running"}, {"verify"})
        /\ task.unseen => ~Lacks(s, {"verify"}) \/ Lacks(s, {Seal(task.kind)})
    BY <1>2, <2>1 DEF Attended, s
  <2>3. Rechecked(r) /\ (h \in Launches => ~Lacks(r, {"verify"}))
    BY <1>1, <1>2, <2>2, RecheckedTail DEF r, s
  <2>4. t.unseen => ~Lacks(r, {"verify"}) \/ Lacks(r, {Seal(t.kind)})
    BY <1>3, <2>2, <2>3
  <2> QED
    BY <1>3, <2>2, <2>3, <2>4
<1> QED
  BY <1>4 DEF LaunchInv, Attended

\* The step is done, or a fence goes on with an error, or the step has failed.
LEMMA PlainAttended ==
    ASSUME GateInv, LaunchInv, NEW h, At(h), h # "verify", Proceed \/ Blunder
    PROVE  LaunchInv'
<1>1. task \in Tasks
  BY TaskIsTask DEF At
<1>2. PICK t : t = task'
  OBVIOUS
<1>3. /\ t.kind = task.kind /\ t.verdict = task.verdict /\ t.todo = Tail(task.todo)
      /\ t.unseen = task.unseen
  BY <1>1, <1>2 DEF Proceed, Blunder, Tasks
<1> QED
  BY <1>2, <1>3, OnwardAttended

\* A launch that succeeded waits for its verification.
LEMMA LaunchedAttended ==
    ASSUME GateInv, LaunchInv, NEW h \in Launches, At(h), Launched
    PROVE  LaunchInv'
<1>1. task \in Tasks
  BY TaskIsTask DEF At
<1>2. PICK t : t = task'
  OBVIOUS
<1>3. t.kind = task.kind /\ t.verdict = task.verdict /\ t.todo = Tail(task.todo)
  BY <1>1, <1>2 DEF Launched, Tasks
<1> QED
  BY <1>2, <1>3, OnwardAttended

\* A failed task has nothing to look at.
LEMMA FailAttended ==
    ASSUME GateInv, LaunchInv, NEW h, At(h), Fail(h)
    PROVE  LaunchInv'
<1>1. task \in Tasks
  BY TaskIsTask DEF At
<1>2. CASE task' = NoTask
  BY <1>2 DEF LaunchInv
<1>3. CASE task' = [task EXCEPT !.todo = Unwind(task, h), !.verdict = "failed",
                                !.stage = IF @ = "resume" THEN @ ELSE "unwind"]
  <2>1. task'.verdict = "failed"
    BY <1>1, <1>3 DEF Tasks
  <2> QED
    BY <2>1 DEF LaunchInv, Attended
<1> QED
  BY <1>2, <1>3 DEF Fail

\* A refused change of resources verifies and launches nothing.
LEMMA RejectAttended ==
    ASSUME GateInv, LaunchInv, NEW h, At(h), Reject
    PROVE  LaunchInv'
<1>1. task \in Tasks
  BY TaskIsTask DEF At
<1>2. PICK w : w = <<"post">> \o Preflight \o <<"receipt">>
  OBVIOUS
<1>3. StepsOf(w) = {"post", "compose", "verify", "inspect", "receipt"}
  BY <1>2, RejectPlan
<1>4. Rechecked(w) /\ ~Lacks(w, {"verify"})
  BY <1>3, StepsLacks, IdleRechecked DEF Launches
<1>5. task' = [task EXCEPT !.verdict = "rejected", !.todo = w] /\ task.kind = "resources"
  BY <1>2 DEF Reject
<1>6. task'.todo = w /\ task'.kind = "resources"
  BY <1>1, <1>5 DEF Tasks
<1>7. "resources" \in Finishing
  BY DEF Finishing
<1> QED
  BY <1>4, <1>6, <1>7 DEF LaunchInv, Attended

\* The sweep's plans: what launches begins with startQuotaSite.
LEMMA SweepAttended ==
    ASSUME GateInv, LaunchInv, Assess \/ Survey
    PROVE  LaunchInv'
<1>1. CASE Assess
  <2>1. At("assess")
    BY <1>1 DEF Assess
  <2>2. task \in Tasks /\ task.todo \in Seq(Steps) /\ TaskSound(task) /\ task.todo # <<>>
        /\ Head(task.todo) = "assess"
    BY <2>1, TaskIsTask DEF At, Tasks, GateInv
  <2>3. PICK a : a = Assessed
    OBVIOUS
  <2>4. /\ a \in Seq(Steps)
        /\ StepsOf(a) \subseteq {"blocked", "stopped", "rmjobs", "halt", "compose", "verify", "survey"}
    BY <2>3, AssessedPlan
  <2>5. PICK c : /\ c \in {<<"check">>, <<>>}
                 /\ task' = [task EXCEPT !.todo = a \o c, !.failed = FALSE, !.verdict = "succeeded"]
    BY <1>1, <2>3 DEF Assess
  <2>6. c \in Seq(Steps) /\ StepsOf(c) \subseteq {"check"}
    <3>1. "check" \in Steps
      BY DEF Steps
    <3>2. <<"check">> \in Seq(Steps) /\ StepsOf(<<"check">>) = {"check"}
      BY <3>1, Steps1
    <3> QED
      BY <2>5, <3>2, Steps0
  <2>7. PICK w : w = a \o c
    OBVIOUS
  <2>8. StepsOf(w) = StepsOf(a) \cup StepsOf(c)
    BY <2>4, <2>6, <2>7, ConcatSteps
  <2>9. Lacks(w, Launches) /\ Lacks(w, {"running"})
    <3>1. StepsOf(w) \subseteq {"blocked", "stopped", "rmjobs", "halt", "compose", "verify", "survey", "check"}
      BY <2>4, <2>6, <2>8
    <3> QED
      BY <3>1, StepsLacks DEF Launches
  <2>10. Rechecked(w) /\ Parted(w, {"running"}, {"verify"})
    BY <2>9, IdleRechecked, LacksOrder
  <2>11. task'.todo = w /\ task'.kind = task.kind
    BY <2>2, <2>5, <2>7 DEF Tasks
  <2>12. task.kind \in {"sweep", "startup"}
    <3>1. ~Lacks(task.todo, {"assess", "survey"})
      BY <2>2, TailOrder
    <3> QED
      BY <2>2, <3>1 DEF TaskSound, Arranged
  <2>13. Seal(task.kind) = "running"
    BY <2>12 DEF Seal, Finishing
  <2> QED
    BY <2>9, <2>10, <2>11, <2>13 DEF LaunchInv, Attended
<1>2. CASE Survey
  <2>1. At("survey")
    BY <1>2 DEF Survey
  <2>2. task \in Tasks
    BY <2>1, TaskIsTask DEF At
  <2>3. CASE Fail("survey")
    BY <2>1, <2>3, FailAttended
  <2>4. ASSUME NEW w \in {StartQuotaSite, <<>>}, NEW b, task' = [task EXCEPT !.todo = w, !.stage = b]
        PROVE  LaunchInv'
    <3>1. task'.todo = w
      BY <2>2, <2>4 DEF Tasks
    <3>2. CASE w = StartQuotaSite
      BY <3>1, <3>2, StartRechecked DEF LaunchInv, Attended
    <3>3. CASE w = <<>>
      <4>1. \A T : Lacks(w, T)
        BY <3>3, Steps0, StepsLacks
      <4>2. Rechecked(w) /\ Parted(w, {"running"}, {"verify"})
        BY <4>1, IdleRechecked, LacksOrder
      <4> QED
        BY <3>1, <4>1, <4>2 DEF LaunchInv, Attended
    <3> QED
      BY <2>4, <3>2, <3>3
  <2> QED
    BY <1>2, <2>3, <2>4 DEF Survey
<1> QED
  BY <1>1, <1>2

\* The steps with a plan or a mark of their own.
LEMMA SpecialAttended ==
    ASSUME GateInv, LaunchInv, VerifyStorage \/ Admit \/ Snapshot \/ Post \/ Quiesce \/ Receipt \/ End
    PROVE  LaunchInv'
<1>1. ASSUME NEW h, At(h)
      PROVE  task \in Tasks
  BY <1>1, TaskIsTask DEF At
<1>2. CASE VerifyStorage
  <2>1. At("verify")
    BY <1>2 DEF VerifyStorage
  <2>2. CASE task' = [task EXCEPT !.todo = Tail(@), !.verified = TRUE, !.unseen = FALSE]
    <3>1. PICK t : t = task'
      OBVIOUS
    <3>2. /\ t.kind = task.kind /\ t.verdict = task.verdict /\ t.todo = Tail(task.todo)
          /\ t.unseen = FALSE
      BY <1>1, <2>1, <2>2, <3>1 DEF Tasks
    <3> QED
      BY <2>1, <3>1, <3>2, OnwardAttended
  <2> QED
    BY <1>2, <2>1, <2>2, FailAttended DEF VerifyStorage
<1>3. CASE Admit
  BY <1>3, PlainAttended, FailAttended, RejectAttended DEF Admit
<1>4. CASE Snapshot
  <2>1. At("snapshot")
    BY <1>4 DEF Snapshot
  <2>2. ASSUME NEW b, task' = [task EXCEPT !.todo = Tail(@), !.was = b]
        PROVE  LaunchInv'
    <3>1. PICK t : t = task'
      OBVIOUS
    <3>2. /\ t.kind = task.kind /\ t.verdict = task.verdict /\ t.todo = Tail(task.todo)
          /\ t.unseen = task.unseen
      BY <1>1, <2>1, <2>2, <3>1 DEF Tasks
    <3> QED
      BY <2>1, <3>1, <3>2, OnwardAttended
  <2> QED
    BY <1>4, <2>1, <2>2, FailAttended, RejectAttended DEF Snapshot
<1>5. CASE Post
  <2>1. At("post")
    BY <1>5 DEF Post
  <2>2. PICK t : t = task'
    OBVIOUS
  <2>3. /\ t.kind = task.kind /\ t.verdict = task.verdict /\ t.todo = Tail(task.todo)
        /\ t.unseen = task.unseen
    BY <1>1, <1>5, <2>1, <2>2 DEF Post, Tasks
  <2> QED
    BY <2>1, <2>2, <2>3, OnwardAttended
<1>6. CASE Quiesce
  <2>1. At("quiesce")
    BY <1>6 DEF Quiesce
  <2>2. task \in Tasks /\ task.todo \in Seq(Steps) /\ TaskSound(task) /\ task.todo # <<>>
        /\ Head(task.todo) = "quiesce"
    BY <2>1, TaskIsTask DEF At, Tasks, GateInv
  <2>3. ~Lacks(task.todo, {"quiesce"})
    BY <2>2, TailOrder
  <2>4. task.verdict = "failed"
    BY <2>2, <2>3 DEF TaskSound, Arranged
  <2>5. task'.verdict = "failed"
    BY <1>6, <2>2, <2>4 DEF Quiesce, Tasks
  <2> QED
    BY <2>5 DEF LaunchInv, Attended
<1>7. CASE Receipt
  <2>1. At("receipt") /\ (task' = NoTask \/ Proceed)
    BY <1>7 DEF Receipt
  <2>2. CASE task' = NoTask
    BY <2>2 DEF LaunchInv
  <2> QED
    BY <2>1, <2>2, PlainAttended
<1>8. CASE End
  BY <1>8 DEF End, LaunchInv
<1> QED
  BY <1>2, <1>3, <1>4, <1>5, <1>6, <1>7, <1>8

\* Every step of a task keeps it attended.
LEMMA StepAttended ==
    ASSUME GateInv, LaunchInv, GateStep
    PROVE  LaunchInv'
<1>1. ASSUME NEW h \in Launches, NEW xs, ComposeUp(h, xs)
      PROVE  LaunchInv'
  BY <1>1, LaunchedAttended, FailAttended DEF ComposeUp
<1>2. {"up", "updb", "upwp", "uptool", "restart", "job"} \subseteq Launches
  BY DEF Launches
<1>3. CASE \/ ComposeUp("up", Services) \/ ComposeUp("upwp", Services)
           \/ ComposeUp("updb", {"db"}) \/ ComposeUp("uptool", {"db", "pma"}) \/ RestartServices
  BY <1>1, <1>2, <1>3 DEF RestartServices
<1>4. CASE StartJob
  BY <1>2, <1>4, LaunchedAttended, FailAttended DEF StartJob
<1>5. CASE \E state \in Intents : SaveIntent(state)
  <2>1. PICK state \in Intents : SaveIntent(state)
    BY <1>5
  <2>2. state # "verify"
    BY DEF Intents
  <2> QED
    BY <2>1, <2>2, PlainAttended, FailAttended DEF SaveIntent
<1>6. CASE RemoveJobs \/ HaltContainers
  BY <1>6, PlainAttended DEF RemoveJobs, HaltContainers
<1>7. CASE CheckFence \/ EnsureCompose \/ InspectContainers \/ Settled
  BY <1>7, PlainAttended, FailAttended DEF CheckFence, EnsureCompose, InspectContainers, Settled
<1>8. CASE \/ ComposeStop("closetool", {"pma"}) \/ ComposeStop("stopwp", {"wp"})
           \/ ComposeStop("stopall", Services) \/ AwaitJob
  BY <1>8, PlainAttended, FailAttended DEF ComposeStop, AwaitJob
<1>9. CASE StatCompose \/ RefuseCreate \/ ConfirmAbsent \/ ComposeDown \/ RemoveDir
  BY <1>9, PlainAttended, FailAttended DEF StatCompose, RefuseCreate, ConfirmAbsent, ComposeDown, RemoveDir
<1>10. CASE VerifyStorage \/ Admit \/ Snapshot \/ Post \/ Quiesce \/ Receipt \/ End
  BY <1>10, SpecialAttended
<1>11. CASE Assess \/ Survey
  BY <1>11, SweepAttended
<1> QED
  BY <1>3, <1>4, <1>5, <1>6, <1>7, <1>8, <1>9, <1>10, <1>11 DEF GateStep

\* Every step of the gate does.
LEMMA LaunchKeeps ==
    ASSUME GateInv, LaunchInv, [GateNext]_gateVars
    PROVE  LaunchInv'
<1>1. CASE GateStep
  BY <1>1, StepAttended
<1>2. CASE \E kind \in Tracked \cup Untracked : Request(kind)
  <2>1. PICK kind \in Tracked \cup Untracked : Request(kind)
    BY <1>2
  <2>2. CASE task' = task
    BY <2>2 DEF LaunchInv, Attended
  <2>3. CASE task' = NewTask(kind, WholeRequest(kind))
    <3>1. PICK w : w = WholeRequest(kind)
      OBVIOUS
    <3>2. task'.kind = kind /\ task'.todo = w /\ task'.unseen = FALSE
      BY <2>3, <3>1 DEF NewTask
    <3>3. kind \in Finishing \cup {"start"}
             => Rechecked(w) /\ (kind \notin Finishing => Parted(w, {"running"}, {"verify"}))
      BY <3>1, RequestRechecked
    <3>4. kind \notin {"sweep", "startup"}
      BY DEF Tracked, Untracked
    <3> QED
      BY <3>2, <3>3, <3>4 DEF LaunchInv, Attended
  <2> QED
    BY <2>1, <2>2, <2>3 DEF Request
<1>3. CASE Runtime \/ Boot
  <2>1. task'.verdict = "failed"
    BY <1>3 DEF Runtime, Boot, NewTask
  <2> QED
    BY <2>1 DEF LaunchInv, Attended
<1>4. CASE Tick
  <2>1. PICK w : w = <<"assess">>
    OBVIOUS
  <2>2. task'.kind = "sweep" /\ task'.todo = w /\ task'.unseen = FALSE
    BY <1>4, <2>1 DEF Tick, NewTask
  <2>3. StepsOf(w) = {"assess"}
    BY <2>1, Steps1 DEF Steps
  <2>4. Lacks(w, Launches) /\ Lacks(w, {"running"})
    BY <2>3, StepsLacks DEF Launches
  <2>5. Rechecked(w) /\ Parted(w, {"running"}, {"verify"})
    BY <2>4, IdleRechecked, LacksOrder
  <2> QED
    BY <2>2, <2>5 DEF LaunchInv, Attended
<1>5. CASE CrashWorker \/ Reboot
  BY <1>5 DEF CrashWorker, Reboot, LaunchInv
<1>6. CASE JobEnds \/ StorageChanges \/ UNCHANGED gateVars
  <2>1. task' = task
    BY <1>6 DEF JobEnds, StorageChanges, gateVars
  <2> QED
    BY <2>1 DEF LaunchInv, Attended
<1> QED
  BY <1>1, <1>2, <1>3, <1>4, <1>5, <1>6 DEF GateNext

\* An intent to run is saved, and a receipt resolved, only by the step for it.
LEMMA SealStep ==
    ASSUME [GateNext]_gateVars
    PROVE  /\ intent # "running" /\ intent' = "running" => At("running")
           /\ receipt.state = "pending" /\ receipt'.state # "pending" => Receipt
<1>1. CASE GateStep
  <2>1. CASE \E state \in Intents : SaveIntent(state)
    BY <2>1 DEF SaveIntent
  <2>2. CASE RemoveDir
    BY <2>2 DEF RemoveDir, PartlyRemoved
  <2>3. CASE Receipt
    BY <2>3 DEF Receipt
  <2>4. CASE \/ RemoveJobs \/ HaltContainers \/ CheckFence \/ EnsureCompose \/ VerifyStorage
             \/ InspectContainers \/ Admit \/ Settled \/ StartJob \/ AwaitJob \/ Snapshot
    BY <2>4 DEF RemoveJobs, HaltContainers, CheckFence, EnsureCompose, VerifyStorage,
                InspectContainers, Admit, Settled, StartJob, AwaitJob, Snapshot, Host
  <2>5. CASE \/ ComposeUp("up", Services) \/ ComposeUp("upwp", Services) \/ RestartServices
             \/ ComposeUp("updb", {"db"}) \/ ComposeUp("uptool", {"db", "pma"})
             \/ ComposeStop("closetool", {"pma"}) \/ ComposeStop("stopwp", {"wp"})
             \/ ComposeStop("stopall", Services) \/ ComposeDown
    BY <2>5 DEF ComposeUp, RestartServices, ComposeStop, ComposeDown
  <2>6. CASE StatCompose \/ RefuseCreate \/ ConfirmAbsent \/ Post \/ Quiesce \/ Assess \/ Survey \/ End
    BY <2>6 DEF StatCompose, RefuseCreate, ConfirmAbsent, Post, Quiesce, Assess, Survey, End, Host
  <2> QED
    BY <1>1, <2>1, <2>2, <2>3, <2>4, <2>5, <2>6 DEF GateStep
<1>2. CASE \E kind \in Tracked \cup Untracked : Request(kind)
  BY <1>2 DEF Request
<1>3. CASE Runtime \/ Tick \/ Boot \/ JobEnds \/ CrashWorker \/ Reboot \/ StorageChanges \/ UNCHANGED gateVars
  BY <1>3 DEF Runtime, Tick, Boot, JobEnds, CrashWorker, PartlyRemoved, Reboot, StorageChanges, gateVars, Host
<1> QED
  BY <1>1, <1>2, <1>3 DEF GateNext

\* Where a task's success is made known, nothing it launched is unverified.
LEMMA SealAttended ==
    ASSUME GateInv, LaunchInv, NEW h, At(h), h = Seal(task.kind), task.verdict # "failed",
           task.kind \in (Finishing \cap Tracked) \cup {"start", "sweep", "startup"}
    PROVE  ~task.unseen
<1> DEFINE s == task.todo
<1>1. task \in Tasks /\ task # NoTask /\ s \in Seq(Steps) /\ s # <<>> /\ h = Head(s)
  BY TaskIsTask DEF At, Tasks
<1>2. TaskSound(task) /\ Attended(task)
  BY <1>1 DEF GateInv, LaunchInv
<1>3. /\ Rechecked(s)
      /\ task.kind \notin Finishing => Parted(s, {"running"}, {"verify"})
      /\ task.unseen => ~Lacks(s, {"verify"}) \/ Lacks(s, {h})
  BY <1>2 DEF Attended
<1>4. task.kind \in Tracked => Parted(s, {"receipt"}, Steps)
  BY <1>2 DEF TaskSound, Arranged
<1> HIDE DEF s
<1>5. ~Lacks(s, {h})
  BY <1>1, TailOrder
<1>6. Lacks(Tail(s), {"verify"})
  <2>1. \A S, T : Parted(s, S, T) /\ h \in S => Lacks(Tail(s), T)
    BY <1>1, TailOrder
  <2>2. CASE task.kind \in Finishing
    <3>1. Lacks(Tail(s), Steps)
      BY <1>4, <2>1, <2>2 DEF Seal, Finishing
    <3>2. {"verify"} \subseteq Steps
      BY DEF Steps, PreflightSteps
    <3> QED
      BY <3>1, <3>2, LacksOrder
  <2>3. CASE task.kind \notin Finishing
    BY <1>3, <2>1, <2>3 DEF Seal
  <2> QED
    BY <2>2, <2>3
<1>7. Lacks(s, {"verify"})
  <2>1. h # "verify"
    BY DEF Seal
  <2>2. SUFFICES ASSUME NEW n \in 1..Len(s)
                 PROVE  s[n] # "verify"
    BY DEF Lacks
  <2>3. CASE n = 1
    BY <1>1, <2>1, <2>3
  <2>4. CASE n # 1
    <3>1. n - 1 \in 1..Len(Tail(s)) /\ Tail(s)[n - 1] = s[n]
      BY <1>1, <2>2, <2>4
    <3> QED
      BY <1>6, <3>1 DEF Lacks
  <2> QED
    BY <2>3, <2>4
<1> QED
  BY <1>3, <1>5, <1>7

\* LaunchVerified: every step that launches a container or a job comes after a
\* verification of the storage in the same task, and no start, resumption or request
\* with finishQuotaWrite succeeds on a verification older than its last launch.
THEOREM LaunchVerifiedHolds == GateSpec => LaunchVerified
<1>1. GateInit => LaunchInv
  BY DEF GateInit, LaunchInv
<1>2. GateInv /\ LaunchInv /\ [GateNext]_gateVars => LaunchInv'
  BY LaunchKeeps
<1>3. GateInv /\ LaunchInv /\ [GateNext]_gateVars =>
         [ /\ worker' # "down" /\ (~(up' \subseteq up) \/ (job' /\ ~job))
                 => task # NoTask /\ task.verified
           /\ intent # "running" /\ intent' = "running" /\ task.kind # "restore"
                 => ~task.unseen
           /\ receipt.state = "pending" /\ receipt.kind \in Finishing
                 /\ receipt'.state \notin {"pending", "failed"} => ~task.unseen ]_gateVars
  <2>1. SUFFICES ASSUME GateInv, LaunchInv, [GateNext]_gateVars
                 PROVE  /\ ~(up' \subseteq up) \/ (job' /\ ~job) => task # NoTask /\ task.verified
                        /\ intent # "running" /\ intent' = "running" /\ task.kind # "restore"
                              => ~task.unseen
                        /\ receipt.state = "pending" /\ receipt.kind \in Finishing
                              /\ receipt'.state \notin {"pending", "failed"} => ~task.unseen
    OBVIOUS
  <2>2. ASSUME ~(up' \subseteq up) \/ (job' /\ ~job)
        PROVE  task # NoTask /\ task.verified
    <3>1. PICK h \in Launches : At(h)
      BY <2>1, <2>2, LaunchStep
    <3> QED
      BY <2>1, <3>1, Position DEF At
  <2>3. ASSUME NEW h, At(h)
        PROVE  /\ task \in Tasks /\ TaskSound(task)
               /\ \A T : h \in T => ~Lacks(task.todo, T)
    <3>1. task \in Tasks /\ task # NoTask /\ task.todo \in Seq(Steps) /\ task.todo # <<>>
          /\ h = Head(task.todo)
      BY <2>1, <2>3, TaskIsTask DEF At, Tasks
    <3> QED
      BY <2>1, <3>1, TailOrder DEF GateInv
  <2>4. ASSUME intent # "running", intent' = "running", task.kind # "restore"
        PROVE  ~task.unseen
    <3>1. At("running")
      BY <2>1, <2>4, SealStep
    <3>2. task.kind \in {"start", "sweep", "startup"}
      BY <2>3, <2>4, <3>1 DEF TaskSound, Arranged
    <3>3. task.verdict # "failed"
      <4>1. "running" \in Steps \ WayOut
        BY DEF Steps, Intents, WayOut
      <4> QED
        BY <2>3, <3>1, <4>1 DEF TaskSound, Arranged
    <3>4. "running" = Seal(task.kind)
      BY <3>2 DEF Seal, Finishing
    <3> QED
      BY <2>1, <3>1, <3>2, <3>3, <3>4, SealAttended
  <2>5. ASSUME receipt.state = "pending", receipt.kind \in Finishing,
               receipt'.state \notin {"pending", "failed"}
        PROVE  ~task.unseen
    <3>1. Receipt
      BY <2>1, <2>5, SealStep
    <3>2. At("receipt") /\ (receipt' = receipt \/ receipt' = [receipt EXCEPT !.state = task.verdict])
      BY <3>1 DEF Receipt
    <3>3. receipt' = [receipt EXCEPT !.state = task.verdict] /\ task.verdict # "failed"
      <4>1. receipt' # receipt
        BY <2>5
      <4>2. receipt \in [kind : Tracked, state : {"pending", "succeeded", "failed", "rejected"}]
        BY <2>1, <2>5 DEF GateInv, GateTypeOK
      <4> QED
        BY <2>5, <3>2, <4>1, <4>2
    <3>4. task.kind \in Tracked /\ receipt.kind = task.kind
      <4>1. "receipt" \in Steps
        BY DEF Steps
      <4>2. ~Lacks(task.todo, Steps) /\ ~Lacks(task.todo, {"receipt"}) /\ Tracking(task)
        BY <2>3, <3>2, <4>1 DEF TaskSound
      <4> QED
        BY <3>3, <4>2 DEF Tracking
    <3>5. "receipt" = Seal(task.kind)
      BY <2>5, <3>4 DEF Seal
    <3> QED
      BY <2>1, <2>5, <3>2, <3>3, <3>4, <3>5, SealAttended
  <2> QED
    BY <2>2, <2>4, <2>5
<1> QED
  BY <1>1, <1>2, <1>3, GateSafety, PTL DEF GateSpec, LaunchVerified

\* ResumeIsIntended: the startup and the supervisor launch the site's containers
\* only with the administrator's consent.
THEOREM ResumeIsIntendedHolds == GateSpec => ResumeIsIntended
<1>1. GateInv /\ [GateNext]_gateVars =>
         [task # NoTask /\ task.kind \in {"sweep", "startup"} /\ ~(up' \subseteq up)
             => consent]_gateVars
  <2>1. SUFFICES ASSUME GateInv, [GateNext]_gateVars, ~(up' \subseteq up),
                        task # NoTask, task.kind \in {"sweep", "startup"}
                 PROVE  consent
    OBVIOUS
  <2>2. PICK h \in Launches : At(h)
    BY <2>1, LaunchStep
  <2>3. task.stage = "resume" /\ TaskSound(task)
    BY <2>1, <2>2, Position DEF At
  <2> QED
    BY <2>3 DEF TaskSound, Resuming
<1> QED
  BY <1>1, GateSafety, PTL DEF GateSpec, ResumeIsIntended

\* FailureBlocks: a pending receipt becomes a failed one only when the site is
\* blocked, its containers are stopped and its jobs are gone.
THEOREM FailureBlocksHolds == GateSpec => FailureBlocks
<1>1. GateInv /\ [GateNext]_gateVars =>
         [receipt.state = "pending" /\ receipt'.state = "failed"
             => (Marked => intent = "blocked") /\ up = {} /\ ~job]_gateVars
  <2>1. SUFFICES ASSUME GateInv, [GateNext]_gateVars, receipt.state = "pending",
                        receipt'.state = "failed"
                 PROVE  (Marked => intent = "blocked") /\ up = {} /\ ~job
    OBVIOUS
  <2>2. receipt' # receipt
    BY <2>1
  <2>3. CASE Receipt
    BY <2>1, <2>3, ReceiptKeeps
  <2>4. CASE \E kind \in Tracked \cup Untracked : Request(kind)
    <3>1. PICK kind \in Tracked \cup Untracked : Request(kind)
      BY <2>4
    <3>2. receipt' = [kind |-> kind, state |-> "pending"] \/ receipt' = receipt
      BY <3>1 DEF Request
    <3> QED
      BY <2>1, <3>2
  <2>5. CASE \/ Runtime \/ Tick \/ Boot \/ JobEnds \/ CrashWorker \/ Reboot \/ StorageChanges
             \/ UNCHANGED gateVars
    BY <2>2, <2>5 DEF Runtime, Tick, Boot, JobEnds, CrashWorker, Reboot, StorageChanges, gateVars, Host
  <2>6. CASE GateStep /\ ~Receipt
    <3>1. CASE \/ \E state \in Intents : SaveIntent(state)
               \/ CheckFence \/ EnsureCompose \/ VerifyStorage \/ InspectContainers \/ Admit
               \/ RemoveJobs \/ HaltContainers \/ AwaitJob \/ StartJob
      BY <2>2, <3>1 DEF SaveIntent, CheckFence, EnsureCompose, VerifyStorage, InspectContainers, Admit,
                        RemoveJobs, HaltContainers, AwaitJob, StartJob, Host
    <3>2. CASE \/ ComposeUp("up", Services) \/ ComposeUp("upwp", Services) \/ RestartServices
               \/ ComposeUp("updb", {"db"}) \/ ComposeUp("uptool", {"db", "pma"})
               \/ ComposeStop("closetool", {"pma"}) \/ ComposeStop("stopwp", {"wp"})
               \/ ComposeStop("stopall", Services) \/ ComposeDown \/ RemoveDir
      BY <2>2, <3>2 DEF ComposeUp, RestartServices, ComposeStop, ComposeDown, RemoveDir
    <3>3. CASE Settled \/ Snapshot \/ StatCompose \/ RefuseCreate \/ ConfirmAbsent \/ Post \/ Quiesce
               \/ Assess \/ Survey \/ End
      BY <2>2, <3>3 DEF Settled, Snapshot, StatCompose, RefuseCreate, ConfirmAbsent, Post, Quiesce,
                        Assess, Survey, End, Host
    <3> QED
      BY <2>6, <3>1, <3>2, <3>3 DEF GateStep
  <2> QED
    BY <2>1, <2>3, <2>4, <2>5, <2>6 DEF GateNext
<1> QED
  BY <1>1, GateSafety, PTL DEF GateSpec, FailureBlocks
=============================================================================
