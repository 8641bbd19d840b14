-------------------------- MODULE SiteConfigProofs --------------------------
(***************************************************************************)
(* Proof that the configuration of a site stays usable, for any number of  *)
(* requests, sessions of the database tool, failures and restarts.         *)
(***************************************************************************)
EXTENDS SiteConfig, TLAPS

Lines == {"none", "legacy", "guard", "missing"}

\* The files there can be: every service guarded, or none as the template has them.
Sound(c) ==
    /\ c \in [net : {"legacy", "shared"}, policy : [WriterServices -> Lines]]
    /\ \/ \A x \in WriterServices :
             c.policy[x] = "guard" \/ (x = "phpmyadmin" /\ c.policy[x] = "missing")
       \/ /\ c.policy["wordpress"] = "legacy" /\ c.policy["db"] = "legacy"
          /\ c.policy["cli"] = "none" /\ c.policy["phpmyadmin"] \in {"legacy", "missing"}

StepNames ==
    {"network", "stale", "profile", "policy", "fresh", "template", "up", "route", "install",
     "reload", "tool", "close", "open", "stop", "unroute", "down", "remove"}

\* Every step that makes a service comes after one that writes the profile, and no
\* request removes the profile before.
OrderedFor(steps, written) ==
    /\ steps \in Seq(StepNames)
    /\ \A n \in 1..Len(steps) : steps[n] \in {"up", "open"} =>
          /\ \A k \in 1..n : steps[k] # "remove"
          /\ written \/ \E k \in 1..n : steps[k] \in {"fresh", "profile"}
Ordered == OrderedFor(todo, profile)

ConfigInv ==
    /\ compose \in {Absent, Torn} \/ Sound(compose)
    /\ Ordered
    /\ request = "up" => profile

-----------------------------------------------------------------------------
(* Files *)

\* A sound file is one that the worker accepts.
LEMMA SoundIsFamiliar ==
    ASSUME NEW c, Sound(c)
    PROVE  Familiar(c)
<1>1. IsCompose(c)
  BY DEF Sound, IsCompose, Absent, Torn
<1>2. CASE \A x \in WriterServices :
             c.policy[x] = "guard" \/ (x = "phpmyadmin" /\ c.policy[x] = "missing")
  BY <1>1, <1>2 DEF Familiar, Guarded, Writers
<1>3. CASE /\ c.policy["wordpress"] = "legacy" /\ c.policy["db"] = "legacy"
           /\ c.policy["cli"] = "none" /\ c.policy["phpmyadmin"] \in {"legacy", "missing"}
  <2>1. "cli" \in Writers(c)
    BY <1>3 DEF Writers, WriterServices
  <2>2. \A x \in Writers(c) \ {"cli"} : c.policy[x] = "legacy"
    BY <1>3 DEF Writers, WriterServices
  <2> QED
    BY <1>1, <1>3, <2>1, <2>2 DEF Familiar, Unguarded
<1> QED
  BY <1>2, <1>3 DEF Sound

\* writerCompose makes a sound file of a sound one.
LEMMA WriterComposeSound ==
    ASSUME NEW c, Sound(c)
    PROVE  Sound(WriterCompose(c))
<1> DEFINE p == [x \in WriterServices |->
                   IF c.policy[x] = "legacy" \/ x = "cli" THEN "guard" ELSE c.policy[x]]
<1>0. p \in [WriterServices -> Lines] /\ WriterCompose(c) = [c EXCEPT !.policy = p]
  BY DEF Sound, WriterCompose, Lines
<1>1. /\ WriterCompose(c) \in [net : {"legacy", "shared"}, policy : [WriterServices -> Lines]]
      /\ WriterCompose(c).policy = p
  <2> HIDE DEF p
  <2> QED
    BY <1>0 DEF Sound
<1>2. ASSUME NEW x \in WriterServices
      PROVE  p[x] = "guard" \/ (x = "phpmyadmin" /\ p[x] = "missing")
  <2>1. CASE c.policy[x] = "legacy" \/ x = "cli"
    BY <2>1, Zenon
  <2>2. CASE c.policy[x] # "legacy" /\ x # "cli"
    BY <2>2 DEF Sound, WriterServices
  <2> QED
    BY <2>1, <2>2
<1> QED
  BY <1>1, <1>2 DEF Sound

\* ensureDatabaseTool makes a sound file of a sound one.
LEMMA EnsureDatabaseToolSound ==
    ASSUME NEW c, Sound(c)
    PROVE  Sound(EnsureDatabaseTool(c))
<1>1. CASE c.policy["phpmyadmin"] # "missing"
  BY <1>1 DEF EnsureDatabaseTool
<1>2. CASE c.policy["phpmyadmin"] = "missing"
  <2> DEFINE line == IF \E x \in WriterServices : c.policy[x] = "guard" THEN "guard" ELSE "legacy"
             d == EnsureDatabaseTool(c)
  <2>1. /\ d \in [net : {"legacy", "shared"}, policy : [WriterServices -> Lines]]
        /\ d.policy = [c.policy EXCEPT !["phpmyadmin"] = line]
    BY <1>2 DEF EnsureDatabaseTool, Sound, Lines, WriterServices
  <2>2. CASE \A x \in WriterServices :
               c.policy[x] = "guard" \/ (x = "phpmyadmin" /\ c.policy[x] = "missing")
    <3>1. line = "guard"
      BY <2>2 DEF WriterServices
    <3> QED
      BY <2>1, <2>2, <3>1 DEF Sound, WriterServices
  <2>3. CASE /\ c.policy["wordpress"] = "legacy" /\ c.policy["db"] = "legacy"
             /\ c.policy["cli"] = "none"
    <3>1. line = "legacy"
      BY <1>2, <2>3 DEF WriterServices
    <3> QED
      BY <2>1, <2>3, <3>1 DEF Sound, WriterServices
  <2> QED
    BY <2>2, <2>3 DEF Sound
<1> QED
  BY <1>1, <1>2

\* The files that earlier versions have left are sound.
LEMMA OldSound ==
    /\ Sound(ComposeTemplate)
    /\ \A c \in OldComposes : Sound(c)
BY DEF OldComposes, ComposeTemplate, ComposeFile, Sound, Lines, WriterServices

-----------------------------------------------------------------------------
(* Steps *)

\* A step that is done, or that ends its request.
LEMMA TailOrdered ==
    ASSUME Ordered, todo # <<>>, todo' = Tail(todo),
           profile => profile',
           Head(todo) \in {"fresh", "profile"} => profile'
    PROVE  Ordered'
<1>1. /\ todo' \in Seq(StepNames) /\ Len(todo') = Len(todo) - 1
      /\ Len(todo) \in Nat /\ Head(todo) = todo[1]
      /\ \A n \in 1..Len(todo') : todo'[n] = todo[n + 1]
  BY DEF Ordered, OrderedFor
<1>2. ASSUME NEW n \in 1..Len(todo'), todo'[n] \in {"up", "open"}
      PROVE  /\ \A k \in 1..n : todo'[k] # "remove"
             /\ profile' \/ \E k \in 1..n : todo'[k] \in {"fresh", "profile"}
  <2>1. n + 1 \in 1..Len(todo) /\ todo[n + 1] \in {"up", "open"}
    BY <1>1, <1>2
  <2>2. \A k \in 1..(n + 1) : todo[k] # "remove"
    BY <2>1 DEF Ordered, OrderedFor
  <2>3. \A k \in 1..n : todo'[k] # "remove"
    BY <1>1, <2>2
  <2>4. ASSUME ~profile', NEW k \in 1..(n + 1), todo[k] \in {"fresh", "profile"}
        PROVE  k - 1 \in 1..n /\ todo'[k - 1] \in {"fresh", "profile"}
    <3>1. k # 1
      BY <1>1, <2>4
    <3> QED
      BY <1>1, <2>4, <3>1
  <2> QED
    BY <2>1, <2>3, <2>4 DEF Ordered, OrderedFor
<1> QED
  BY <1>1, <1>2 DEF Ordered, OrderedFor

\* Nothing is left to do, or one step.
LEMMA EmptyOrdered ==
    ASSUME todo' = <<>>
    PROVE  Ordered'
BY DEF Ordered, OrderedFor

\* Steps that make no service, and steps of which one writes the profile first.
LEMMA NoneMade ==
    ASSUME NEW t \in Seq(StepNames), NEW p,
           \A n \in 1..Len(t) : t[n] \notin {"up", "open"}
    PROVE  OrderedFor(t, p)
BY DEF OrderedFor

\* A step that writes the profile may come before the steps of an ordered plan.
LEMMA ProfileFirst ==
    ASSUME NEW t \in Seq(StepNames), NEW p, NEW m \in 1..Len(t),
           t[m] \in {"fresh", "profile"},
           \A n \in 1..Len(t) : t[n] # "remove" /\ (t[n] \in {"up", "open"} => m <= n)
    PROVE  OrderedFor(t, p)
<1>1. ASSUME NEW n \in 1..Len(t), t[n] \in {"up", "open"}
      PROVE  m \in 1..n /\ \A k \in 1..n : t[k] # "remove"
  BY <1>1
<1> QED
  BY <1>1 DEF OrderedFor

\* The steps of the startup and of a new request.
LEMMA StartupOrdered ==
    ASSUME NEW p
    PROVE  OrderedFor(Startup, p)
<1>1. /\ Startup \in Seq(StepNames) /\ Len(Startup) = 4
      /\ \A n \in 1..4 : Startup[n] \notin {"up", "open"}
  BY DEF Startup, StepNames
<1> QED
  BY <1>1, NoneMade

\* The plans of all requests and migrations are ordered.
LEMMA StepsOrdered ==
    ASSUME NEW kind \in Kinds, NEW p
    PROVE  OrderedFor(Steps(kind), p)
<1>1. CASE kind = "create"
  <2> DEFINE t == <<"fresh", "template", "up", "route", "install", "reload">>
  <2>1. Steps(kind) = t
    BY <1>1 DEF Steps
  <2>2. /\ t \in Seq(StepNames) /\ Len(t) = 6 /\ t[1] = "fresh"
        /\ \A n \in 1..6 : t[n] # "remove" /\ 1 <= n
    BY DEF StepNames
  <2> HIDE DEF t
  <2> QED
    BY <2>1, <2>2, ProfileFirst
<1>2. CASE kind = "start"
  <2> DEFINE t == <<"profile", "policy", "up">>
  <2>1. Steps(kind) = t
    BY <1>2 DEF Steps
  <2>2. /\ t \in Seq(StepNames) /\ Len(t) = 3 /\ t[1] = "profile"
        /\ \A n \in 1..3 : t[n] # "remove" /\ 1 <= n
    BY DEF StepNames
  <2> HIDE DEF t
  <2> QED
    BY <2>1, <2>2, ProfileFirst
<1>3. CASE kind = "open"
  <2> DEFINE t == <<"tool", "profile", "policy", "open">>
  <2>1. Steps(kind) = t
    BY <1>3 DEF Steps
  <2>2. /\ t \in Seq(StepNames) /\ Len(t) = 4 /\ t[2] = "profile"
        /\ \A n \in 1..4 : t[n] # "remove" /\ (t[n] \in {"up", "open"} => 2 <= n)
    BY DEF StepNames
  <2> HIDE DEF t
  <2> QED
    BY <2>1, <2>2, ProfileFirst
<1>4. CASE kind \in {"stop", "delete", "close"}
  <2>1. Steps(kind) \in {<<"tool", "close", "stop">>, DeleteSteps,
                         <<"unroute", "remove", "reload">>, <<"tool", "close">>}
    BY <1>4 DEF Steps
  <2>2. ASSUME NEW t \in {<<"tool", "close", "stop">>, DeleteSteps,
                          <<"unroute", "remove", "reload">>, <<"tool", "close">>}
        PROVE  t \in Seq(StepNames) /\ \A n \in 1..Len(t) : t[n] \notin {"up", "open"}
    <3>1. CASE t = DeleteSteps
      BY <3>1 DEF DeleteSteps, StepNames
    <3>2. CASE t = <<"tool", "close", "stop">>
      BY <3>2 DEF StepNames
    <3>3. CASE t = <<"unroute", "remove", "reload">>
      BY <3>3 DEF StepNames
    <3>4. CASE t = <<"tool", "close">>
      BY <3>4 DEF StepNames
    <3> QED
      BY <3>1, <3>2, <3>3, <3>4
  <2> QED
    BY <2>1, <2>2, NoneMade
<1> QED
  BY <1>1, <1>2, <1>3, <1>4 DEF Kinds

-----------------------------------------------------------------------------

\* The site has a file of an earlier version, or none.
LEMMA ConfigInitially == ConfigInit => ConfigInv
<1> SUFFICES ASSUME ConfigInit PROVE ConfigInv
  OBVIOUS
<1>1. compose = Absent \/ Sound(compose)
  BY OldSound DEF ConfigInit
<1>2. Ordered
  BY StartupOrdered DEF ConfigInit, Ordered
<1> QED
  BY <1>1, <1>2 DEF ConfigInv, ConfigInit, ToolInit

\* Every step of requests, migrations, crashes and restarts.
LEMMA ConfigPreserved == ConfigInv /\ [ConfigNext]_configVars => ConfigInv'
<1> SUFFICES ASSUME ConfigInv, [ConfigNext]_configVars PROVE ConfigInv'
  OBVIOUS
<1> USE DEF ConfigInv
<1>1. ASSUME NEW kind \in Kinds, Request(kind) PROVE ConfigInv'
  <2>1. Ordered'
    BY <1>1, StepsOrdered DEF Request, Ordered
  <2>2. UNCHANGED <<compose, profile, request>>
    BY <1>1 DEF Request, toolVars
  <2> QED
    BY <2>1, <2>2
<1>2. CASE RefuseFile
  BY <1>2, EmptyOrdered DEF RefuseFile, toolVars
<1>3. CASE AddTool
  <2>1. Sound(compose)
    BY <1>3 DEF AddTool, IsCompose
  <2>2. Sound(compose')
    BY <1>3, <2>1, EnsureDatabaseToolSound DEF AddTool
  <2>3. Ordered'
    BY <1>3, TailOrdered DEF AddTool, Done, At
  <2> QED
    BY <1>3, <2>2, <2>3 DEF AddTool, toolVars
<1>4. CASE WriteWriterProfile
  <2>1. Ordered'
    BY <1>4, TailOrdered DEF WriteWriterProfile, Done, At
  <2> QED
    BY <1>4, <2>1 DEF WriteWriterProfile, toolVars
<1>5. CASE WriteCompose
  <2>1. compose' \in {Absent, Torn} \/ Sound(compose')
    <3>1. CASE compose' = WriterCompose(ComposeTemplate)
      BY <3>1, OldSound, WriterComposeSound
    <3>2. CASE Done("policy") /\ compose' = WriterCompose(compose)
      <4>1. CASE Sound(compose)
        BY <3>2, <4>1, WriterComposeSound
      <4>2. CASE compose \in {Absent, Torn}
        BY <3>2, <4>2 DEF WriterCompose, Absent, Torn
      <4> QED
        BY <4>1, <4>2
    <3> QED
      BY <1>5, <3>1, <3>2 DEF WriteCompose
  <2>2. Ordered'
    BY <1>5, TailOrdered DEF WriteCompose, Done, At
  <2> QED
    BY <1>5, <2>1, <2>2 DEF WriteCompose, toolVars
<1>6. CASE MigrateLegacyNetworks
  <2>1. compose' \in {Absent, Torn} \/ Sound(compose')
    BY <1>6 DEF MigrateLegacyNetworks, Sound, Absent, Torn
  <2>2. Ordered'
    BY <1>6, TailOrdered DEF MigrateLegacyNetworks, Done, At
  <2> QED
    BY <1>6, <2>1, <2>2 DEF MigrateLegacyNetworks, toolVars
<1>7. CASE RemoveStaleDatabaseTools \/ RunCompose \/ ChangeRoute \/ InstallWordPress \/ ScheduleReload
  <2>1. Ordered'
    BY <1>7, TailOrdered
       DEF RemoveStaleDatabaseTools, RunCompose, ChangeRoute, InstallWordPress, ScheduleReload, Done, At
  <2> QED
    BY <1>7, <2>1
       DEF RemoveStaleDatabaseTools, RunCompose, ChangeRoute, InstallWordPress, ScheduleReload, toolVars
<1>8. CASE RemoveSite
  <2>1. /\ request = "none" /\ request' = "none" /\ compose' = Absent
        /\ todo # <<>> /\ Head(todo) = "remove" /\ todo' = Tail(todo)
    BY <1>8 DEF RemoveSite, Done, At, toolVars
  <2>2. /\ todo' \in Seq(StepNames) /\ Len(todo') = Len(todo) - 1
        /\ Len(todo) \in Nat /\ todo[1] = "remove"
        /\ \A n \in 1..Len(todo') : todo'[n] = todo[n + 1]
    BY <2>1 DEF Ordered, OrderedFor
  <2>3. ASSUME NEW n \in 1..Len(todo') PROVE todo'[n] \notin {"up", "open"}
    <3>1. n + 1 \in 1..Len(todo) /\ 1 \in 1..(n + 1)
      BY <2>2
    <3> QED
      BY <2>2, <3>1 DEF Ordered, OrderedFor
  <2>4. Ordered'
    BY <2>2, <2>3 DEF Ordered, OrderedFor
  <2> QED
    BY <2>1, <2>4
<1>9. CASE ReloadCaddy
  BY <1>9 DEF ReloadCaddy, toolVars, Ordered
<1>10. CASE BeginTool
  <2>1. UNCHANGED <<compose, profile>> /\ todo # <<>> /\ todo' = Tail(todo)
    BY <1>10 DEF BeginTool, Done, At
  <2>2. Ordered'
    BY <1>10, <2>1, TailOrdered DEF BeginTool, Done, At
  <2>3. CASE At("open")
    <3>1. Len(todo) \in Nat /\ Len(todo) # 0 /\ todo[1] = "open"
      BY <2>1, <2>3 DEF At, Ordered, OrderedFor
    <3>2. profile
      BY <3>1 DEF Ordered, OrderedFor
    <3> QED
      BY <2>1, <2>2, <3>2
  <2>4. CASE At("close") /\ Close
    BY <2>1, <2>2, <2>4 DEF Close
  <2> QED
    BY <1>10, <2>3, <2>4 DEF BeginTool, Done
<1>11. CASE ToolStep
  <2>1. request' # "up" /\ UNCHANGED <<compose, profile>>
    BY <1>11 DEF ToolStep, RequestStep, ComposeUpTool, CheckReady, ScheduleDatabaseStop,
                 Unregister, RemoveTool
  <2>2. Ordered'
    BY <1>11, EmptyOrdered DEF ToolStep, Ordered
  <2> QED
    BY <2>1, <2>2
<1>12. CASE Callback
  BY <1>12 DEF Callback, CallbackStep, Fire, Expire, Forget, Ordered
<1>13. CASE StepFails \/ Crash
  <2>1. compose' \in {compose, Torn, Absent}
    BY <1>13 DEF StepFails, Crash, Partial
  <2>2. todo' = <<>> /\ request' = "none"
    BY <1>13 DEF StepFails, Crash, CrashTool
  <2> QED
    BY <2>1, <2>2, EmptyOrdered
<1>14. CASE StartWorker
  <2>1. Ordered'
    BY <1>14, StartupOrdered DEF StartWorker, Ordered
  <2> QED
    BY <1>14, <2>1 DEF StartWorker
<1>15. CASE UNCHANGED configVars
  BY <1>15 DEF configVars, toolVars, Ordered
<1> QED
  BY <1>1, <1>2, <1>3, <1>4, <1>5, <1>6, <1>7, <1>8, <1>9, <1>10, <1>11, <1>12, <1>13,
     <1>14, <1>15 DEF ConfigNext, ConfigStep

\* Whatever an earlier version has left, and wherever a migration or a request was
\* cut short, writerCompose accepts the file and finds its profile written before
\* a service is made from it.
THEOREM ConfigUsableTheorem == ConfigSpec => []ConfigUsable
<1>1. ConfigInv => ConfigUsable
  <2> SUFFICES ASSUME ConfigInv PROVE ConfigUsable
    OBVIOUS
  <2>1. IsCompose(compose) => Familiar(compose)
    BY SoundIsFamiliar DEF ConfigInv, IsCompose
  <2>2. At("up") => profile
    <3> SUFFICES ASSUME At("up") PROVE profile
      OBVIOUS
    <3>1. Len(todo) \in Nat /\ Len(todo) # 0 /\ todo[1] = "up"
      BY DEF At, ConfigInv, Ordered, OrderedFor
    <3> QED
      BY <3>1 DEF ConfigInv, Ordered, OrderedFor
  <2> QED
    BY <2>1, <2>2 DEF ConfigUsable, ConfigInv
<1> QED
  BY <1>1, ConfigInitially, ConfigPreserved, PTL DEF ConfigSpec
=============================================================================
