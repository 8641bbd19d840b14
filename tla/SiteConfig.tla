----------------------------- MODULE SiteConfig -----------------------------
(***************************************************************************)
(* The configuration files of one site and who rewrites them: the requests *)
(* (create, start, stop, delete and the database tool of DatabaseTool) and *)
(* the migrations of the worker's startup (cmd/worker/main.go, security.go *)
(* and resources.go).  A request is the list of its steps, executed under  *)
(* executionMu; Caddy is reloaded by a goroutine after the answer.         *)
(***************************************************************************)
EXTENDS DatabaseTool, Sequences

CONSTANT MaxRequests   \* bound on the requests

ASSUME MaxRequestsAssumption == MaxRequests \in Nat

VARIABLES
    compose,    \* compose.yaml, Absent or Torn
    profile,    \* the current writer profile is in the site's directory
    serving,    \* the WordPress container is running
    installed,  \* the panel knows that the site was created
    route,      \* the route file of the site is there
    loaded,     \* Caddy serves a route for the site
    reloads,    \* reloads that will come
    todo,       \* steps left of the request or of the startup
    requests,   \* requests so far
    excused     \* history: Caddy's difference is due to a failure that was reported or logged

configVars == <<compose, profile, serving, installed, route, loaded, reloads, todo,
                requests, excused, toolVars>>
caddy == <<route, loaded, reloads, excused>>

WriterServices == {"wordpress", "db", "cli", "phpmyadmin"}
Absent == [net |-> "absent"]
Torn == [net |-> "torn"]
IsCompose(c) == c \notin {Absent, Torn}

\* A compose file: the frontend network and the security_opt line of each service.
ComposeFile(net, wp, db, cli, pma) ==
    [net |-> net, policy |-> [wordpress |-> wp, db |-> db, cli |-> cli, phpmyadmin |-> pma]]

\* composeTemplate, and the files earlier versions have left.
ComposeTemplate == ComposeFile("shared", "legacy", "legacy", "none", "legacy")
OldComposes ==
    {ComposeFile("legacy", "legacy", "legacy", "none", "missing"),
     ComposeFile("shared", "legacy", "legacy", "none", "missing"), ComposeTemplate}

\* The services of a file.
Writers(c) == {x \in WriterServices : c.policy[x] # "missing"}

-----------------------------------------------------------------------------
(* What the worker makes of a file *)

\* Every service has the guard; or one has no line and the others the older one.
Guarded(c) == \A x \in Writers(c) : c.policy[x] = "guard"
Unguarded(c) ==
    \E y \in Writers(c) : /\ c.policy[y] = "none"
                          /\ \A x \in Writers(c) \ {y} : c.policy[x] = "legacy"

\* writerCompose accepts nothing else.
Familiar(c) == IsCompose(c) /\ (Guarded(c) \/ Unguarded(c))

WriterCompose(c) ==
    [c EXCEPT !.policy = [x \in WriterServices |->
                            IF @[x] = "legacy" \/ x = "cli" THEN "guard" ELSE @[x]]]

\* The tool as its template has it, whatever the file's other services have.
EnsureDatabaseToolAsTemplate(c) ==
    IF c.policy["phpmyadmin"] # "missing" THEN c ELSE [c EXCEPT !.policy["phpmyadmin"] = "legacy"]
EnsureDatabaseTool(c) ==
    IF c.policy["phpmyadmin"] # "missing" THEN c
    ELSE [c EXCEPT !.policy["phpmyadmin"] = IF \E x \in WriterServices : c.policy[x] = "guard"
                                              THEN "guard" ELSE "legacy"]

-----------------------------------------------------------------------------
(* The steps of requests and of the startup *)

Startup == <<"network", "stale", "profile", "policy">>

\* A deletion that does not wake Caddy.
DeleteStepsQuiet == <<"tool", "close", "unroute", "down", "remove">>
DeleteSteps == <<"tool", "close", "unroute", "down", "remove", "reload">>

\* A site without its file has nothing left in Docker, which the deletion checks.
Steps(kind) ==
    CASE kind = "create" -> <<"fresh", "template", "up", "route", "install", "reload">>
      [] kind = "start" -> <<"profile", "policy", "up">>
      [] kind = "stop" -> <<"tool", "close", "stop">>
      [] kind = "delete" /\ compose # Absent -> DeleteSteps
      [] kind = "delete" /\ compose = Absent -> <<"unroute", "remove", "reload">>
      [] kind = "open" -> <<"tool", "profile", "policy", "open">>
      [] kind = "close" -> <<"tool", "close">>

ConfigInit ==
    /\ ToolInit
    /\ compose \in OldComposes \cup {Absent}
    /\ installed = (compose # Absent)
    /\ serving \in {FALSE, installed}
    /\ profile = FALSE
    /\ route = installed
    /\ loaded = route
    /\ reloads = 0
    /\ todo = Startup
    /\ requests = 0
    /\ excused = FALSE

\* The panel retries only a creation that has failed.
Request(kind) ==
    /\ alive /\ request = "none" /\ todo = <<>>
    /\ requests < MaxRequests
    /\ requests' = requests + 1
    /\ IF kind = "create" THEN ~installed ELSE kind = "delete" \/ compose # Absent
    /\ kind = "open" => \E k \in Timers : timers[k] = "unused"
    /\ todo' = Steps(kind)
    /\ UNCHANGED <<compose, profile, serving, installed, caddy, toolVars>>

At(step) == alive /\ request = "none" /\ todo # <<>> /\ Head(todo) = step

Done(step) == At(step) /\ todo' = Tail(todo)

\* A file the worker does not know ends the request, or the migration.
RefuseFile ==
    /\ \/ At("tool") /\ ~IsCompose(compose)
       \/ At("profile") /\ ~Familiar(compose)
    /\ todo' = <<>>
    /\ UNCHANGED <<compose, profile, serving, installed, requests, caddy, toolVars>>

AddTool ==
    /\ Done("tool") /\ IsCompose(compose)
    /\ compose' = EnsureDatabaseTool(compose)
    /\ UNCHANGED <<profile, serving, installed, requests, caddy, toolVars>>

\* ensureWriterPolicy writes the profile before the file that refers to it.
WriteWriterProfile ==
    /\ \/ Done("fresh")
       \/ Done("profile") /\ Familiar(compose)
    /\ profile' = TRUE
    /\ UNCHANGED <<compose, serving, installed, requests, caddy, toolVars>>

WriteCompose ==
    /\ \/ Done("policy") /\ compose' = WriterCompose(compose)
       \/ Done("template") /\ compose' = WriterCompose(ComposeTemplate)
    /\ UNCHANGED <<profile, serving, installed, requests, caddy, toolVars>>

\* migrateLegacyNetworks; services that were running are made anew, and an error
\* of that is only logged.
MigrateLegacyNetworks ==
    /\ Done("network")
    /\ compose' = IF compose.net = "legacy" THEN [compose EXCEPT !.net = "shared"] ELSE compose
    /\ serving' \in IF compose.net = "legacy" THEN {serving, FALSE} ELSE {serving}
    /\ UNCHANGED <<profile, installed, requests, caddy, toolVars>>

RemoveStaleDatabaseTools ==
    /\ Done("stale")
    /\ tool' = FALSE
    /\ UNCHANGED <<compose, profile, serving, installed, requests, caddy,
                   alive, request, timers, registered, session, failures>>

\* compose up, stop and down.
RunCompose ==
    /\ \/ Done("up") /\ IsCompose(compose) /\ serving' = TRUE
       \/ Done("stop") /\ serving' = FALSE
       \/ Done("down") /\ serving' = FALSE
    /\ UNCHANGED <<compose, profile, installed, requests, caddy, toolVars>>

\* What Caddy is to load has changed.
ChangeRoute ==
    /\ \/ Done("route") /\ route' = TRUE
       \/ Done("unroute") /\ route' = FALSE
    /\ excused' = FALSE
    /\ UNCHANGED <<compose, profile, serving, installed, requests, loaded, reloads, toolVars>>

InstallWordPress ==
    /\ Done("install")
    /\ installed' = TRUE
    /\ UNCHANGED <<compose, profile, serving, requests, caddy, toolVars>>

RemoveSite ==
    /\ Done("remove")
    /\ compose' = Absent /\ profile' = FALSE /\ installed' = FALSE
    /\ UNCHANGED <<serving, requests, caddy, toolVars>>

\* The answer is sent, and the goroutine sleeps.
ScheduleReload ==
    /\ Done("reload")
    /\ reloads' = reloads + 1
    /\ UNCHANGED <<compose, profile, serving, installed, requests, route, loaded, excused, toolVars>>

\* Two seconds later; an error is only logged.
ReloadCaddy ==
    /\ reloads > 0
    /\ reloads' = reloads - 1
    /\ \/ loaded' = route /\ UNCHANGED <<excused, toolVars>>
       \/ /\ Failure /\ excused' = (route # loaded)
          /\ UNCHANGED <<loaded, alive, tool, request, timers, registered, session>>
    /\ UNCHANGED <<compose, profile, serving, installed, requests, route, todo>>

-----------------------------------------------------------------------------
(* The database tool *)

BeginTool ==
    /\ \/ Done("open") /\ Open
       \/ Done("close") /\ Close
    /\ UNCHANGED <<compose, profile, serving, installed, requests, caddy>>

\* A failure ends the request the tool's steps belong to.
ToolStep ==
    /\ RequestStep
    /\ IF failures' = failures THEN UNCHANGED <<todo, excused>>
       ELSE todo' = <<>> /\ excused' = (route # loaded)
    /\ UNCHANGED <<compose, profile, serving, installed, requests, route, loaded, reloads>>

Callback ==
    /\ \E k \in Timers : CallbackStep(k)
    /\ UNCHANGED <<compose, profile, serving, installed, requests, caddy, todo>>

-----------------------------------------------------------------------------
(* Failures *)

\* What a step that is cut short may have done: os.WriteFile and RemoveAll are
\* not atomic, atomicConfig is.
Partial ==
    /\ compose' \in CASE At("network") /\ compose.net = "legacy" -> {compose, Torn}
                      [] At("remove") -> {compose, Absent}
                      [] OTHER -> {compose}
    /\ profile' \in IF At("remove") THEN {profile, FALSE} ELSE {profile}
    /\ route' \in IF At("route") THEN {route, TRUE} ELSE {route}
    /\ serving' \in CASE At("up") -> {serving, TRUE}
                      [] At("stop") \/ At("down") -> {serving, FALSE}
                      [] OTHER -> {serving}
    /\ excused' = (route' # loaded)

\* A failing request is answered with its error; a failing startup ends the
\* worker, except that a site whose writer policy fails is skipped.
StepFails ==
    /\ alive /\ request = "none" /\ todo # <<>> /\ Head(todo) \notin {"reload", "open", "close"}
    /\ Failure
    /\ Partial
    /\ todo' = <<>>
    /\ alive' = ~(At("network") \/ At("stale"))
    /\ UNCHANGED <<installed, requests, loaded, reloads, tool, request, timers, registered, session>>

Crash ==
    /\ CrashTool
    /\ Partial
    /\ todo' = <<>>
    /\ reloads' = 0
    /\ UNCHANGED <<installed, requests, loaded>>

\* Docker restarts the worker.
StartWorker ==
    /\ ~alive
    /\ alive' = TRUE
    /\ todo' = Startup
    /\ UNCHANGED <<compose, profile, serving, installed, requests, caddy,
                   tool, request, timers, registered, session, failures>>

ConfigStep ==
    \/ RefuseFile \/ AddTool \/ WriteWriterProfile \/ WriteCompose \/ MigrateLegacyNetworks
    \/ RemoveStaleDatabaseTools \/ RunCompose \/ ChangeRoute \/ InstallWordPress \/ RemoveSite
    \/ ScheduleReload \/ BeginTool \/ ToolStep

Kinds == {"create", "start", "stop", "delete", "open", "close"}

ConfigNext ==
    \/ \E kind \in Kinds : Request(kind)
    \/ ConfigStep \/ StepFails
    \/ ReloadCaddy \/ Callback
    \/ Crash \/ StartWorker

\* Handlers, goroutines and timers are scheduled; Docker restarts the worker.
ConfigSpec ==
    /\ ConfigInit /\ [][ConfigNext]_configVars
    /\ WF_configVars(ConfigStep)
    /\ WF_configVars(ReloadCaddy)
    /\ WF_configVars(StartWorker)
    /\ \A k \in Timers : WF_configVars(CallbackStep(k) /\ Callback)

-----------------------------------------------------------------------------
(* Properties *)

\* Whatever an earlier version has left, and wherever a migration, an upgrade or
\* a request was cut short, the compose file is one that writerCompose accepts,
\* and no service is made from it before its writer profile is there.  (A file
\* torn by an interrupted network migration is out of the worker's hands.)
ConfigUsable ==
    /\ IsCompose(compose) => Familiar(compose)
    /\ At("up") \/ request = "up" => profile

\* Caddy comes to serve the routes on disk: each change is followed by a reload
\* after it, also when reloads of several requests overlap, unless a request, a
\* reload or the worker itself failed.
RoutesConverge == (route # loaded /\ ~excused) ~> (route = loaded \/ excused)
=============================================================================
