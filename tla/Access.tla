------------------------------- MODULE Access -------------------------------
(***************************************************************************)
(* How a browser reaches the panel (cmd/panel/main.go, ServeHTTP): login   *)
(* and its throttle, the signed session cookie and the CSRF token of a     *)
(* page, an operation that is recorded in the audit log and leaves its     *)
(* result as a flash message, and the page that shows the result.          *)
(* Requests and answers of one browser overlap and arrive in any order.    *)
(***************************************************************************)
EXTENDS AuditLog, LoginThrottle

CONSTANTS
    SessionLife, \* 8 hours
    FlashLife,   \* 5 minutes: age at which setFlash drops a result
    CookieLife,  \* 2 minutes: MaxAge of the wph_flash cookie
    MaxRequests  \* bound on logins, operations, scheduled backups and pages

ASSUME LifeAssumption == {SessionLife, FlashLife, CookieLife} \subseteq Nat

VARIABLES
    session,   \* session[c]: expiry in the wph_session cookie of c, 0 for none
    token,     \* token[c]: session value the page of c was rendered for, 0 for none
    job,       \* who runs the operation that holds opsMu
    flashes,   \* results kept by the panel
    cookie,    \* cookie[c]: the wph_flash cookie
    wire,      \* requests and responses under way
    results,   \* results handed out
    shown,     \* history: <<client, result>> as often as it was shown
    owner,     \* history: owner[i]: the client whose operation had result i
    requests   \* requests made so far

flashVars == <<flashes, cookie, wire, results, shown, owner>>
accessVars == <<logVars, faults, throttleVars, now, session, token, job, flashVars, requests>>

NoCookie == [id |-> 0, until |-> 0]

AccessTypeOK ==
    /\ LogTypeOK
    /\ ThrottleTypeOK
    /\ session \in [Clients -> Nat]
    /\ token \in [Clients -> Nat]
    /\ job \in Clients \cup {"none", "scheduler"}
    /\ flashes \subseteq [id : 1..results, created : Nat]
    /\ cookie \in [Clients -> [id : 0..results, until : Nat]]
    /\ results \in Nat
    /\ requests \in 0..MaxRequests

AccessInit ==
    /\ LogInit
    /\ ThrottleInit
    /\ session = [c \in Clients |-> 0]
    /\ token = [c \in Clients |-> 0]
    /\ job = "none"
    /\ flashes = {}
    /\ cookie = [c \in Clients |-> NoCookie]
    /\ wire = {}
    /\ results = 0
    /\ shown = <<>>
    /\ owner = <<>>
    /\ requests = 0

Request == requests < MaxRequests /\ requests' = requests + 1

-----------------------------------------------------------------------------
(* Login, session and CSRF *)

\* The cookie is signed and not expired; the browser drops it then as well.
Authenticated(c) == now < session[c]

\* The token of the form is the one of the session the request carries.
CheckCSRF(c) == token[c] = session[c]

Login(c) ==
    /\ Request
    /\ LoginAdmitted(c) \/ LoginRefused(c)
    /\ UNCHANGED <<logVars, faults, now, session, token, job, flashVars>>

WrongPassword(c) ==
    /\ LoginFailed(c)
    /\ UNCHANGED <<logVars, faults, now, session, token, job, flashVars, requests>>

SignIn(c) ==
    /\ LoginSucceeded(c)
    /\ session' = [session EXCEPT ![c] = now + SessionLife]
    /\ UNCHANGED <<logVars, faults, now, token, job, flashVars, requests>>

Logout(c) ==
    /\ Authenticated(c) /\ CheckCSRF(c)
    /\ session' = [session EXCEPT ![c] = 0]
    /\ UNCHANGED <<logVars, faults, throttleVars, now, token, job, flashVars, requests>>

-----------------------------------------------------------------------------
(* An operation and its result *)

\* A form is accepted; while opsMu is taken the answer is 409.
Submit(c) ==
    /\ Request
    /\ Authenticated(c) /\ CheckCSRF(c)
    /\ job = "none"
    /\ job' = c
    /\ BeginAppend
    /\ UNCHANGED <<faults, throttleVars, now, session, token, flashVars>>

\* The scheduler records its backups in the same log.
Scheduled ==
    /\ Request
    /\ job = "none"
    /\ job' = "scheduler"
    /\ BeginAppend
    /\ UNCHANGED <<faults, throttleVars, now, session, token, flashVars>>

\* record: an error of Append is only logged.
Record ==
    /\ AppendStep
    /\ UNCHANGED <<throttleVars, now, session, token, job, flashVars, requests>>

ScheduledDone ==
    /\ job = "scheduler" /\ appending = "idle"
    /\ job' = "none"
    /\ UNCHANGED <<logVars, faults, throttleVars, now, session, token, flashVars, requests>>

\* setFlash keeps the result and forgets the ones created before the cutoff.
SetFlash(i) == {f \in flashes : f.created + FlashLife >= now} \cup {[id |-> i, created |-> now]}

\* redirectWithFlashTo; without a new ID the answer is 500.
Answer(c) ==
    /\ job = c /\ appending = "idle"
    /\ job' = "none"
    /\ \/ /\ results' = results + 1
          /\ owner' = Append(owner, c)
          /\ flashes' = SetFlash(results')
          /\ wire' = wire \cup {[kind |-> "redirect", client |-> c, id |-> results']}
          /\ UNCHANGED faults
       \/ Fault /\ UNCHANGED <<results, owner, flashes, wire>>
    /\ UNCHANGED <<logVars, throttleVars, now, session, token, cookie, shown, requests>>

-----------------------------------------------------------------------------
(* Pages *)

\* A request for a page carries the flash cookie unless it has expired.
Get(c, home, value) ==
    [kind |-> "get", client |-> c, home |-> home,
     id |-> IF now < value.until THEN value.id ELSE 0]

\* The browser stores the cookie of the redirect and follows it.
Follow(m) ==
    /\ m.kind = "redirect"
    /\ LET value == [id |-> m.id, until |-> now + CookieLife]
       IN  /\ cookie' = [cookie EXCEPT ![m.client] = value]
           /\ \E home \in BOOLEAN : wire' = (wire \ {m}) \cup {Get(m.client, home, value)}
    /\ UNCHANGED <<logVars, faults, throttleVars, now, session, token, job,
                   flashes, results, shown, owner, requests>>

\* Another page of the same browser; "/" needs no session.
Visit(c) ==
    /\ Request
    /\ \E home \in BOOLEAN : wire' = wire \cup {Get(c, home, cookie[c])}
    /\ UNCHANGED <<logVars, faults, throttleVars, now, session, token, job,
                   flashes, cookie, results, shown, owner>>

\* The flash is looked up in one critical section and deleted in another.
TakeFlashLater(m) ==
    LET stored == \E f \in flashes : f.id = m.id
    IN  /\ flashes' = IF stored /\ \E n \in wire : n.kind = "get" /\ n.id = m.id /\ n # m
                      THEN flashes ELSE {f \in flashes : f.id # m.id}
        /\ wire' = (wire \ {m}) \cup
             {[kind |-> "page", client |-> m.client, cleared |-> m.id # 0,
               id |-> IF stored THEN m.id ELSE 0,
               token |-> IF Authenticated(m.client) THEN session[m.client] ELSE 0]}
\* takeFlash and render: the result is taken even if the page then fails.
TakeFlash(m) ==
    /\ flashes' = {f \in flashes : f.id # m.id}
    /\ wire' = (wire \ {m}) \cup
         {[kind |-> "page", client |-> m.client, cleared |-> m.id # 0,
           id |-> IF \E f \in flashes : f.id = m.id THEN m.id ELSE 0,
           token |-> IF Authenticated(m.client) THEN session[m.client] ELSE 0]}

\* Any page but "/" is refused before takeFlash when there is no session.
Serve(m) ==
    /\ m.kind = "get"
    /\ \/ (m.home \/ Authenticated(m.client)) /\ TakeFlash(m)
       \/ ~m.home /\ ~Authenticated(m.client) /\ wire' = wire \ {m} /\ UNCHANGED flashes
    /\ UNCHANGED <<logVars, faults, throttleVars, now, session, token, job,
                   cookie, results, shown, owner, requests>>

\* The response clears whatever flash cookie the browser holds by now.
Display(m) ==
    /\ m.kind = "page"
    /\ wire' = wire \ {m}
    /\ cookie' = IF m.cleared THEN [cookie EXCEPT ![m.client] = NoCookie] ELSE cookie
    /\ token' = [token EXCEPT ![m.client] = m.token]
    /\ shown' = IF m.id # 0 THEN Append(shown, <<m.client, m.id>>) ELSE shown
    /\ UNCHANGED <<logVars, faults, throttleVars, now, session, job,
                   flashes, results, owner, requests>>

-----------------------------------------------------------------------------
(* The world *)

Tick ==
    /\ now < MaxTime
    /\ now' = now + 1
    /\ UNCHANGED <<logVars, faults, throttleVars, session, token, job, flashVars, requests>>

\* A request or an answer is lost; render failing after takeFlash is the same.
Lose(m) ==
    /\ Fault
    /\ wire' = wire \ {m}
    /\ UNCHANGED <<logVars, throttleVars, now, session, token, job,
                   flashes, cookie, results, shown, owner, requests>>

\* The panel restarts: results and attempts are kept in memory only, the
\* sessions outlive it because the key is in its environment.
Restart ==
    /\ Fault
    /\ CrashLog
    /\ CrashThrottle
    /\ job' = "none"
    /\ flashes' = {}
    /\ wire' = {m \in wire : m.kind # "get"}
    /\ UNCHANGED <<now, session, token, cookie, results, shown, owner, requests>>

AccessNext ==
    \/ \E c \in Clients :
          \/ Login(c) \/ WrongPassword(c) \/ SignIn(c) \/ Logout(c)
          \/ Submit(c) \/ Answer(c) \/ Visit(c)
    \/ Scheduled \/ Record \/ ScheduledDone
    \/ \E m \in wire : Follow(m) \/ Serve(m) \/ Display(m) \/ Lose(m)
    \/ Tick \/ Restart

AccessSpec == AccessInit /\ [][AccessNext]_accessVars

-----------------------------------------------------------------------------
(* Properties *)

\* A result is shown at most once, and only by the browser whose operation it
\* was, however the requests of its tabs overlap.
ResultShownOnce ==
    /\ \A i, j \in DOMAIN shown : shown[i][2] = shown[j][2] => i = j
    /\ \A i \in DOMAIN shown : owner[shown[i][2]] = shown[i][1]
=============================================================================
