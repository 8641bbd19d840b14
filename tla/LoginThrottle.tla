--------------------------- MODULE LoginThrottle ----------------------------
(***************************************************************************)
(* The panel's login throttle (cmd/panel/main.go, loginAllowed and the     *)
(* /login handler).  An attempt is entered in loginFails before its        *)
(* password is checked; the check itself runs without the lock, so any     *)
(* number of attempts of a client are checked at the same time.            *)
(***************************************************************************)
EXTENDS Naturals, FiniteSets

CONSTANTS
    Clients,  \* addresses of clients, as loginClientIP finds them
    Limit,    \* attempts in a window
    Window,   \* length of the window
    MaxTime   \* bound on the clock

ASSUME LimitAssumption == Limit \in Nat \ {0}
ASSUME WindowAssumption == Window \in Nat \ {0}

VARIABLES
    now,         \* the clock
    tries,       \* number of the attempt last admitted
    loginFails,  \* loginFails[c]: entered attempts
    checking,    \* checking[c]: attempts whose password is being compared
    checked      \* history: attempts of c admitted since its entry was last dropped

throttleVars == <<tries, loginFails, checking, checked>>

Attempts == [id : Nat, at : Nat]

ThrottleTypeOK ==
    /\ now \in Nat
    /\ tries \in Nat
    /\ loginFails \in [Clients -> SUBSET Attempts]
    /\ checking \in [Clients -> SUBSET Attempts]
    /\ checked \in [Clients -> SUBSET Attempts]

ThrottleInit ==
    /\ now = 0
    /\ tries = 0
    /\ loginFails = [c \in Clients |-> {}]
    /\ checking = [c \in Clients |-> {}]
    /\ checked = [c \in Clients |-> {}]

\* The attempts after the cutoff.
Kept(c) == {t \in loginFails[c] : t.at + Window > now}

\* loginAllowed answers false: 429.
LoginRefused(c) ==
    /\ Cardinality(Kept(c)) >= Limit
    /\ loginFails' = [loginFails EXCEPT ![c] = Kept(c)]
    /\ UNCHANGED <<tries, checking, checked>>

Admitted(c, entered) ==
    LET t == [id |-> tries + 1, at |-> now]
    IN  /\ tries' = t.id
        /\ loginFails' = [loginFails EXCEPT ![c] = entered \cup {t}]
        /\ checking' = [checking EXCEPT ![c] = @ \cup {t}]
        /\ checked' = [checked EXCEPT ![c] = @ \cup {t}]

\* The attempt enters loginFails when its password turns out to be wrong.
LoginAdmittedUnreserved(c) ==
    /\ Cardinality(Kept(c) \ checking[c]) < Limit
    /\ Admitted(c, Kept(c))
\* loginAllowed answers true and has reserved the attempt.
LoginAdmitted(c) ==
    /\ Cardinality(Kept(c)) < Limit
    /\ Admitted(c, Kept(c))

\* The form cannot be parsed or the password does not match.
LoginFailed(c) ==
    \E t \in checking[c] :
       /\ checking' = [checking EXCEPT ![c] = @ \ {t}]
       /\ UNCHANGED <<tries, loginFails, checked>>

\* The password matches: the client's entry is dropped with the reservations of
\* the attempts still being checked.
LoginSucceeded(c) ==
    \E t \in checking[c] :
       /\ checking' = [checking EXCEPT ![c] = @ \ {t}]
       /\ loginFails' = [loginFails EXCEPT ![c] = {}]
       /\ checked' = [checked EXCEPT ![c] = {}]
       /\ UNCHANGED tries

\* loginFails is kept in memory only.
CrashThrottle ==
    /\ loginFails' = [c \in Clients |-> {}]
    /\ checking' = [c \in Clients |-> {}]
    /\ checked' = [c \in Clients |-> {}]
    /\ UNCHANGED tries

-----------------------------------------------------------------------------
(* Properties *)

\* The attempts admitted up to t in the window that ends with t.
InWindow(c, t) == {u \in checked[c] : u.id <= t.id /\ u.at + Window > t.at}

\* However many logins of a client are checked at once, no window holds more
\* than Limit of them between two successes of that client or restarts.
ThrottleHolds ==
    \A c \in Clients : \A t \in checked[c] : Cardinality(InWindow(c, t)) <= Limit

\* The entries still count every attempt of the current window.
Remembered ==
    \A c \in Clients : \A t \in checked[c] : t.at + Window > now => t \in loginFails[c]

\* Attempts are numbered in the order of their times.
Numbered ==
    \A c \in Clients : \A t \in checked[c] : t.at <= now /\ t.id <= tries
=============================================================================
