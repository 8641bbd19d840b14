---------------------------- MODULE AccessProofs ----------------------------
(***************************************************************************)
(* Proofs about the panel's access control, for every set of clients,      *)
(* every limit and window, and any number of logins checked at once.       *)
(***************************************************************************)
EXTENDS Access, FiniteSetTheorems, SequenceTheorems, TLAPS

\* The types that matter to the throttle; the sets of attempts stay finite.
ThrottleTyped ==
    /\ ThrottleTypeOK
    /\ \A c \in Clients : IsFiniteSet(loginFails[c]) /\ IsFiniteSet(checked[c])

\* What is preserved: an attempt of the current window is counted until its client
\* signs in, and a later attempt has a larger number and no earlier time.
ThrottleInv == ThrottleTyped /\ Remembered /\ Numbered /\ ThrottleHolds

-----------------------------------------------------------------------------

\* The attempts that count are among the entries.
LEMMA KeptFinite ==
    ASSUME ThrottleTyped, NEW c \in Clients
    PROVE  /\ Kept(c) \subseteq loginFails[c]
           /\ IsFiniteSet(Kept(c))
           /\ Cardinality(Kept(c)) \in Nat
<1>1. Kept(c) \subseteq loginFails[c]
  BY DEF Kept
<1>2. IsFiniteSet(loginFails[c])
  BY DEF ThrottleTyped
<1> QED
  BY <1>1, <1>2, FS_Subset, FS_CardinalityType

\* The window of an attempt that is just admitted holds at most the entries kept
\* and the attempt itself.
LEMMA AdmittedInWindow ==
    ASSUME ThrottleTyped, Remembered, Numbered, NEW c \in Clients,
           Cardinality(Kept(c)) < Limit, Admitted(c, Kept(c)), now' = now,
           NEW t, t = [id |-> tries + 1, at |-> now]
    PROVE  Cardinality(InWindow(c, t)') <= Limit
<1>1. checked'[c] = checked[c] \cup {t}
  BY DEF Admitted, ThrottleTyped, ThrottleTypeOK
<1>2. InWindow(c, t)' \subseteq Kept(c) \cup {t}
  <2> SUFFICES ASSUME NEW u \in InWindow(c, t)', u # t
               PROVE  u \in Kept(c)
    OBVIOUS
  <2>1. u \in checked[c] /\ u.at + Window > now
    BY <1>1 DEF InWindow
  <2> QED
    BY <2>1 DEF Remembered, Kept
<1>3. IsFiniteSet(Kept(c)) /\ Cardinality(Kept(c)) \in Nat
  BY KeptFinite
<1>4. /\ IsFiniteSet(Kept(c) \cup {t})
      /\ Cardinality(Kept(c) \cup {t}) <= Cardinality(Kept(c)) + 1
  <2>1. /\ IsFiniteSet(Kept(c) \cup {t})
        /\ Cardinality(Kept(c) \cup {t}) =
              IF t \in Kept(c) THEN Cardinality(Kept(c)) ELSE Cardinality(Kept(c)) + 1
    BY <1>3, FS_AddElement, Zenon
  <2> QED
    BY <1>3, <2>1
<1>5. /\ Cardinality(InWindow(c, t)') \in Nat
      /\ Cardinality(Kept(c) \cup {t}) \in Nat
      /\ Cardinality(InWindow(c, t)') <= Cardinality(Kept(c) \cup {t})
  BY <1>2, <1>4, FS_Subset, FS_CardinalityType
<1> QED
  BY <1>3, <1>4, <1>5, LimitAssumption

\* A refused attempt only forgets entries that no longer count.
LEMMA RefusedKeeps ==
    ASSUME ThrottleInv, NEW c \in Clients, LoginRefused(c), now' = now
    PROVE  ThrottleInv'
<1> USE DEF ThrottleInv, ThrottleTyped, ThrottleTypeOK
<1>1. loginFails' = [loginFails EXCEPT ![c] = Kept(c)]
  BY DEF LoginRefused
<1>2. ThrottleTyped'
  BY <1>1, KeptFinite DEF LoginRefused
<1>3. Remembered'
  BY <1>1, WindowAssumption DEF LoginRefused, Remembered, Kept
<1>4. Numbered'
  BY DEF LoginRefused, Numbered
<1>5. ThrottleHolds'
  BY DEF LoginRefused, ThrottleHolds, InWindow
<1> QED
  BY <1>2, <1>3, <1>4, <1>5

\* An admitted attempt is entered before it is checked.
LEMMA AdmittedKeeps ==
    ASSUME ThrottleInv, NEW c \in Clients, LoginAdmitted(c), now' = now
    PROVE  ThrottleInv'
<1> DEFINE t == [id |-> tries + 1, at |-> now]
<1> USE DEF ThrottleInv
<1>1. /\ now \in Nat /\ tries \in Nat /\ t \in Attempts
      /\ t.id = tries + 1 /\ t.at = now
  BY DEF ThrottleTyped, ThrottleTypeOK, Attempts
<1>2. /\ tries' = tries + 1
      /\ loginFails' = [loginFails EXCEPT ![c] = Kept(c) \cup {t}]
      /\ checking' = [checking EXCEPT ![c] = @ \cup {t}]
      /\ checked' = [checked EXCEPT ![c] = @ \cup {t}]
  BY <1>1 DEF LoginAdmitted, Admitted
<1> HIDE DEF t
<1>3. /\ loginFails \in [Clients -> SUBSET Attempts]
      /\ checking \in [Clients -> SUBSET Attempts]
      /\ checked \in [Clients -> SUBSET Attempts]
  BY DEF ThrottleTyped, ThrottleTypeOK
<1>4. ThrottleTyped'
  <2>1. ThrottleTypeOK'
    BY <1>1, <1>2, <1>3, KeptFinite DEF ThrottleTypeOK
  <2>2. IsFiniteSet(Kept(c) \cup {t}) /\ IsFiniteSet(checked[c] \cup {t})
    BY KeptFinite, FS_AddElement DEF ThrottleTyped
  <2>3. ASSUME NEW d \in Clients
        PROVE  IsFiniteSet(loginFails'[d]) /\ IsFiniteSet(checked'[d])
    BY <1>2, <1>3, <2>2 DEF ThrottleTyped
  <2> QED
    BY <2>1, <2>3 DEF ThrottleTyped
<1>5. Remembered'
  BY <1>1, <1>2, <1>3 DEF Remembered, Kept
<1>6. Numbered'
  BY <1>1, <1>2, <1>3 DEF Numbered, Attempts
<1>7. ThrottleHolds'
  <2> SUFFICES ASSUME NEW d \in Clients, NEW u \in checked'[d]
               PROVE  Cardinality(InWindow(d, u)') <= Limit
    BY DEF ThrottleHolds, InWindow
  <2>1. CASE d = c /\ u = t
    BY <2>1, <1>1, AdmittedInWindow DEF LoginAdmitted, t
  <2>2. CASE ~(d = c /\ u = t)
    <3>1. u \in checked[d]
      BY <2>2, <1>2, <1>3
    <3>2. u.id <= tries /\ u.id \in Nat
      BY <3>1, <1>3 DEF Numbered, Attempts
    <3>3. InWindow(d, u)' = InWindow(d, u)
      BY <3>2, <1>1, <1>2, <1>3 DEF InWindow
    <3> QED
      BY <3>1, <3>3 DEF ThrottleHolds
  <2> QED
    BY <2>1, <2>2
<1> QED
  BY <1>4, <1>5, <1>6, <1>7

\* A check that ends, a tick of the clock and a restart.
LEMMA CheckEndsKeeps ==
    ASSUME ThrottleInv, NEW c \in Clients, LoginFailed(c) \/ LoginSucceeded(c), now' = now
    PROVE  ThrottleInv'
<1> USE DEF ThrottleInv, ThrottleTyped, ThrottleTypeOK
<1>1. CASE LoginFailed(c)
  BY <1>1 DEF LoginFailed, Remembered, Numbered, ThrottleHolds, InWindow
<1>2. CASE LoginSucceeded(c)
  <2>1. /\ loginFails' = [loginFails EXCEPT ![c] = {}]
        /\ checked' = [checked EXCEPT ![c] = {}]
        /\ checking' \in [Clients -> SUBSET Attempts]
        /\ tries' = tries
    BY <1>2 DEF LoginSucceeded
  <2>2. ThrottleTyped'
    BY <2>1, FS_EmptySet
  <2>3. Remembered' /\ Numbered'
    BY <2>1 DEF Remembered, Numbered
  <2>4. ThrottleHolds'
    BY <2>1 DEF ThrottleHolds, InWindow
  <2> QED
    BY <2>2, <2>3, <2>4
<1> QED
  BY <1>1, <1>2

\* A restart forgets the attempts and those being checked.
LEMMA RestartKeeps ==
    ASSUME ThrottleInv, CrashThrottle, now' = now
    PROVE  ThrottleInv'
<1>1. ThrottleTyped'
  BY FS_EmptySet DEF ThrottleInv, ThrottleTyped, ThrottleTypeOK, CrashThrottle
<1>2. Remembered' /\ Numbered' /\ ThrottleHolds'
  BY DEF CrashThrottle, Remembered, Numbered, ThrottleHolds
<1> QED
  BY <1>1, <1>2 DEF ThrottleInv

\* The clock goes on, and attempts leave the window.
LEMMA TickKeeps ==
    ASSUME ThrottleInv, UNCHANGED throttleVars, now' = now \/ now' = now + 1
    PROVE  ThrottleInv'
<1> USE DEF ThrottleInv, ThrottleTyped, ThrottleTypeOK, throttleVars
<1>1. ThrottleTyped'
  OBVIOUS
<1>2. Remembered' /\ Numbered'
  BY WindowAssumption DEF Remembered, Numbered, Attempts
<1>3. ThrottleHolds'
  BY DEF ThrottleHolds, InWindow
<1> QED
  BY <1>1, <1>2, <1>3

-----------------------------------------------------------------------------

\* Nobody has tried yet.
LEMMA ThrottleInitially == AccessInit => ThrottleInv
<1> SUFFICES ASSUME AccessInit PROVE ThrottleInv
  OBVIOUS
<1>1. ThrottleTyped
  BY FS_EmptySet DEF AccessInit, ThrottleInit, ThrottleTyped, ThrottleTypeOK
<1>2. Remembered /\ Numbered /\ ThrottleHolds
  BY DEF AccessInit, ThrottleInit, Remembered, Numbered, ThrottleHolds
<1> QED
  BY <1>1, <1>2 DEF ThrottleInv

\* Every step of the browsers and the panel.
LEMMA ThrottleStep == ThrottleInv /\ [AccessNext]_accessVars => ThrottleInv'
<1> SUFFICES ASSUME ThrottleInv, [AccessNext]_accessVars PROVE ThrottleInv'
  OBVIOUS
<1>1. ASSUME NEW c \in Clients, Login(c) PROVE ThrottleInv'
  BY <1>1, AdmittedKeeps, RefusedKeeps DEF Login
<1>2. ASSUME NEW c \in Clients, WrongPassword(c) \/ SignIn(c) PROVE ThrottleInv'
  BY <1>2, CheckEndsKeeps DEF WrongPassword, SignIn
<1>3. ASSUME NEW c \in Clients, Logout(c) \/ Submit(c) \/ Answer(c) \/ Visit(c)
      PROVE  ThrottleInv'
  BY <1>3, TickKeeps DEF Logout, Submit, Answer, Visit
<1>4. CASE Scheduled \/ Record \/ ScheduledDone
  BY <1>4, TickKeeps DEF Scheduled, Record, ScheduledDone
<1>5. ASSUME NEW m \in wire, Follow(m) \/ Serve(m) \/ Display(m) \/ Lose(m)
      PROVE  ThrottleInv'
  BY <1>5, TickKeeps DEF Follow, Serve, Display, Lose
<1>6. CASE Tick
  BY <1>6, TickKeeps DEF Tick
<1>7. CASE Restart
  BY <1>7, RestartKeeps DEF Restart
<1>8. CASE UNCHANGED accessVars
  BY <1>8, TickKeeps DEF accessVars
<1> QED
  BY <1>1, <1>2, <1>3, <1>4, <1>5, <1>6, <1>7, <1>8 DEF AccessNext

\* The throttle holds for any number of clients and of logins checked at once,
\* whatever happens to sessions, operations, pages and the audit log meanwhile.
THEOREM ThrottleTheorem == AccessSpec => []ThrottleHolds
<1>1. ThrottleInv => ThrottleHolds
  BY DEF ThrottleInv
<1> QED
  BY <1>1, ThrottleInitially, ThrottleStep, PTL DEF AccessSpec

-----------------------------------------------------------------------------
(* Results *)

FlashTyped ==
    /\ now \in Nat
    /\ results \in Nat
    /\ owner \in Seq(Clients) /\ Len(owner) = results
    /\ shown \in Seq(Clients \X Nat)
    /\ cookie \in [Clients -> [id : Nat, until : Nat]]
    /\ \A f \in flashes : f.id \in 1..results

\* A result travels only to the browser whose operation it was.
Belongs(c, i) == i # 0 => i \in 1..results /\ owner[i] = c

Addressed ==
    /\ \A m \in wire : m.client \in Clients /\ m.id \in Nat /\ Belongs(m.client, m.id)
    /\ \A c \in Clients : Belongs(c, cookie[c].id)
    /\ \A i \in DOMAIN shown : shown[i][2] # 0 /\ Belongs(shown[i][1], shown[i][2])

IsAnswer(m) == m.kind = "page" /\ m.id # 0

\* A result is kept by the panel, or on its way in one page, or shown once.
InOnePlace ==
    /\ \A m, n \in wire : IsAnswer(m) /\ IsAnswer(n) /\ m.id = n.id => m = n
    /\ \A m \in wire, f \in flashes : IsAnswer(m) => m.id # f.id
    /\ \A i \in DOMAIN shown, f \in flashes : shown[i][2] # f.id
    /\ \A i \in DOMAIN shown, m \in wire : IsAnswer(m) => shown[i][2] # m.id
    /\ \A i, j \in DOMAIN shown : shown[i][2] = shown[j][2] => i = j

FlashInv == FlashTyped /\ Addressed /\ InOnePlace

\* No result has been handed out.
LEMMA FlashInitially == AccessInit => FlashInv
  BY DEF AccessInit, ThrottleInit, NoCookie, FlashInv, FlashTyped, Addressed, Belongs,
         InOnePlace, IsAnswer

\* Steps that leave results, cookies and messages alone.
LEMMA FlashUntouched ==
    ASSUME FlashInv, UNCHANGED flashVars, now' \in Nat
    PROVE  FlashInv'
  BY DEF flashVars, FlashInv, FlashTyped, Addressed, Belongs, InOnePlace, IsAnswer

\* A new result has a number that nothing carries yet.
LEMMA AnswerKeeps ==
    ASSUME FlashInv, NEW c \in Clients, Answer(c)
    PROVE  FlashInv'
<1> USE DEF FlashInv
<1>1. CASE UNCHANGED <<results, owner, flashes, wire>>
  BY <1>1, FlashUntouched DEF Answer, flashVars, FlashTyped
<1>2. CASE /\ results' = results + 1
           /\ owner' = Append(owner, c)
           /\ flashes' = SetFlash(results')
           /\ wire' = wire \cup {[kind |-> "redirect", client |-> c, id |-> results']}
  <2>1. UNCHANGED <<now, cookie, shown>>
    BY DEF Answer
  <2>2. /\ results \in Nat /\ owner \in Seq(Clients) /\ Len(owner) = results
        /\ owner' \in Seq(Clients) /\ Len(owner') = results'
        /\ owner'[results'] = c
        /\ \A i \in 1..results : owner'[i] = owner[i]
    BY <1>2, AppendProperties DEF FlashTyped
  <2>3. \A f \in flashes' : f \in flashes \/ f.id = results'
    BY <1>2 DEF SetFlash
  <2>4. FlashTyped'
    BY <1>2, <2>1, <2>2, <2>3 DEF FlashTyped
  <2>5. Addressed'
    <3> DEFINE r == [kind |-> "redirect", client |-> c, id |-> results']
    <3>1. /\ \A m \in wire' : m \in wire \/ m = r
          /\ r.client = c /\ r.id = results'
      BY <1>2
    <3> HIDE DEF r
    <3>2. ASSUME NEW d, NEW i \in Nat, Belongs(d, i)
          PROVE  Belongs(d, i)'
      BY <1>2, <2>2, <3>2 DEF Belongs
    <3>3. ASSUME NEW m \in wire'
          PROVE  m.client \in Clients /\ m.id \in Nat /\ Belongs(m.client, m.id)'
      <4>1. CASE m = r
        BY <1>2, <2>2, <3>1, <4>1 DEF Belongs
      <4>2. CASE m \in wire
        BY <3>2, <4>2 DEF Addressed
      <4> QED
        BY <3>1, <4>1, <4>2
    <3>4. ASSUME NEW d \in Clients PROVE Belongs(d, cookie[d].id)'
      <4>1. cookie[d].id \in Nat /\ Belongs(d, cookie[d].id)
        BY DEF Addressed, FlashTyped
      <4> QED
        BY <2>1, <3>2, <4>1 DEF Belongs
    <3>5. ASSUME NEW i \in DOMAIN shown'
          PROVE  shown'[i][2] # 0 /\ Belongs(shown[i][1], shown[i][2])'
      <4>1. shown[i][2] # 0 /\ shown[i][2] \in 1..results /\ Belongs(shown[i][1], shown[i][2])
        BY <2>1 DEF Addressed, Belongs
      <4> QED
        BY <2>1, <2>2, <1>2, <4>1 DEF Belongs
    <3> QED
      BY <3>3, <3>4, <3>5 DEF Addressed
  <2>6. \A m \in wire' : IsAnswer(m) => m \in wire /\ m.id \in 1..results
    BY <1>2 DEF IsAnswer, Addressed, Belongs
  <2>7. \A i \in DOMAIN shown : shown[i][2] \in 1..results
    BY DEF Addressed, Belongs
  <2>8. InOnePlace'
    BY <1>2, <2>1, <2>2, <2>3, <2>6, <2>7 DEF InOnePlace, FlashTyped
  <2> QED
    BY <2>4, <2>5, <2>8
<1> QED
  BY <1>1, <1>2 DEF Answer

\* Requests carry the cookie of their browser.
LEMMA RequestKeeps ==
    ASSUME FlashInv, NEW m \in wire, Follow(m)
    PROVE  FlashInv'
<1> USE DEF FlashInv
<1>1. PICK home \in BOOLEAN :
         wire' = (wire \ {m}) \cup
                   {Get(m.client, home, [id |-> m.id, until |-> now + CookieLife])}
  BY DEF Follow
<1>2. /\ cookie' = [cookie EXCEPT ![m.client] = [id |-> m.id, until |-> now + CookieLife]]
      /\ UNCHANGED <<now, flashes, results, shown, owner>>
  BY DEF Follow
<1> DEFINE g == Get(m.client, home, [id |-> m.id, until |-> now + CookieLife])
<1>3. g.client = m.client /\ g.id \in {0, m.id} /\ g.kind = "get"
  BY DEF Get
<1>4. m.client \in Clients /\ m.id \in Nat /\ Belongs(m.client, m.id)
  BY DEF Addressed
<1>5. \A n \in wire' : n \in wire \/ n = g
  BY <1>1
<1> HIDE DEF g
<1>6. FlashTyped'
  BY <1>2, <1>4, LifeAssumption DEF FlashTyped
<1>7. Addressed'
  BY <1>2, <1>3, <1>4, <1>5, SMTT(20) DEF Addressed, Belongs, FlashTyped
<1>8. InOnePlace'
  BY <1>2, <1>3, <1>5 DEF InOnePlace, IsAnswer
<1> QED
  BY <1>6, <1>7, <1>8

\* Another page is asked for, with the cookie the browser has.
LEMMA VisitKeeps ==
    ASSUME FlashInv, NEW c \in Clients, Visit(c)
    PROVE  FlashInv'
<1> USE DEF FlashInv
<1>1. PICK home \in BOOLEAN : wire' = wire \cup {Get(c, home, cookie[c])}
  BY DEF Visit
<1> DEFINE g == Get(c, home, cookie[c])
<1>2. g.client = c /\ g.id \in {0, cookie[c].id} /\ g.kind = "get"
  BY DEF Get
<1>3. \A n \in wire' : n \in wire \/ n = g
  BY <1>1
<1> HIDE DEF g
<1>4. UNCHANGED <<now, cookie, flashes, results, shown, owner>>
  BY DEF Visit
<1>5. FlashTyped'
  BY <1>4 DEF FlashTyped
<1>6. Addressed'
  BY <1>2, <1>3, <1>4 DEF Addressed, Belongs, FlashTyped
<1>7. InOnePlace'
  BY <1>2, <1>3, <1>4 DEF InOnePlace, IsAnswer
<1> QED
  BY <1>5, <1>6, <1>7

\* takeFlash hands a result to one page and keeps nothing of it.
LEMMA ServeKeeps ==
    ASSUME FlashInv, NEW m \in wire, Serve(m)
    PROVE  FlashInv'
<1> USE DEF FlashInv
<1>1. UNCHANGED <<now, cookie, results, shown, owner>>
  BY DEF Serve
<1>2. CASE wire' = wire \ {m} /\ UNCHANGED flashes
  BY <1>1, <1>2 DEF FlashTyped, Addressed, Belongs, InOnePlace
<1>3. CASE TakeFlash(m)
  <2>1. flashes' = {f \in flashes : f.id # m.id}
    BY <1>3 DEF TakeFlash
  <2> DEFINE p == [kind |-> "page", client |-> m.client, cleared |-> m.id # 0,
                   id |-> IF \E f \in flashes : f.id = m.id THEN m.id ELSE 0,
                   token |-> IF Authenticated(m.client) THEN session[m.client] ELSE 0]
  <2>2. /\ wire' = (wire \ {m}) \cup {p}
        /\ p.client = m.client
        /\ p.id = IF \E f \in flashes : f.id = m.id THEN m.id ELSE 0
    BY <1>3 DEF TakeFlash
  <2> HIDE DEF p
  <2>3. \A n \in wire' : n \in wire \/ n = p
    BY <2>2
  <2>4. FlashTyped'
    BY <1>1, <2>1 DEF FlashTyped
  <2>5. Addressed'
    BY <1>1, <2>2, <2>3 DEF Addressed, Belongs
  <2>6. p.id # 0 => \E f \in flashes : f.id = p.id
    BY <2>2
  <2>7. p.id # 0 => \A f \in flashes' : f.id # p.id
    BY <2>1, <2>2
  <2>8. InOnePlace'
    BY <1>1, <2>1, <2>3, <2>6, <2>7 DEF InOnePlace, IsAnswer
  <2> QED
    BY <2>4, <2>5, <2>8
<1> QED
  BY <1>2, <1>3 DEF Serve

\* A page arrives: its result moves from the wire to the screen.
LEMMA DisplayKeeps ==
    ASSUME FlashInv, NEW m \in wire, Display(m)
    PROVE  FlashInv'
<1> USE DEF FlashInv
<1>1. /\ wire' = wire \ {m} /\ m.kind = "page"
      /\ UNCHANGED <<now, flashes, results, owner>>
      /\ cookie' \in {cookie, [cookie EXCEPT ![m.client] = NoCookie]}
      /\ shown' = IF m.id # 0 THEN Append(shown, <<m.client, m.id>>) ELSE shown
  BY DEF Display
<1>2. m.client \in Clients /\ m.id \in Nat /\ Belongs(m.client, m.id)
  BY DEF Addressed
<1>3. /\ cookie' \in [Clients -> [id : Nat, until : Nat]]
      /\ \A c \in Clients : cookie'[c].id \in {0, cookie[c].id}
  <2>1. CASE cookie' = cookie
    BY <2>1 DEF FlashTyped
  <2>2. CASE cookie' = [cookie EXCEPT ![m.client] = NoCookie]
    <3>1. NoCookie \in [id : Nat, until : Nat] /\ NoCookie.id = 0
      BY DEF NoCookie
    <3> QED
      BY <1>2, <2>2, <3>1 DEF FlashTyped
  <2> QED
    BY <1>1, <2>1, <2>2
<1>4. FlashTyped'
  <2>1. shown' \in Seq(Clients \X Nat)
    BY <1>1, <1>2, AppendProperties DEF FlashTyped
  <2> QED
    BY <1>1, <1>3, <2>1 DEF FlashTyped
<1>5. CASE m.id = 0
  BY <1>1, <1>3, <1>4, <1>5 DEF Addressed, Belongs, InOnePlace
<1>6. CASE m.id # 0
  <2>1. /\ DOMAIN shown' = 1..(Len(shown) + 1) /\ DOMAIN shown = 1..Len(shown)
        /\ Len(shown) \in Nat
        /\ shown'[Len(shown) + 1] = <<m.client, m.id>>
        /\ \A i \in 1..Len(shown) : shown'[i] = shown[i]
    BY <1>1, <1>2, <1>6 DEF FlashTyped
  <2>2. Addressed'
    <3>1. \A n \in wire' : n.client \in Clients /\ n.id \in Nat /\ Belongs(n.client, n.id)'
      BY <1>1 DEF Addressed, Belongs
    <3>2. \A c \in Clients : Belongs(c, cookie[c].id)'
      BY <1>1, <1>3 DEF Addressed, Belongs
    <3>3. ASSUME NEW i \in DOMAIN shown'
          PROVE  shown'[i][2] # 0 /\ Belongs(shown[i][1], shown[i][2])'
      <4>1. CASE i \in 1..Len(shown)
        BY <1>1, <2>1, <4>1 DEF Addressed, Belongs
      <4>2. CASE i = Len(shown) + 1
        BY <1>1, <1>2, <1>6, <2>1, <4>2 DEF Belongs
      <4> QED
        BY <2>1, <4>1, <4>2
    <3> QED
      BY <3>1, <3>2, <3>3 DEF Addressed
  <2>3. /\ \A i \in DOMAIN shown : shown[i][2] # m.id
        /\ \A n \in wire' : IsAnswer(n) => n.id # m.id
        /\ \A f \in flashes : f.id # m.id
    BY <1>1, <1>6 DEF InOnePlace, IsAnswer
  <2>4. InOnePlace'
    BY <1>1, <2>1, <2>3 DEF InOnePlace
  <2> QED
    BY <1>4, <2>2, <2>4
<1> QED
  BY <1>5, <1>6

\* A message is lost, or the panel restarts and forgets the results.
LEMMA LossKeeps ==
    ASSUME FlashInv, UNCHANGED <<now, cookie, results, shown, owner>>,
           flashes' \subseteq flashes, wire' \subseteq wire
    PROVE  FlashInv'
  BY DEF FlashInv, FlashTyped, Addressed, Belongs, InOnePlace

\* Every step of the browsers and the panel.
LEMMA FlashStep == FlashInv /\ [AccessNext]_accessVars => FlashInv'
<1> SUFFICES ASSUME FlashInv, [AccessNext]_accessVars PROVE FlashInv'
  OBVIOUS
<1>0. now \in Nat
  BY DEF FlashInv, FlashTyped
<1>1. ASSUME NEW c \in Clients,
             Login(c) \/ WrongPassword(c) \/ SignIn(c) \/ Logout(c) \/ Submit(c)
      PROVE  FlashInv'
  BY <1>0, <1>1, FlashUntouched DEF Login, WrongPassword, SignIn, Logout, Submit
<1>2. ASSUME NEW c \in Clients, Answer(c) \/ Visit(c) PROVE FlashInv'
  BY <1>2, AnswerKeeps, VisitKeeps
<1>3. CASE Scheduled \/ Record \/ ScheduledDone \/ Tick
  BY <1>0, <1>3, FlashUntouched DEF Scheduled, Record, ScheduledDone, Tick
<1>4. ASSUME NEW m \in wire, Follow(m) \/ Serve(m) \/ Display(m) PROVE FlashInv'
  BY <1>4, RequestKeeps, ServeKeeps, DisplayKeeps
<1>5. ASSUME NEW m \in wire, Lose(m) PROVE FlashInv'
  BY <1>5, LossKeeps DEF Lose
<1>6. CASE Restart
  BY <1>6, LossKeeps DEF Restart
<1>7. CASE UNCHANGED accessVars
  BY <1>0, <1>7, FlashUntouched DEF accessVars
<1> QED
  BY <1>1, <1>2, <1>3, <1>4, <1>5, <1>6, <1>7 DEF AccessNext

\* However the requests of a browser's tabs overlap and arrive, a result is shown
\* at most once and to the browser whose operation it was.
THEOREM ResultTheorem == AccessSpec => []ResultShownOnce
<1>1. FlashInv => ResultShownOnce
  BY DEF FlashInv, Addressed, Belongs, InOnePlace, ResultShownOnce
<1> QED
  BY <1>1, FlashInitially, FlashStep, PTL DEF AccessSpec

-----------------------------------------------------------------------------
(* The audit log *)

LogTyped ==
    /\ current \in Seq(Writes) /\ rotated \in Seq(Writes) /\ written \in Seq(Writes)
    /\ entry \in Nat

\* The two files hold what was written last, one after the other.
Located ==
    /\ Len(rotated) + Len(current) <= Len(written)
    /\ \A i \in 1..Len(current) : current[i] = written[Len(written) - Len(current) + i]
    /\ \A i \in 1..Len(rotated) :
          rotated[i] = written[Len(written) - Len(current) - Len(rotated) + i]

\* Together they hold enough: a rotated file was full, and there is none only
\* if the current one is full or nothing was ever dropped.
Enough ==
    /\ Len(rotated) # 0 => Len(rotated) >= LogSize
    /\ Len(rotated) = 0 => Len(current) = Len(written) \/ Len(current) >= LogSize

\* A file is rotated when it is full, and never grows beyond that.
Filled ==
    /\ Len(current) <= LogSize
    /\ appending = "write" => Len(current) < LogSize
    /\ appending \in {"remove", "rename"} => Len(current) >= LogSize

LogInv == LogTyped /\ Located /\ Enough /\ Filled

\* The log is empty at first.
LEMMA LogInitially == AccessInit => LogInv
BY LogSizeAssumption DEF AccessInit, LogInit, LogInv, LogTyped, Located, Enough, Filled

\* Where nothing of the log changes, or an Append only begins or stops.
LEMMA LogRests ==
    ASSUME LogInv, UNCHANGED <<current, rotated, written>>, entry' \in Nat,
           appending' \in {"idle", "stat"} \/ appending' = appending
    PROVE  LogInv'
<1>1. LogTyped' /\ Located' /\ Enough'
  BY DEF LogInv, LogTyped, Located, Enough
<1>2. Filled'
  BY DEF LogInv, Filled
<1> QED
  BY <1>1, <1>2 DEF LogInv

\* A write, of a line or of a part of one.
LEMMA WrittenKeeps ==
    ASSUME LogInv, appending = "write", appending' = "idle", NEW end \in Ends, Written(end),
           UNCHANGED <<rotated, entry>>
    PROVE  LogInv'
<1>1. PICK x : x = [id |-> entry, end |-> end]
  OBVIOUS
<1>2. x \in Writes
  BY <1>1 DEF LogInv, LogTyped, Writes
<1>3. /\ current \in Seq(Writes) /\ written \in Seq(Writes) /\ rotated \in Seq(Writes) /\ entry \in Nat
      /\ Len(current) \in Nat /\ Len(written) \in Nat /\ Len(rotated) \in Nat
  BY DEF LogInv, LogTyped
<1>4. current' = Append(current, x) /\ written' = Append(written, x)
  BY <1>1 DEF Written
<1>5. /\ current' \in Seq(Writes) /\ written' \in Seq(Writes)
      /\ Len(current') = Len(current) + 1 /\ Len(written') = Len(written) + 1
      /\ \A i \in 1..Len(current) : current'[i] = current[i]
      /\ \A i \in 1..Len(written) : written'[i] = written[i]
      /\ current'[Len(current) + 1] = x /\ written'[Len(written) + 1] = x
  BY <1>2, <1>3, <1>4
<1>6. LogTyped'
  BY <1>3, <1>5 DEF LogTyped
<1>7. Located'
  <2>1. Len(rotated') + Len(current') <= Len(written')
    BY <1>3, <1>5 DEF LogInv, Located
  <2>2. ASSUME NEW i \in 1..Len(current')
        PROVE  current'[i] = written'[Len(written') - Len(current') + i]
    <3>1. CASE i = Len(current) + 1
      BY <1>3, <1>5, <3>1
    <3>2. CASE i # Len(current) + 1
      <4>1. /\ i \in 1..Len(current)
            /\ Len(written') - Len(current') + i = Len(written) - Len(current) + i
            /\ Len(written) - Len(current) + i \in 1..Len(written)
        BY <1>3, <1>5, <3>2 DEF LogInv, Located
      <4>2. current[i] = written[Len(written) - Len(current) + i]
        BY <4>1 DEF LogInv, Located
      <4> QED
        BY <1>5, <4>1, <4>2
    <3> QED
      BY <3>1, <3>2
  <2>3. ASSUME NEW i \in 1..Len(rotated')
        PROVE  rotated'[i] = written'[Len(written') - Len(current') - Len(rotated') + i]
    <3>1. /\ i \in 1..Len(rotated)
          /\ Len(written') - Len(current') - Len(rotated') + i
                = Len(written) - Len(current) - Len(rotated) + i
          /\ Len(written) - Len(current) - Len(rotated) + i \in 1..Len(written)
      BY <1>3, <1>5 DEF LogInv, Located
    <3>2. rotated[i] = written[Len(written) - Len(current) - Len(rotated) + i]
      BY <3>1 DEF LogInv, Located
    <3> QED
      BY <1>5, <3>1, <3>2
  <2> QED
    BY <2>1, <2>2, <2>3 DEF Located
<1>8. Enough' /\ Filled'
  BY <1>3, <1>5, LogSizeAssumption DEF LogInv, Enough, Filled
<1> QED
  BY <1>6, <1>7, <1>8 DEF LogInv

\* Each step of Append, which may fail.
LEMMA AppendKeeps ==
    ASSUME LogInv, AppendStep
    PROVE  LogInv'
<1>1. /\ current \in Seq(Writes) /\ written \in Seq(Writes) /\ rotated \in Seq(Writes) /\ entry \in Nat
      /\ Len(current) \in Nat /\ Len(written) \in Nat /\ Len(rotated) \in Nat
  BY DEF LogInv, LogTyped
<1>2. CASE StatLog
  <2>1. LogTyped' /\ Located' /\ Enough'
    BY <1>2 DEF StatLog, LogInv, LogTyped, Located, Enough
  <2>2. Filled'
    BY <1>1, <1>2, LogSizeAssumption DEF StatLog, LogInv, Filled
  <2> QED
    BY <2>1, <2>2 DEF LogInv
<1>3. CASE RemoveRotated
  <2>1. Len(current) >= LogSize
    BY <1>3 DEF RemoveRotated, LogInv, Filled
  <2>2. CASE rotated' = <<>>
    <3>1. Len(rotated') = 0 /\ rotated' \in Seq(Writes)
      BY <2>2
    <3> QED
      BY <1>1, <1>3, <2>1, <3>1 DEF RemoveRotated, LogInv, LogTyped, Located, Enough, Filled
  <2>3. CASE rotated' = rotated
    BY <1>1, <1>3, <2>1, <2>3 DEF RemoveRotated, LogInv, LogTyped, Located, Enough, Filled
  <2> QED
    BY <1>3, <2>2, <2>3 DEF RemoveRotated
<1>4. CASE RenameLog
  <2>1. CASE rotated' = current /\ current' = <<>> /\ appending' = "write"
    <3>1. /\ Len(current) >= LogSize /\ written' = written /\ entry' = entry
          /\ Len(current') = 0 /\ current' \in Seq(Writes) /\ Len(rotated') = Len(current)
      BY <1>4, <2>1 DEF RenameLog, LogInv, Filled
    <3>2. Located'
      BY <1>1, <2>1, <3>1 DEF LogInv, Located
    <3> QED
      BY <1>1, <2>1, <3>1, <3>2, LogSizeAssumption DEF LogInv, LogTyped, Enough, Filled
  <2>2. CASE appending' = "idle" /\ UNCHANGED <<current, rotated>>
    BY <1>1, <1>4, <2>2, LogRests DEF RenameLog
  <2> QED
    BY <1>4, <2>1, <2>2 DEF RenameLog
<1>5. CASE WriteEntry
  <2>1. CASE \E end \in Ends : Written(end)
    BY <1>5, <2>1, WrittenKeeps DEF WriteEntry
  <2>2. CASE UNCHANGED <<current, written>>
    BY <1>1, <1>5, <2>2, LogRests DEF WriteEntry
  <2> QED
    BY <1>5, <2>1, <2>2 DEF WriteEntry, Ends
<1> QED
  BY <1>2, <1>3, <1>4, <1>5 DEF AppendStep

\* Every step of browsers, scheduler and panel.
LEMMA LogStep == LogInv /\ [AccessNext]_accessVars => LogInv'
<1> SUFFICES ASSUME LogInv, [AccessNext]_accessVars PROVE LogInv'
  OBVIOUS
<1>0. entry \in Nat
  BY DEF LogInv, LogTyped
<1>1. ASSUME UNCHANGED logVars
      PROVE  LogInv'
  BY <1>0, <1>1, LogRests DEF logVars
<1>2. ASSUME BeginAppend
      PROVE  LogInv'
  BY <1>0, <1>2, LogRests DEF BeginAppend
<1>3. ASSUME NEW c \in Clients,
             \/ Login(c) \/ WrongPassword(c) \/ SignIn(c) \/ Logout(c) \/ Answer(c) \/ Visit(c)
      PROVE  LogInv'
  BY <1>1, <1>3 DEF Login, WrongPassword, SignIn, Logout, Answer, Visit
<1>4. ASSUME NEW c \in Clients, Submit(c)
      PROVE  LogInv'
  BY <1>2, <1>4 DEF Submit
<1>5. CASE Scheduled
  BY <1>2, <1>5 DEF Scheduled
<1>6. CASE Record
  BY <1>6, AppendKeeps DEF Record
<1>7. ASSUME NEW m \in wire, Follow(m) \/ Serve(m) \/ Display(m) \/ Lose(m)
      PROVE  LogInv'
  BY <1>1, <1>7 DEF Follow, Serve, Display, Lose
<1>8. CASE ScheduledDone \/ Tick \/ UNCHANGED accessVars
  BY <1>1, <1>8 DEF ScheduledDone, Tick, accessVars
<1>9. CASE Restart
  <2>1. CASE UNCHANGED <<current, written>>
    BY <1>0, <1>9, <2>1, LogRests DEF Restart, CrashLog
  <2>2. CASE appending = "write" /\ \E end \in Ends : Written(end)
    BY <1>9, <2>2, WrittenKeeps DEF Restart, CrashLog
  <2> QED
    BY <1>9, <2>1, <2>2 DEF Restart, CrashLog
<1> QED
  BY <1>3, <1>4, <1>5, <1>6, <1>7, <1>8, <1>9 DEF AccessNext

\* A sequence that agrees with the end of another one, item by item, is its suffix.
LEMMA SuffixByItems ==
    ASSUME NEW S, NEW s \in Seq(S), NEW t \in Seq(S), Len(s) <= Len(t),
           \A i \in 1..Len(s) : s[i] = t[Len(t) - Len(s) + i]
    PROVE  IsSuffix(s, t)
<1> DEFINE r == Reverse(s)
           q == Reverse(t)
<1>1. Len(s) \in Nat /\ Len(t) \in Nat
  OBVIOUS
<1>2. /\ r \in Seq(S) /\ Len(r) = Len(s)
      /\ \A i \in 1..Len(s) : r[i] = s[(Len(s) - i) + 1]
  <2>1. r = [i \in 1..Len(s) |-> s[(Len(s) - i) + 1]]
    BY DEF Reverse
  <2>2. \A i \in 1..Len(s) : s[(Len(s) - i) + 1] \in S
    BY <1>1
  <2> QED
    BY <1>1, <2>1, <2>2
<1>3. /\ q \in Seq(S) /\ Len(q) = Len(t)
      /\ \A i \in 1..Len(t) : q[i] = t[(Len(t) - i) + 1]
  <2>1. q = [i \in 1..Len(t) |-> t[(Len(t) - i) + 1]]
    BY DEF Reverse
  <2>2. \A i \in 1..Len(t) : t[(Len(t) - i) + 1] \in S
    BY <1>1
  <2> QED
    BY <1>1, <2>1, <2>2
<1> HIDE DEF r, q
<1>4. ASSUME NEW i \in 1..Len(s)
      PROVE  r[i] = q[i]
  <2>1. /\ (Len(s) - i) + 1 \in 1..Len(s) /\ i \in 1..Len(t)
        /\ Len(t) - Len(s) + ((Len(s) - i) + 1) = (Len(t) - i) + 1
    BY <1>1
  <2>2. s[(Len(s) - i) + 1] = t[(Len(t) - i) + 1]
    BY <2>1
  <2> QED
    BY <1>2, <1>3, <2>1, <2>2
<1>5. SubSeq(r, 1, Len(r)) = SubSeq(q, 1, Len(r))
  <2>1. /\ SubSeq(r, 1, Len(s)) = [i \in 1..Len(s) |-> r[i]]
        /\ SubSeq(q, 1, Len(s)) = [i \in 1..Len(s) |-> q[i]]
    BY <1>1, <1>2, <1>3
  <2> QED
    BY <1>2, <1>4, <2>1
<1>6. IsPrefix(r, q)
  BY <1>2, <1>3, <1>5 DEF IsPrefix
<1> QED
  BY <1>6 DEF IsSuffix, r, q

\* The last LogSize writes, item by item.
LEMMA NewestItems ==
    ASSUME LogTyped
    PROVE  /\ Newest \in Seq(Writes)
           /\ Len(Newest) = IF Len(written) > LogSize THEN LogSize ELSE Len(written)
           /\ \A i \in 1..Len(Newest) : Newest[i] = written[Len(written) - Len(Newest) + i]
<1>1. written \in Seq(Writes) /\ Len(written) \in Nat /\ LogSize \in Nat /\ LogSize > 0
  BY LogSizeAssumption DEF LogTyped
<1>2. CASE Len(written) > LogSize
  <2>1. Newest = SubSeq(written, Len(written) - LogSize + 1, Len(written))
    BY <1>2 DEF Newest
  <2>2. \A i \in Len(written) - LogSize + 1..Len(written) : written[i] \in Writes
    BY <1>1, <1>2
  <2>3. /\ Newest \in Seq(Writes) /\ Len(Newest) = LogSize
        /\ \A i \in 1..LogSize : Newest[i] = written[(Len(written) - LogSize + 1) + i - 1]
    BY <1>1, <1>2, <2>1, <2>2
  <2>4. \A i \in 1..LogSize : (Len(written) - LogSize + 1) + i - 1 = Len(written) - LogSize + i
    BY <1>1
  <2> QED
    BY <1>2, <2>3, <2>4
<1>3. CASE ~(Len(written) > LogSize)
  <2>1. Newest = SubSeq(written, 1, Len(written))
    BY <1>3 DEF Newest
  <2>2. Newest \in Seq(Writes) /\ Len(Newest) = Len(written) /\ \A i \in 1..Len(written) : Newest[i] = written[i]
    BY <1>1, <2>1
  <2>3. \A i \in 1..Len(written) : Len(written) - Len(written) + i = i
    BY <1>1
  <2> QED
    BY <1>3, <2>2, <2>3
<1> QED
  BY <1>2, <1>3

\* NewestKept: the last LogSize writes are in the two files, in their order,
\* whichever step of a rotation fails and wherever the panel stops (log.go, Append).
THEOREM NewestKeptHolds == AccessSpec => []NewestKept
<1>1. ASSUME LogInv
      PROVE  NewestKept
  <2>1. /\ current \in Seq(Writes) /\ rotated \in Seq(Writes) /\ written \in Seq(Writes)
        /\ Len(current) \in Nat /\ Len(rotated) \in Nat /\ Len(written) \in Nat
        /\ LogSize \in Nat
    BY <1>1, LogSizeAssumption DEF LogInv, LogTyped
  <2>2. PICK f : f = rotated \o current
    OBVIOUS
  <2>3. /\ f \in Seq(Writes) /\ Len(f) = Len(rotated) + Len(current)
        /\ \A i \in 1..Len(f) : f[i] = IF i <= Len(rotated) THEN rotated[i] ELSE current[i - Len(rotated)]
    BY <2>1, <2>2
  <2>4. Len(f) <= Len(written)
    BY <1>1, <2>3 DEF LogInv, Located
  <2>5. ASSUME NEW i \in 1..Len(f)
        PROVE  f[i] = written[Len(written) - Len(f) + i]
    <3>1. CASE i <= Len(rotated)
      <4>1. i \in 1..Len(rotated) /\ f[i] = rotated[i]
        BY <2>1, <2>3, <3>1
      <4>2. rotated[i] = written[Len(written) - Len(current) - Len(rotated) + i]
        BY <1>1, <4>1 DEF LogInv, Located
      <4>3. Len(written) - Len(current) - Len(rotated) + i = Len(written) - Len(f) + i
        BY <2>1, <2>3
      <4> QED
        BY <4>1, <4>2, <4>3
    <3>2. CASE ~(i <= Len(rotated))
      <4>1. i - Len(rotated) \in 1..Len(current) /\ f[i] = current[i - Len(rotated)]
        BY <2>1, <2>3, <3>2
      <4>2. current[i - Len(rotated)] = written[Len(written) - Len(current) + (i - Len(rotated))]
        BY <1>1, <4>1 DEF LogInv, Located
      <4>3. Len(written) - Len(current) + (i - Len(rotated)) = Len(written) - Len(f) + i
        BY <2>1, <2>3
      <4> QED
        BY <4>1, <4>2, <4>3
    <3> QED
      BY <3>1, <3>2
  <2>6. /\ Newest \in Seq(Writes) /\ Len(Newest) \in Nat
        /\ Len(Newest) = IF Len(written) > LogSize THEN LogSize ELSE Len(written)
        /\ \A i \in 1..Len(Newest) : Newest[i] = written[Len(written) - Len(Newest) + i]
    BY <1>1, <2>1, NewestItems DEF LogInv
  <2>7. Len(Newest) <= Len(f)
    BY <1>1, <2>1, <2>3, <2>6 DEF LogInv, Enough
  <2>8. ASSUME NEW i \in 1..Len(Newest)
        PROVE  Newest[i] = f[Len(f) - Len(Newest) + i]
    <3>1. /\ Len(f) - Len(Newest) + i \in 1..Len(f)
          /\ Len(written) - Len(f) + (Len(f) - Len(Newest) + i) = Len(written) - Len(Newest) + i
      BY <2>1, <2>3, <2>6, <2>7
    <3> QED
      BY <2>5, <2>6, <3>1
  <2>9. IsSuffix(Newest, f)
    BY <2>3, <2>6, <2>7, <2>8, SuffixByItems
  <2> QED
    BY <2>2, <2>9 DEF NewestKept
<1> QED
  BY <1>1, LogInitially, LogStep, PTL DEF AccessSpec

\* ListRecovers: once LogSize complete lines were written after it, a fragment is
\* out of the file List reads, and the activity page shows the newest entry first.
THEOREM ListRecoversHolds == AccessSpec => []ListRecovers
<1>1. ASSUME LogInv
      PROVE  ListRecovers
  <2>1. /\ current \in Seq(Writes) /\ rotated \in Seq(Writes) /\ written \in Seq(Writes)
        /\ Len(current) \in Nat /\ Len(rotated) \in Nat /\ Len(written) \in Nat
        /\ LogSize \in Nat /\ DOMAIN current = 1..Len(current)
    BY <1>1, LogSizeAssumption DEF LogInv, LogTyped
  <2>2. /\ Newest \in Seq(Writes) /\ Len(Newest) \in Nat /\ DOMAIN Newest = 1..Len(Newest)
        /\ Len(Newest) = IF Len(written) > LogSize THEN LogSize ELSE Len(written)
        /\ \A i \in 1..Len(Newest) : Newest[i] = written[Len(written) - Len(Newest) + i]
    BY <1>1, <2>1, NewestItems DEF LogInv
  <2>3. SUFFICES ASSUME \A i \in DOMAIN Newest : Newest[i].end = "newline"
                 PROVE  /\ ~ListFails(current)
                        /\ current # <<>> => List(current)[1] = Last(written).id
    BY DEF ListRecovers
  <2>4. Len(current) <= Len(Newest)
    BY <1>1, <2>1, <2>2 DEF LogInv, Filled, Located
  <2>5. ASSUME NEW i \in 1..Len(current)
        PROVE  current[i].end = "newline"
    <3>1. /\ Len(Newest) - Len(current) + i \in 1..Len(Newest)
          /\ Len(written) - Len(Newest) + (Len(Newest) - Len(current) + i) = Len(written) - Len(current) + i
      BY <2>1, <2>2, <2>4
    <3>2. current[i] = written[Len(written) - Len(current) + i]
      BY <1>1 DEF LogInv, Located
    <3>3. current[i] = Newest[Len(Newest) - Len(current) + i]
      BY <2>2, <3>1, <3>2
    <3> QED
      BY <2>2, <2>3, <3>1, <3>3
  <2>6. ~ListFails(current)
    <3>1. SUFFICES ASSUME NEW i \in 1..Len(current)
                   PROVE  IsEntry(current, i)
      BY <2>1 DEF ListFails
    <3>2. i = 1 \/ i - 1 \in 1..Len(current)
      BY <2>1
    <3> QED
      BY <2>5, <3>2 DEF IsEntry
  <2>7. ASSUME current # <<>>
        PROVE  List(current)[1] = Last(written).id
    <3> DEFINE ids == [i \in DOMAIN current |-> current[i].id]
               n == Len(current)
               from == IF Len(ids) > ListLimit THEN Len(ids) - ListLimit ELSE 0
    <3>1. n >= 1 /\ n \in Nat
      BY <2>1, <2>7
    <3>2. ids \in Seq(Nat) /\ Len(ids) = n /\ \A i \in 1..n : ids[i] = current[i].id
      <4>1. \A i \in 1..n : current[i].id \in Nat
        <5>1. \A i \in 1..n : current[i] \in Writes
          BY <2>1
        <5>2. \A x \in Writes : x.id \in Nat
          BY DEF Writes
        <5> QED
          BY <5>1, <5>2
      <4>2. ids = [i \in 1..n |-> current[i].id]
        BY <2>1
      <4> HIDE DEF ids
      <4> QED
        BY <3>1, <4>1, <4>2
    <3>3. from \in Nat /\ from < n
      BY <3>1, <3>2, ListLimitAssumption
    <3>4. List(current) = Reverse(SubSeq(ids, from + 1, Len(ids)))
      BY <2>6 DEF List
    <3> HIDE DEF ids, n, from
    <3>5. PICK u : u = SubSeq(ids, from + 1, Len(ids))
      OBVIOUS
    <3>6. Len(u) = n - from /\ u[n - from] = ids[n]
      <4>1. u = [i \in 1..(n - (from + 1) + 1) |-> ids[(from + 1) + i - 1]]
        BY <3>1, <3>2, <3>3, <3>5
      <4>2. n - (from + 1) + 1 = n - from /\ (from + 1) + (n - from) - 1 = n /\ n - from \in 1..(n - from)
        BY <3>1, <3>3
      <4> QED
        BY <3>1, <3>3, <4>1, <4>2
    <3>7. Reverse(u)[1] = u[Len(u)]
      <4>1. Reverse(u) = [i \in 1..Len(u) |-> u[(Len(u) - i) + 1]]
        BY DEF Reverse
      <4>2. 1 \in 1..Len(u) /\ (Len(u) - 1) + 1 = Len(u)
        BY <3>1, <3>3, <3>6
      <4> QED
        BY <4>1, <4>2
    <3>8. current[n] = written[Len(written)]
      <4>1. n \in 1..Len(current) /\ Len(written) - Len(current) + n = Len(written)
        BY <2>1, <3>1 DEF n
      <4> QED
        BY <1>1, <4>1 DEF LogInv, Located
    <3>9. n \in 1..n
      BY <3>1
    <3> QED
      BY <3>2, <3>4, <3>5, <3>6, <3>7, <3>8, <3>9 DEF Last
  <2> QED
    BY <2>6, <2>7
<1> QED
  BY <1>1, LogInitially, LogStep, PTL DEF AccessSpec
=============================================================================
