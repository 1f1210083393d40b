------------------------------ MODULE AccessProofs ------------------------------
(***************************************************************************)
(* Proofs about accounts, sessions, links and their administration, for    *)
(* every set of users, requests, sessions, links and edits.  AdminSpec has *)
(* the steps of Accounts and those of UserAdmin.                           *)
(***************************************************************************)
EXTENDS UserAdmin, TLAPS

(***************************************************************************)
(* The inductive invariants.                                               *)
(***************************************************************************)

(* What a request has in hand, wherever it is; the rows it names are among these. *)
Fits(q, us, ss, ls) ==
  /\ q.at = "resolved" => q.session \in ss
  /\ q.at \in {"rehash", "verified"} =>
       q \in [at : {"rehash", "verified"}, user : us, password : Passwords]
  /\ q.at \in {"issuing", "registered"} => q.user \in us
  /\ q.at = "registering" => q.user \in Users /\ q.password \in Passwords
  /\ q.at \in {"checked", "consumed"} =>
       q \in [at : {"checked", "consumed"}, link : ls, user : us, password : Passwords]
  /\ q.at = "written" => q.user \in us /\ q.change \in Nat
  /\ q.at \in EditStates => q \in Edit /\ q.user \in us /\ q.since \subseteq us

RequestOK(q) == Fits(q, DOMAIN users, DOMAIN sessions, DOMAIN links)
OKAfter(q)   == Fits(q, DOMAIN users', DOMAIN sessions', DOMAIN links')

RequestsOK == DOMAIN req = Requests /\ \A r \in Requests : RequestOK(req[r])

(* Sessions and links are of users there are. *)
HoldersExist ==
  /\ \A s \in DOMAIN sessions : sessions[s].user \in DOMAIN users
  /\ \A l \in DOMAIN links : links[l].user \in DOMAIN users

TypeInv == AccountTypeOK /\ RequestsOK /\ HoldersExist

(* A session expires its age after it was last written to, or at its end; it was *)
(* last used then, or within the touch interval.                                 *)
Window(session) ==
  /\ session.expires = Earlier(session.lastSeen + SESSION_MAX_AGE, AbsoluteEnd(session))
  /\ session.lastSeen <= session.used
  /\ session.used <= session.lastSeen + SESSION_TOUCH_INTERVAL

WindowInv == \A s \in DOMAIN sessions : sessions[s].lastSeen <= now /\ Window(sessions[s])

(* Between the consumption of a link and the password it sets, the link is spent, *)
(* has set none, and is in no other hand.                                         *)
Consumed(r) == req[r].at = "consumed"

LinkInv ==
  /\ LinkSetsOnePassword
  /\ \A r \in Requests :
       Consumed(r) => links[req[r].link].used /\ links[req[r].link].passwords = 0
  /\ \A q, r \in Requests : q # r /\ Consumed(q) /\ Consumed(r) => req[q].link # req[r].link

(* Sessions are ended up to a change there has been, and so will they be. *)
ChangeInv ==
  /\ ChangeEndsSessions
  /\ \A u \in DOMAIN users : users[u].ended <= users[u].changes
  /\ \A r \in Requests : req[r].at = "written" => req[r].change <= users[req[r].user].changes

Edits == {r \in Requests : req[r].at \in EditStates}

(* An edit that may take an owner away leaves one, unless an edit of a user of the *)
(* tenant has been written since it has read its own.                              *)
OwnerLeft(q) ==
  /\ q.at \in {"editing", "replaced"} /\ LosesOwner(users[q.user], q.body)
  /\ \A v \in q.since : users[v].tenant # users[q.user].tenant
  => OtherOwners(q.user) # {}

(* An edit that no other of the same user has overtaken assigns what goes with the *)
(* role, and nothing beside it.                                                    *)
ScopesSettled(q) ==
  q.user \notin q.since =>
    /\ q.left = {}
    /\ isScopedRole(Given(q.body.role, users[q.user].role)) \/ Inserted(q.body) = {}

(* An edit assigns businesses of the tenant, beside no others. *)
WithinTenant(q) == q.left \cup Inserted(q.body) \subseteq OrgsOf(users[q.user].tenant)

Sound(q) == OwnerLeft(q) /\ ScopesSettled(q) /\ WithinTenant(q)

EditsSound == \A r \in Edits : Sound(req[r])

RaceInv == EditsSound /\ AssignedWithinTenant

---------------------------------------------------------------------------
(* Types *)

LEMMA NewAccountTyped ==
  ASSUME NEW t \in Tenants, NEW role \in Roles, NEW orgs \in SUBSET Orgs,
         NEW p \in Passwords \cup {None}
  PROVE  NewAccount(t, role, orgs, p) \in Account
BY DEF NewAccount, Account

LEMMA InitTypes == Init => TypeInv
<1> SUFFICES ASSUME Init PROVE TypeInv
  OBVIOUS
<1>1. DOMAIN users = Founders /\ DOMAIN sessions = {} /\ DOMAIN links = {}
  BY DEF Init
<1>2. users \in [DOMAIN users -> Account]
  <2>1. ASSUME NEW u \in Founders
        PROVE  users[u] \in Account
    <3>1. PICK t \in Tenants, p \in Passwords, o \in BOOLEAN :
            users[u] = [NewAccount(t, "OWNER", {}, p) EXCEPT !.outdated = o]
      BY <2>1 DEF Init
    <3>2. NewAccount(t, "OWNER", {}, p) \in Account
      BY NewAccountTyped DEF Roles
    <3> QED
      BY <3>1, <3>2 DEF Account
  <2> QED
    BY <2>1 DEF Init
<1>3. sessions \in [DOMAIN sessions -> Session] /\ links \in [DOMAIN links -> Link]
  BY <1>1 DEF Init
<1>4. AccountTypeOK
  BY <1>1, <1>2, <1>3, AgeAssumption, FounderAssumption DEF Init, AccountTypeOK
<1>5. RequestsOK /\ HoldersExist
  BY <1>1 DEF Init, RequestsOK, RequestOK, Fits, HoldersExist, Idle, EditStates
<1> QED
  BY <1>4, <1>5 DEF TypeInv

(* A request that goes on, while the tables keep their rows. *)
LEMMA RequestsGoOn ==
  ASSUME RequestsOK, NEW r \in Requests, NEW q, Goto(r, q),
         DOMAIN users \subseteq DOMAIN users',
         DOMAIN sessions \subseteq DOMAIN sessions',
         DOMAIN links \subseteq DOMAIN links',
         OKAfter(q)
  PROVE  RequestsOK'
BY DEF RequestsOK, RequestOK, OKAfter, Fits, Goto

LEMMA RequestsStay ==
  ASSUME RequestsOK, UNCHANGED req,
         DOMAIN users \subseteq DOMAIN users',
         DOMAIN sessions \subseteq DOMAIN sessions',
         DOMAIN links \subseteq DOMAIN links'
  PROVE  RequestsOK'
BY DEF RequestsOK, RequestOK, Fits

(* The rows of one table, while the others stand still. *)
LEMMA SessionsChange ==
  ASSUME TypeInv, UNCHANGED <<users, links, now>>,
         DOMAIN sessions \subseteq DOMAIN sessions', DOMAIN sessions' \subseteq SessionIds,
         sessions' \in [DOMAIN sessions' -> Session],
         \A s \in DOMAIN sessions' : sessions'[s].user \in DOMAIN users
  PROVE  AccountTypeOK' /\ HoldersExist'
BY DEF TypeInv, AccountTypeOK, HoldersExist

LEMMA LinksChange ==
  ASSUME TypeInv, UNCHANGED <<users, sessions, now>>,
         DOMAIN links \subseteq DOMAIN links', DOMAIN links' \subseteq LinkIds,
         links' \in [DOMAIN links' -> Link],
         \A l \in DOMAIN links' : links'[l].user \in DOMAIN users
  PROVE  AccountTypeOK' /\ HoldersExist'
BY DEF TypeInv, AccountTypeOK, HoldersExist

LEMMA UsersChange ==
  ASSUME TypeInv, UNCHANGED <<sessions, links, now>>,
         DOMAIN users \subseteq DOMAIN users', DOMAIN users' \subseteq Users,
         users' \in [DOMAIN users' -> Account]
  PROVE  AccountTypeOK' /\ HoldersExist'
BY DEF TypeInv, AccountTypeOK, HoldersExist

LEMMA OpenTyped ==
  ASSUME TypeInv, NEW u \in DOMAIN users, OpenSession(u)
  PROVE  /\ DOMAIN sessions \subseteq DOMAIN sessions' /\ DOMAIN sessions' \subseteq SessionIds
         /\ sessions' \in [DOMAIN sessions' -> Session]
         /\ \A s \in DOMAIN sessions' : sessions'[s].user \in DOMAIN users
<1> PICK s \in SessionIds \ DOMAIN sessions :
      sessions' = Put(sessions, s,
        [user |-> u, created |-> now, lastSeen |-> now, expires |-> now + SESSION_MAX_AGE,
         revoked |-> FALSE, used |-> now, change |-> users[u].changes])
  BY DEF OpenSession
<1>1. users[u] \in Account /\ now \in Nat /\ u \in Users
  BY DEF TypeInv, AccountTypeOK
<1>2. [user |-> u, created |-> now, lastSeen |-> now, expires |-> now + SESSION_MAX_AGE,
       revoked |-> FALSE, used |-> now, change |-> users[u].changes] \in Session
  BY <1>1, AgeAssumption DEF Session, Account
<1> QED
  BY <1>2 DEF Put, TypeInv, AccountTypeOK, HoldersExist

(* Signing in, registering and resolving. *)
LEMMA SessionTypes ==
  ASSUME TypeInv, NEW r \in Requests,
         (\E s \in SessionIds : Resolve(r, s)) \/ Touch(r)
  PROVE  TypeInv'
<1>1. CASE \E s \in SessionIds : Resolve(r, s)
  <2> PICK s \in SessionIds : Resolve(r, s)
    BY <1>1
  <2>1. s \in DOMAIN sessions /\ UNCHANGED <<users, links, now>>
    BY DEF Resolve, Accepted
  <2>2. CASE IsStale(sessions[s])
    <3>1. Goto(r, [at |-> "resolved", session |-> s]) /\ UNCHANGED sessions
      BY <2>2 DEF Resolve
    <3>2. OKAfter([at |-> "resolved", session |-> s])
      BY <2>1, <3>1 DEF OKAfter, Fits, EditStates
    <3>3. RequestsOK'
      BY <2>1, <3>1, <3>2, RequestsGoOn DEF TypeInv
    <3> QED
      BY <2>1, <3>1, <3>3 DEF TypeInv, AccountTypeOK, HoldersExist
  <2>3. CASE ~IsStale(sessions[s])
    <3>1. sessions' = [sessions EXCEPT ![s].used = now] /\ UNCHANGED req
      BY <2>3 DEF Resolve
    <3>2. /\ DOMAIN sessions' = DOMAIN sessions /\ sessions' \in [DOMAIN sessions' -> Session]
          /\ \A t \in DOMAIN sessions' : sessions'[t].user \in DOMAIN users
      BY <2>1, <3>1 DEF TypeInv, AccountTypeOK, HoldersExist, Session
    <3>3. AccountTypeOK' /\ HoldersExist'
      BY <2>1, <3>2, SessionsChange DEF TypeInv, AccountTypeOK
    <3> QED
      BY <2>1, <3>1, <3>2, <3>3, RequestsStay DEF TypeInv
  <2> QED
    BY <2>2, <2>3
<1>2. CASE Touch(r)
  <2>1. req[r].session \in DOMAIN sessions /\ UNCHANGED <<users, links, now>> /\ Goto(r, Idle)
    BY <1>2 DEF Touch, TypeInv, RequestsOK, RequestOK, Fits
  <2> DEFINE s == req[r].session
  <2>2. sessions' = [sessions EXCEPT ![s].lastSeen = now, ![s].used = now,
                                     ![s].expires = Slid(sessions[s])]
    BY <1>2 DEF Touch
  <2>3. now \in Nat /\ sessions[s] \in Session
    BY <2>1 DEF TypeInv, AccountTypeOK
  <2>4. Slid(sessions[s]) \in Nat
    BY <2>3, AgeAssumption DEF Slid, Earlier, AbsoluteEnd, Session
  <2>5. /\ DOMAIN sessions' = DOMAIN sessions /\ sessions' \in [DOMAIN sessions' -> Session]
        /\ \A t \in DOMAIN sessions' : sessions'[t].user \in DOMAIN users
    BY <2>1, <2>2, <2>3, <2>4 DEF TypeInv, AccountTypeOK, HoldersExist, Session
  <2>6. OKAfter(Idle)
    BY DEF OKAfter, Fits, Idle, EditStates
  <2>7. AccountTypeOK' /\ HoldersExist'
    BY <2>1, <2>5, SessionsChange DEF TypeInv, AccountTypeOK
  <2> QED
    BY <2>1, <2>5, <2>6, <2>7, RequestsGoOn DEF TypeInv
<1> QED
  BY <1>1, <1>2

(* Requests with an account, and with a link, in hand. *)
LEMMA SignInOK ==
  ASSUME NEW q, q \in [at : {"rehash", "verified"}, user : DOMAIN users', password : Passwords]
  PROVE  OKAfter(q)
BY DEF OKAfter, Fits, EditStates

LEMMA LinkOK ==
  ASSUME NEW q, q \in [at : {"checked", "consumed"}, link : DOMAIN links', user : DOMAIN users',
                       password : Passwords]
  PROVE  OKAfter(q)
BY DEF OKAfter, Fits, EditStates

LEMMA RegisteredOK ==
  ASSUME NEW u, u \in DOMAIN users'
  PROVE  OKAfter([at |-> "registered", user |-> u])
BY DEF OKAfter, Fits, EditStates

LEMMA SignInTypes ==
  ASSUME TypeInv, NEW r \in Requests,
         \/ \E u \in Users, p \in Passwords : SignInReads(r, u, p) \/ RegisterReads(r, u, p)
         \/ Rehash(r) \/ SignInOpens(r) \/ RegisterCommits(r)
  PROVE  TypeInv'
<1>0. RequestOK(req[r]) /\ RequestsOK /\ AccountTypeOK /\ HoldersExist
  BY DEF TypeInv, RequestsOK
<1>1. ASSUME NEW u \in Users, NEW p \in Passwords, SignInReads(r, u, p)
      PROVE  TypeInv'
  <2> DEFINE q == [at |-> IF needsRehash(users[u]) THEN "rehash" ELSE "verified",
                   user |-> u, password |-> p]
  <2>1. u \in DOMAIN users /\ Goto(r, q) /\ UNCHANGED <<users, sessions, links, now>>
    BY <1>1 DEF SignInReads
  <2>2. OKAfter(q)
    BY <2>1 DEF OKAfter, Fits, EditStates
  <2> QED
    BY <2>1, <2>2, RequestsGoOn DEF TypeInv, AccountTypeOK, HoldersExist
<1>2. ASSUME NEW u \in Users, NEW p \in Passwords, RegisterReads(r, u, p)
      PROVE  TypeInv'
  <2> DEFINE q == [at |-> "registering", user |-> u, password |-> p]
  <2>1. Goto(r, q) /\ UNCHANGED <<users, sessions, links, now>>
    BY <1>2 DEF RegisterReads
  <2>2. OKAfter(q)
    BY <2>1 DEF OKAfter, Fits, EditStates
  <2> QED
    BY <2>1, <2>2, RequestsGoOn DEF TypeInv, AccountTypeOK, HoldersExist
<1>3. ASSUME Rehash(r)
      PROVE  TypeInv'
  <2>1. /\ req[r].user \in DOMAIN users /\ req[r].password \in Passwords
        /\ req[r] \in [at : {"rehash", "verified"}, user : DOMAIN users, password : Passwords]
    BY <1>0, <1>3 DEF Rehash, RequestOK, Fits
  <2> DEFINE q == [req[r] EXCEPT !.at = "verified"]
  <2>2. Goto(r, q) /\ UNCHANGED <<sessions, links, now>>
    BY <1>3 DEF Rehash
  <2>3. DOMAIN users' = DOMAIN users /\ users' \in [DOMAIN users' -> Account]
    BY <1>0, <1>3, <2>1 DEF Rehash, AccountTypeOK, Account
  <2>4. OKAfter(q)
    <3>1. q \in [at : {"rehash", "verified"}, user : DOMAIN users', password : Passwords]
      BY <2>1, <2>3
    <3> QED
      BY <3>1, SignInOK
  <2>5. AccountTypeOK' /\ HoldersExist'
    BY <1>0, <2>2, <2>3, UsersChange DEF AccountTypeOK
  <2> QED
    BY <1>0, <2>2, <2>3, <2>4, <2>5, RequestsGoOn DEF TypeInv
<1>4. ASSUME SignInOpens(r)
      PROVE  TypeInv'
  <2>1. req[r].user \in DOMAIN users
    BY <1>0, <1>4 DEF SignInOpens, RequestOK, Fits
  <2>2. OpenSession(req[r].user) /\ Goto(r, Idle) /\ UNCHANGED <<users, links, now>>
    BY <1>4 DEF SignInOpens
  <2>3. OKAfter(Idle)
    BY DEF OKAfter, Fits, Idle, EditStates
  <2>4. AccountTypeOK' /\ HoldersExist' /\ DOMAIN sessions \subseteq DOMAIN sessions'
    BY <2>1, <2>2, OpenTyped, SessionsChange
  <2> QED
    BY <1>0, <2>2, <2>3, <2>4, RequestsGoOn DEF TypeInv
<1>5. ASSUME RegisterCommits(r)
      PROVE  TypeInv'
  <2> DEFINE u == req[r].user
  <2>1. u \in Users /\ req[r].password \in Passwords /\ UNCHANGED <<sessions, links, now>>
    BY <1>0, <1>5 DEF RegisterCommits, RequestOK, Fits
  <2>2. CASE u \in DOMAIN users
    <3>1. UNCHANGED users /\ Goto(r, Idle)
      BY <1>5, <2>2 DEF RegisterCommits
    <3>2. OKAfter(Idle)
      BY DEF OKAfter, Fits, Idle, EditStates
    <3> QED
      BY <1>0, <2>1, <3>1, <3>2, RequestsGoOn DEF TypeInv, AccountTypeOK, HoldersExist
  <2>3. CASE u \notin DOMAIN users
    <3>1. PICK t \in FreeTenants :
            users' = Put(users, u, NewAccount(t, "OWNER", {}, req[r].password))
      BY <1>5, <2>3 DEF RegisterCommits
    <3>2. Goto(r, [at |-> "registered", user |-> u])
      BY <1>5, <2>3 DEF RegisterCommits
    <3>3. NewAccount(t, "OWNER", {}, req[r].password) \in Account
      BY <2>1, NewAccountTyped DEF FreeTenants, Roles
    <3>4. /\ DOMAIN users' = DOMAIN users \cup {u}
          /\ users' \in [DOMAIN users' -> Account]
      BY <1>0, <3>1, <3>3 DEF Put, AccountTypeOK
    <3>5. AccountTypeOK' /\ HoldersExist'
      BY <1>0, <2>1, <3>4, UsersChange DEF AccountTypeOK
    <3>6. OKAfter([at |-> "registered", user |-> u])
      BY <3>4, RegisteredOK
    <3> QED
      BY <1>0, <2>1, <3>2, <3>4, <3>5, <3>6, RequestsGoOn DEF TypeInv
  <2> QED
    BY <2>2, <2>3
<1> QED
  BY <1>1, <1>2, <1>3, <1>4, <1>5

LEMMA NewLinkTyped ==
  ASSUME TypeInv, NEW u \in DOMAIN users, NEW purpose \in {"INVITATION", "PASSWORD_RESET"},
         NEW l \in LinkIds, links' = Put(links, l, NewLink(u, purpose))
  PROVE  /\ DOMAIN links \subseteq DOMAIN links' /\ DOMAIN links' \subseteq LinkIds
         /\ links' \in [DOMAIN links' -> Link]
         /\ \A k \in DOMAIN links' : links'[k].user \in DOMAIN users
<1>1. NewLink(u, purpose) \in Link /\ NewLink(u, purpose).user = u
  BY AgeAssumption DEF NewLink, Link, ttlFor, TypeInv, AccountTypeOK
<1> QED
  BY <1>1 DEF Put, TypeInv, AccountTypeOK, HoldersExist

(* A link that is consumed stays the same link. *)
LEMMA LinkSpent ==
  ASSUME NEW link \in Link
  PROVE  /\ [link EXCEPT !.used = TRUE] \in Link
         /\ [link EXCEPT !.used = TRUE].user = link.user
BY DEF Link

(* Asking for a link and setting a password with it. *)
LEMMA LinkTypes ==
  ASSUME TypeInv, NEW r \in Requests,
         \/ \E u \in Users : RequestReset(r, u)
         \/ CreateLink(r)
         \/ \E l \in LinkIds, p \in Passwords : SetChecks(r, l, p)
         \/ consumeCredentialToken(r)
  PROVE  TypeInv'
<1>0. RequestOK(req[r]) /\ RequestsOK /\ AccountTypeOK /\ HoldersExist
  BY DEF TypeInv, RequestsOK
<1>i. OKAfter(Idle)
  BY DEF OKAfter, Fits, Idle, EditStates
<1>1. ASSUME NEW u \in Users, RequestReset(r, u)
      PROVE  TypeInv'
  <2> DEFINE q == [at |-> "issuing", user |-> u]
  <2>1. u \in DOMAIN users /\ Goto(r, q) /\ UNCHANGED <<users, sessions, now>>
    BY <1>1 DEF RequestReset
  <2>2. /\ DOMAIN links' = DOMAIN links /\ links' \in [DOMAIN links' -> Link]
        /\ \A l \in DOMAIN links' : links'[l].user \in DOMAIN users
    <3>1. ASSUME NEW l \in DOMAIN links
          PROVE  [links[l] EXCEPT !.superseded = TRUE] \in Link
                 /\ [links[l] EXCEPT !.superseded = TRUE].user = links[l].user
      BY <1>0 DEF AccountTypeOK, Link
    <3> QED
      BY <1>0, <1>1, <3>1 DEF RequestReset, AccountTypeOK, HoldersExist
  <2>3. AccountTypeOK' /\ HoldersExist'
    BY <1>0, <2>1, <2>2, LinksChange DEF AccountTypeOK
  <2>4. OKAfter(q)
    BY <2>1 DEF OKAfter, Fits, EditStates
  <2> QED
    BY <1>0, <2>1, <2>2, <2>3, <2>4, RequestsGoOn DEF TypeInv
<1>2. ASSUME CreateLink(r)
      PROVE  TypeInv'
  <2>1. PICK l \in LinkIds : links' = Put(links, l, NewLink(req[r].user, "PASSWORD_RESET"))
    BY <1>2 DEF CreateLink
  <2>2. req[r].user \in DOMAIN users /\ Goto(r, Idle) /\ UNCHANGED <<users, sessions, now>>
    BY <1>0, <1>2 DEF CreateLink, RequestOK, Fits
  <2>3. AccountTypeOK' /\ HoldersExist' /\ DOMAIN links \subseteq DOMAIN links'
    BY <2>1, <2>2, NewLinkTyped, LinksChange
  <2> QED
    BY <1>0, <1>i, <2>2, <2>3, RequestsGoOn DEF TypeInv
<1>3. ASSUME NEW l \in LinkIds, NEW p \in Passwords, SetChecks(r, l, p)
      PROVE  TypeInv'
  <2> DEFINE q == [at |-> "checked", link |-> l, user |-> links[l].user, password |-> p]
  <2>1. l \in DOMAIN links /\ Goto(r, q) /\ UNCHANGED <<users, sessions, links, now>>
    BY <1>3 DEF SetChecks, checkCredentialToken
  <2>2. OKAfter(q)
    BY <1>0, <2>1 DEF OKAfter, Fits, EditStates, HoldersExist
  <2> QED
    BY <1>0, <2>1, <2>2, RequestsGoOn DEF TypeInv, AccountTypeOK, HoldersExist
<1>4. ASSUME consumeCredentialToken(r)
      PROVE  TypeInv'
  <2> DEFINE l == req[r].link
             q == [req[r] EXCEPT !.at = "consumed"]
  <2>1. /\ UNCHANGED <<users, sessions, now>>
        /\ req[r] \in [at : {"checked", "consumed"}, link : DOMAIN links, user : DOMAIN users,
                       password : Passwords]
    BY <1>0, <1>4 DEF consumeCredentialToken, RequestOK, Fits
  <2>2. CASE Consumable(links[l])
    <3>1. links' = [links EXCEPT ![l].used = TRUE] /\ Goto(r, q)
      BY <1>4, <2>2 DEF consumeCredentialToken
    <3>2. /\ DOMAIN links' = DOMAIN links /\ links' \in [DOMAIN links' -> Link]
          /\ \A k \in DOMAIN links' : links'[k].user \in DOMAIN users
      <4>1. l \in DOMAIN links /\ links[l] \in Link
        BY <1>0, <2>1 DEF AccountTypeOK
      <4>2. /\ [links[l] EXCEPT !.used = TRUE] \in Link
            /\ [links[l] EXCEPT !.used = TRUE].user = links[l].user
        BY <4>1, LinkSpent
      <4> QED
        BY <1>0, <3>1, <4>1, <4>2 DEF AccountTypeOK, HoldersExist
    <3>3. AccountTypeOK' /\ HoldersExist'
      BY <1>0, <2>1, <3>2, LinksChange DEF AccountTypeOK
    <3>4. OKAfter(q)
      <4>1. q \in [at : {"checked", "consumed"}, link : DOMAIN links', user : DOMAIN users',
                   password : Passwords]
        BY <2>1, <3>2
      <4> QED
        BY <4>1, LinkOK
    <3> QED
      BY <1>0, <2>1, <3>1, <3>2, <3>3, <3>4, RequestsGoOn DEF TypeInv
  <2>3. CASE ~Consumable(links[l])
    <3>1. UNCHANGED links /\ Goto(r, Idle)
      BY <1>4, <2>3 DEF consumeCredentialToken
    <3> QED
      BY <1>0, <1>i, <2>1, <3>1, RequestsGoOn DEF TypeInv, AccountTypeOK, HoldersExist
  <2> QED
    BY <2>2, <2>3
<1> QED
  BY <1>1, <1>2, <1>3, <1>4

(* Setting the password, ending sessions, giving up. *)
LEMMA SetTypes ==
  ASSUME TypeInv, NEW r \in Requests, SetWrites(r) \/ ChangeRevokes(r) \/ RequestDies(r)
  PROVE  TypeInv'
<1>0. RequestOK(req[r]) /\ RequestsOK /\ AccountTypeOK /\ HoldersExist
  BY DEF TypeInv, RequestsOK
<1>i. OKAfter(Idle)
  BY DEF OKAfter, Fits, Idle, EditStates
<1>1. ASSUME SetWrites(r)
      PROVE  TypeInv'
  <2> DEFINE u == req[r].user
             l == req[r].link
             q == [at |-> "written", user |-> u, change |-> users[u].changes + 1]
  <2>1. u \in DOMAIN users /\ l \in DOMAIN links /\ req[r].password \in Passwords
    BY <1>0, <1>1 DEF SetWrites, RequestOK, Fits
  <2>2. /\ users' = [users EXCEPT ![u] = [Changed(users[u]) EXCEPT !.password = req[r].password,
                                                                   !.outdated = FALSE]]
        /\ links' = [links EXCEPT ![l].passwords = @ + 1]
        /\ Goto(r, q) /\ UNCHANGED <<sessions, now>>
    BY <1>1 DEF SetWrites
  <2>3. users[u] \in Account /\ links[l] \in Link
    BY <1>0, <2>1 DEF AccountTypeOK
  <2>4. [Changed(users[u]) EXCEPT !.password = req[r].password, !.outdated = FALSE] \in Account
    <3>1. Changed(users[u]) \in Account
      BY <2>3 DEF Changed, Account
    <3> QED
      BY <2>1, <3>1 DEF Account
  <2>5. DOMAIN users' = DOMAIN users /\ users' \in [DOMAIN users' -> Account]
    BY <1>0, <2>1, <2>2, <2>4 DEF AccountTypeOK
  <2>6. /\ [links[l] EXCEPT !.passwords = @ + 1] \in Link
        /\ [links[l] EXCEPT !.passwords = @ + 1].user = links[l].user
    BY <2>3 DEF Link
  <2>7. /\ DOMAIN links' = DOMAIN links /\ links' \in [DOMAIN links' -> Link]
        /\ \A k \in DOMAIN links' : links'[k].user \in DOMAIN users
    BY <1>0, <2>1, <2>2, <2>6 DEF AccountTypeOK, HoldersExist
  <2>8. users[u].changes + 1 \in Nat
    BY <2>3 DEF Account
  <2>9. OKAfter(q)
    BY <2>1, <2>5, <2>8 DEF OKAfter, Fits, EditStates
  <2>10. AccountTypeOK' /\ HoldersExist'
    BY <1>0, <2>2, <2>5, <2>7 DEF AccountTypeOK, HoldersExist
  <2> QED
    BY <1>0, <2>2, <2>5, <2>7, <2>9, <2>10, RequestsGoOn DEF TypeInv
<1>2. ASSUME ChangeRevokes(r)
      PROVE  TypeInv'
  <2> DEFINE u == req[r].user
  <2>1. u \in DOMAIN users /\ req[r].change \in Nat
    BY <1>0, <1>2 DEF ChangeRevokes, RequestOK, Fits, EditStates
  <2>2. /\ revokeAllSessions(u) /\ Goto(r, Idle) /\ UNCHANGED <<links, now>>
        /\ users' = [users EXCEPT ![u].ended = Later(users[u].ended, req[r].change)]
    BY <1>2 DEF ChangeRevokes
  <2>3. users[u] \in Account
    BY <1>0, <2>1 DEF AccountTypeOK
  <2>4. [users[u] EXCEPT !.ended = Later(users[u].ended, req[r].change)] \in Account
    BY <2>1, <2>3 DEF Account, Later
  <2>5. DOMAIN users' = DOMAIN users /\ users' \in [DOMAIN users' -> Account]
    BY <1>0, <2>1, <2>2, <2>4 DEF AccountTypeOK
  <2>6. ASSUME NEW s \in DOMAIN sessions
        PROVE  /\ [sessions[s] EXCEPT !.revoked = TRUE] \in Session
               /\ [sessions[s] EXCEPT !.revoked = TRUE].user = sessions[s].user
    BY <1>0 DEF AccountTypeOK, Session
  <2>7. /\ DOMAIN sessions' = DOMAIN sessions /\ sessions' \in [DOMAIN sessions' -> Session]
        /\ \A s \in DOMAIN sessions' : sessions'[s].user \in DOMAIN users
    BY <1>0, <2>2, <2>6 DEF revokeAllSessions, AccountTypeOK, HoldersExist
  <2>8. AccountTypeOK' /\ HoldersExist'
    BY <1>0, <2>2, <2>5, <2>7 DEF AccountTypeOK, HoldersExist
  <2> QED
    BY <1>0, <1>i, <2>2, <2>5, <2>7, <2>8, RequestsGoOn DEF TypeInv
<1>3. ASSUME RequestDies(r)
      PROVE  TypeInv'
  <2>1. Goto(r, Idle) /\ UNCHANGED <<users, sessions, links, now>>
    BY <1>3 DEF RequestDies
  <2> QED
    BY <1>0, <1>i, <2>1, RequestsGoOn DEF TypeInv, AccountTypeOK, HoldersExist
<1> QED
  BY <1>1, <1>2, <1>3

(* Editing an account.  An edit goes on or is over, and writes nothing. *)
EditGoesOn(r) == EditCounts(r) \/ EditReplaces(r) \/ EditCollides(r)

(* q is the same edit, later. *)
SameEdit(q, edit) ==
  /\ q \in Edit /\ q.user = edit.user /\ q.body = edit.body
  /\ q.left = edit.left /\ q.since = edit.since

LEMMA EditInHand ==
  ASSUME TypeInv, NEW r \in Requests, EditGoesOn(r) \/ EditWrites(r)
  PROVE  /\ req[r].at \in EditStates /\ req[r] \in Edit
         /\ req[r].user \in DOMAIN users /\ req[r].since \subseteq DOMAIN users
<1>1. req[r].at \in EditStates
  BY DEF EditGoesOn, EditCounts, EditReplaces, EditCollides, EditWrites, EditStates
<1> QED
  BY <1>1 DEF TypeInv, RequestsOK, RequestOK, Fits

LEMMA EditGoes ==
  ASSUME TypeInv, NEW r \in Requests, EditGoesOn(r)
  PROVE  /\ UNCHANGED <<users, sessions, links, now>>
         /\ \/ Goto(r, Idle)
            \/ \E q : /\ Goto(r, q) /\ SameEdit(q, req[r])
                      /\ \/ q.at = "editing" /\ OtherOwners(req[r].user) # {}
                         \/ q.at = "replaced" /\ req[r].at = "editing"
<1>1. req[r] \in Edit
  BY EditInHand
<1>2. CASE EditCounts(r)
  <2> DEFINE q == [req[r] EXCEPT !.at = "editing"]
  <2>1. SameEdit(q, req[r]) /\ q.at = "editing"
    BY <1>1 DEF SameEdit, Edit, EditStates
  <2> HIDE DEF q
  <2>2. Goto(r, Idle) \/ (Goto(r, q) /\ OtherOwners(req[r].user) # {})
    BY <1>2 DEF EditCounts, q
  <2> QED
    BY <1>2, <2>1, <2>2 DEF EditCounts
<1>3. CASE EditReplaces(r)
  <2> DEFINE q == [req[r] EXCEPT !.at = "replaced"]
  <2>1. SameEdit(q, req[r]) /\ q.at = "replaced"
    BY <1>1 DEF SameEdit, Edit, EditStates
  <2> HIDE DEF q
  <2>2. Goto(r, q) /\ req[r].at = "editing"
    BY <1>3 DEF EditReplaces, q
  <2> QED
    BY <1>3, <2>1, <2>2 DEF EditReplaces
<1>4. CASE EditCollides(r)
  BY <1>4 DEF EditCollides
<1> QED
  BY <1>2, <1>3, <1>4 DEF EditGoesOn

LEMMA InsertedTyped ==
  ASSUME NEW body \in Body
  PROVE  Inserted(body) \in SUBSET Orgs
BY DEF Body, Inserted, Given

(* What becomes of the other edits when one is written. *)
LEMMA OthersOvertaken ==
  ASSUME NEW q \in Edit, NEW edit \in Edit
  PROVE  LET next == Overtaken(q, edit)
         IN /\ next \in Edit /\ next.at = q.at /\ next.user = q.user /\ next.body = q.body
            /\ next.since = q.since \cup {edit.user}
            /\ next.left \subseteq q.left \cup Inserted(edit.body)
            /\ q.user # edit.user => next.left = q.left
<1> DEFINE left == IF q.at = "replaced" /\ q.user = edit.user /\ Replaces(edit.body)
                   THEN (q.left \cap edit.left) \cup Inserted(edit.body) ELSE q.left
           next == [q EXCEPT !.since = q.since \cup {edit.user}, !.left = left]
<1>1. Inserted(edit.body) \in SUBSET Orgs
  BY InsertedTyped DEF Edit
<1>2. /\ left \in SUBSET Orgs /\ left \subseteq q.left \cup Inserted(edit.body)
      /\ q.user # edit.user => left = q.left
  BY <1>1 DEF Edit
<1>3. q.since \cup {edit.user} \in SUBSET Users
  BY DEF Edit
<1>4. Overtaken(q, edit) = next
  BY DEF Overtaken, Edit
<1> HIDE DEF left
<1>5. /\ next \in Edit /\ next.at = q.at /\ next.user = q.user /\ next.body = q.body
      /\ next.since = q.since \cup {edit.user} /\ next.left = left
  BY <1>2, <1>3 DEF Edit
<1> QED
  BY <1>2, <1>4, <1>5

LEMMA EditWritten ==
  ASSUME TypeInv, NEW r \in Requests, EditWrites(r)
  PROVE  /\ DOMAIN req' = Requests /\ UNCHANGED <<sessions, links, now>>
         /\ req[r].at = "replaced"
         /\ req'[r] = [at |-> "written", user |-> req[r].user,
                       change |-> users[req[r].user].changes + 1]
         /\ \A q \in Requests \ {r} :
              /\ req[q].at \notin EditStates => req'[q] = req[q]
              /\ req[q].at \in EditStates =>
                   /\ req[q] \in Edit /\ req'[q] \in Edit
                   /\ req'[q].at = req[q].at /\ req'[q].user = req[q].user
                   /\ req'[q].body = req[q].body
                   /\ req'[q].since = req[q].since \cup {req[r].user}
                   /\ req'[q].left \subseteq req[q].left \cup Inserted(req[r].body)
                   /\ req[q].user # req[r].user => req'[q].left = req[q].left
<1>1. req[r] \in Edit
  BY EditInHand
<1>2. /\ req[r].at = "replaced" /\ UNCHANGED <<sessions, links, now>>
      /\ req' = [q \in Requests |->
                   IF q = r THEN [at |-> "written", user |-> req[r].user,
                                  change |-> users[req[r].user].changes + 1]
                   ELSE Overtaken(req[q], req[r])]
  BY DEF EditWrites
<1>3. ASSUME NEW q \in Requests \ {r}, req[q].at \in EditStates
      PROVE  req[q] \in Edit
  BY <1>3 DEF TypeInv, RequestsOK, RequestOK, Fits
<1>4. \A q \in Requests \ {r} : req'[q] = Overtaken(req[q], req[r])
  BY <1>2
<1>5. \A q \in Requests \ {r} : req[q].at \notin EditStates => req'[q] = req[q]
  BY <1>4 DEF Overtaken
<1> QED
  BY <1>1, <1>2, <1>3, <1>4, <1>5, OthersOvertaken

LEMMA WritesOnce ==
  ASSUME TypeInv, NEW r \in Requests, EditWrites(r)
  PROVE  /\ req[r].at = "replaced" /\ req'[r].at = "written"
         /\ req'[r].user = req[r].user /\ req'[r].change = users[req[r].user].changes + 1
<1>1. req'[r] = [at |-> "written", user |-> req[r].user,
                 change |-> users[req[r].user].changes + 1]
  BY EditWritten
<1> QED
  BY <1>1, EditWritten

LEMMA UserWritten ==
  ASSUME TypeInv, NEW r \in Requests, EditWrites(r)
  PROVE  \E account \in Account :
           /\ users' = [users EXCEPT ![req[r].user] = account]
           /\ account.tenant = users[req[r].user].tenant
           /\ account.role = Given(req[r].body.role, users[req[r].user].role)
           /\ account.disabled = Given(req[r].body.disabled, users[req[r].user].disabled)
           /\ account.scopes = ScopesAfter(users[req[r].user], req[r])
           /\ account.changes = users[req[r].user].changes + 1
           /\ account.ended = users[req[r].user].ended
<1> DEFINE u == req[r].user
           body == req[r].body
           row == [Changed(users[u]) EXCEPT !.role = Given(body.role, @),
                                            !.disabled = Given(body.disabled, @),
                                            !.scopes = ScopesAfter(users[u], req[r])]
<1>1. u \in DOMAIN users /\ body \in Body /\ req[r].left \in SUBSET Orgs
  BY EditInHand DEF Edit
<1>2. users' = [users EXCEPT ![u] = row]
  BY DEF EditWrites
<1>3. users[u] \in Account
  BY <1>1 DEF TypeInv, AccountTypeOK
<1>4. /\ body.role \in Roles \cup {Kept} /\ body.disabled \in BOOLEAN \cup {Kept}
      /\ users[u].role \in Roles /\ users[u].disabled \in BOOLEAN
      /\ users[u].scopes \in SUBSET Orgs
  BY <1>1, <1>3 DEF Body, Account
<1>5. Given(body.role, users[u].role) \in Roles
  BY <1>4 DEF Given
<1>6. Given(body.disabled, users[u].disabled) \in BOOLEAN
  BY <1>4, Zenon DEF Given
<1>7. ScopesAfter(users[u], req[r]) \in SUBSET Orgs
  BY <1>1, <1>4, InsertedTyped DEF ScopesAfter
<1> HIDE DEF u, body
<1>8. /\ row \in Account /\ row.tenant = users[u].tenant
      /\ row.role = Given(body.role, users[u].role)
      /\ row.disabled = Given(body.disabled, users[u].disabled)
      /\ row.scopes = ScopesAfter(users[u], req[r])
      /\ row.changes = users[u].changes + 1 /\ row.ended = users[u].ended
  <2> DEFINE changed == Changed(users[u])
  <2>1. /\ changed \in Account /\ changed.tenant = users[u].tenant
        /\ changed.role = users[u].role /\ changed.disabled = users[u].disabled
        /\ changed.changes = users[u].changes + 1 /\ changed.ended = users[u].ended
    BY <1>3 DEF Changed, Account
  <2>2. row = [changed EXCEPT !.role = Given(body.role, users[u].role),
                              !.disabled = Given(body.disabled, users[u].disabled),
                              !.scopes = ScopesAfter(users[u], req[r])]
    BY <2>1 DEF Account
  <2> HIDE DEF changed
  <2> QED
    BY <1>5, <1>6, <1>7, <2>1, <2>2 DEF Account
<1> HIDE DEF row
<1> QED
  BY <1>2, <1>8 DEF u, body

LEMMA EditTypes ==
  ASSUME TypeInv, NEW r \in Requests, EditStep(r)
  PROVE  TypeInv'
<1>0. RequestOK(req[r]) /\ RequestsOK /\ AccountTypeOK /\ HoldersExist
  BY DEF TypeInv, RequestsOK
<1>i. OKAfter(Idle)
  BY DEF OKAfter, Fits, Idle, EditStates
<1>1. ASSUME NEW s \in SessionIds, NEW u \in Users, NEW body \in Bodies, EditReads(r, s, u, body)
      PROVE  TypeInv'
  <2> DEFINE orgs == IF body.orgs = Kept THEN Kept
                     ELSE Assigned(Given(body.role, users[u].role), body.orgs)
             at == IF LosesOwner(users[u], body) THEN "counting" ELSE "editing"
             q == [at |-> at, user |-> u, body |-> [body EXCEPT !.orgs = orgs],
                   left |-> {}, since |-> {}]
  <2>1. u \in DOMAIN users /\ Goto(r, q) /\ UNCHANGED <<users, sessions, links, now>>
    BY <1>1 DEF EditReads
  <2>2. body \in Body
    BY EditAssumption
  <2>3. orgs \in (SUBSET Orgs) \cup {Kept}
    BY <2>2 DEF Body, Assigned
  <2>4. [body EXCEPT !.orgs = orgs] \in Body
    BY <2>2, <2>3 DEF Body
  <2>5. at \in EditStates
    BY DEF EditStates
  <2> HIDE DEF orgs, at
  <2>6. q \in Edit /\ q.user = u /\ q.since = {} /\ q.at = at
    BY <2>4, <2>5 DEF Edit
  <2>7. OKAfter(q)
    BY <2>1, <2>5, <2>6 DEF OKAfter, Fits, EditStates
  <2> QED
    BY <1>0, <2>1, <2>7, RequestsGoOn DEF TypeInv, AccountTypeOK, HoldersExist
<1>2. ASSUME EditGoesOn(r)
      PROVE  TypeInv'
  <2>1. UNCHANGED <<users, sessions, links, now>>
    BY <1>2, EditGoes
  <2>2. CASE Goto(r, Idle)
    BY <1>0, <1>i, <2>1, <2>2, RequestsGoOn DEF TypeInv, AccountTypeOK, HoldersExist
  <2>3. ASSUME NEW q, Goto(r, q), SameEdit(q, req[r])
        PROVE  TypeInv'
    <3>1. q.at \in EditStates /\ q \in Edit /\ q.user \in DOMAIN users /\ q.since \subseteq DOMAIN users
      BY <1>2, <2>3, EditInHand DEF SameEdit, Edit
    <3>2. OKAfter(q)
      BY <2>1, <3>1 DEF OKAfter, Fits, EditStates
    <3> QED
      BY <1>0, <2>1, <2>3, <3>2, RequestsGoOn DEF TypeInv, AccountTypeOK, HoldersExist
  <2> QED
    BY <1>2, <2>2, <2>3, EditGoes
<1>3. ASSUME EditWrites(r)
      PROVE  TypeInv'
  <2>1. /\ req[r] \in Edit /\ req[r].user \in DOMAIN users /\ users[req[r].user] \in Account
    BY <1>0, <1>3, EditInHand DEF AccountTypeOK
  <2>2. DOMAIN users' = DOMAIN users /\ users' \in [DOMAIN users' -> Account]
    BY <1>0, <1>3, <2>1, UserWritten DEF AccountTypeOK
  <2>3. UNCHANGED <<sessions, links, now>> /\ DOMAIN req' = Requests
    BY <1>3, EditWritten
  <2>4. AccountTypeOK' /\ HoldersExist'
    BY <1>0, <2>2, <2>3, UsersChange DEF AccountTypeOK
  <2>5. ASSUME NEW q \in Requests
        PROVE  RequestOK(req[q])'
    <3>1. CASE q = r
      <4>1. /\ req'[q].at = "written" /\ req'[q].user = req[r].user
            /\ req'[q].change = users[req[r].user].changes + 1
        BY <1>3, <3>1, WritesOnce
      <4>2. req'[q].user \in DOMAIN users' /\ req'[q].change \in Nat
        BY <2>1, <2>2, <4>1 DEF Account
      <4> QED
        BY <4>1, <4>2 DEF RequestOK, Fits, EditStates
    <3>2. CASE q # r /\ req[q].at \notin EditStates
      <4>1. req'[q] = req[q]
        BY <1>3, <3>2, EditWritten
      <4> QED
        BY <1>0, <2>2, <2>3, <4>1 DEF RequestsOK, RequestOK, Fits
    <3>3. CASE q # r /\ req[q].at \in EditStates
      <4>1. /\ req'[q] \in Edit /\ req'[q].at \in EditStates /\ req'[q].user = req[q].user
            /\ req'[q].since = req[q].since \cup {req[r].user}
        BY <1>3, <3>3, EditWritten
      <4>2. req[q].user \in DOMAIN users /\ req[q].since \subseteq DOMAIN users
        BY <1>0, <3>3 DEF RequestsOK, RequestOK, Fits
      <4> QED
        BY <2>1, <2>2, <4>1, <4>2 DEF RequestOK, Fits, EditStates
    <3> QED
      BY <3>1, <3>2, <3>3
  <2> QED
    BY <2>3, <2>4, <2>5 DEF TypeInv, RequestsOK
<1> QED
  BY <1>1, <1>2, <1>3 DEF EditStep, EditGoesOn

LEMMA CreateTypes ==
  ASSUME TypeInv, NEW s \in SessionIds, NEW u \in Users, NEW role \in Roles,
         NEW orgs \in SUBSET Orgs, CreateUser(s, u, role, orgs)
  PROVE  TypeInv'
<1> DEFINE tenant == users[sessions[s].user].tenant
<1>1. s \in DOMAIN sessions /\ UNCHANGED <<sessions, req, now>>
  BY DEF CreateUser, MayManageUsers, Accepted
<1>2. tenant \in Tenants /\ Assigned(role, orgs) \in SUBSET Orgs
  BY <1>1 DEF TypeInv, AccountTypeOK, HoldersExist, Account, Assigned
<1>3. PICK p \in Passwords \cup {None} :
        /\ users' = Put(users, u, NewAccount(tenant, role, Assigned(role, orgs), p))
        /\ \/ UNCHANGED links
           \/ \E l \in LinkIds : links' = Put(links, l, NewLink(u, "INVITATION"))
  BY DEF CreateUser
<1>4. NewAccount(tenant, role, Assigned(role, orgs), p) \in Account
  BY <1>2, NewAccountTyped
<1>5. /\ DOMAIN users' = DOMAIN users \cup {u} /\ DOMAIN users' \subseteq Users
      /\ users' \in [DOMAIN users' -> Account]
  BY <1>3, <1>4 DEF Put, TypeInv, AccountTypeOK
<1>6. NewLink(u, "INVITATION") \in Link /\ NewLink(u, "INVITATION").user = u
  BY AgeAssumption DEF NewLink, Link, ttlFor, TypeInv, AccountTypeOK
<1>7. /\ DOMAIN links \subseteq DOMAIN links' /\ DOMAIN links' \subseteq LinkIds
      /\ links' \in [DOMAIN links' -> Link]
      /\ \A l \in DOMAIN links' : links'[l].user \in DOMAIN users \cup {u}
  BY <1>3, <1>6 DEF Put, TypeInv, AccountTypeOK, HoldersExist
<1>8. AccountTypeOK' /\ HoldersExist'
  BY <1>1, <1>5, <1>7 DEF TypeInv, AccountTypeOK, HoldersExist
<1> QED
  BY <1>1, <1>5, <1>7, <1>8, RequestsStay DEF TypeInv

LEMMA TypeSteps == TypeInv /\ [AdminNext]_accountVars => TypeInv'
<1> SUFFICES ASSUME TypeInv, [AdminNext]_accountVars PROVE TypeInv'
  OBVIOUS
<1>1. ASSUME NEW r \in Requests, AccountStep(r)
      PROVE  TypeInv'
  BY <1>1, SessionTypes, SignInTypes, LinkTypes, SetTypes DEF AccountStep
<1>2. ASSUME NEW s \in SessionIds, revokeSession(s)
      PROVE  TypeInv'
  <2>1. s \in DOMAIN sessions /\ sessions[s] \in Session /\ UNCHANGED <<users, links, req, now>>
    BY <1>2 DEF revokeSession, TypeInv, AccountTypeOK
  <2>2. /\ [sessions[s] EXCEPT !.revoked = TRUE] \in Session
        /\ [sessions[s] EXCEPT !.revoked = TRUE].user = sessions[s].user
    BY <2>1 DEF Session
  <2>3. /\ DOMAIN sessions' = DOMAIN sessions /\ sessions' \in [DOMAIN sessions' -> Session]
        /\ \A t \in DOMAIN sessions' : sessions'[t].user \in DOMAIN users
    BY <1>2, <2>1, <2>2 DEF revokeSession, TypeInv, AccountTypeOK, HoldersExist
  <2>4. AccountTypeOK' /\ HoldersExist'
    BY <2>1, <2>3, SessionsChange DEF TypeInv, AccountTypeOK
  <2> QED
    BY <2>1, <2>3, <2>4, RequestsStay DEF TypeInv
<1>3. ASSUME Tick
      PROVE  TypeInv'
  BY <1>3, RequestsStay, AgeAssumption DEF Tick, TypeInv, AccountTypeOK, HoldersExist
<1>4. ASSUME UNCHANGED accountVars
      PROVE  TypeInv'
  BY <1>4, RequestsStay DEF accountVars, TypeInv, AccountTypeOK, HoldersExist
<1> QED
  BY <1>1, <1>2, <1>3, <1>4, EditTypes, CreateTypes DEF AdminNext, Next

(* Rows, requests and the clock keep their types, and name rows that are there. *)
THEOREM AccountsTyped == AdminSpec => []TypeInv
BY InitTypes, TypeSteps, PTL DEF AdminSpec

---------------------------------------------------------------------------
(* Sessions slide *)

(* Whatever else is written to a session, its window stands. *)
LEMMA WindowStands ==
  ASSUME TypeInv, TypeInv', WindowInv, now <= now', DOMAIN sessions' = DOMAIN sessions,
         \A s \in DOMAIN sessions :
           /\ sessions'[s].created = sessions[s].created
           /\ sessions'[s].lastSeen = sessions[s].lastSeen
           /\ sessions'[s].expires = sessions[s].expires
           /\ sessions'[s].used = sessions[s].used
  PROVE  WindowInv'
<1>1. ASSUME NEW s \in DOMAIN sessions
      PROVE  sessions'[s].lastSeen <= now' /\ Window(sessions'[s])
  <2>1. sessions[s].lastSeen \in Nat /\ now \in Nat /\ now' \in Nat
    BY DEF TypeInv, AccountTypeOK, Session
  <2> QED
    BY <2>1 DEF WindowInv, Window, AbsoluteEnd, Earlier
<1> QED
  BY <1>1 DEF WindowInv, Window, AbsoluteEnd

(* A session as it is opened, and as it is touched. *)
LEMMA FreshWindow ==
  ASSUME NEW x \in Session, now \in Nat,
         x.lastSeen = now, x.used = now,
         x.expires = Earlier(now + SESSION_MAX_AGE, AbsoluteEnd(x))
  PROVE  Window(x)
BY AgeAssumption DEF Window, Session, Earlier, AbsoluteEnd

LEMMA WindowSteps == TypeInv /\ TypeInv' /\ WindowInv /\ [AdminNext]_accountVars => WindowInv'
<1> SUFFICES ASSUME TypeInv, TypeInv', WindowInv, [AdminNext]_accountVars
             PROVE  WindowInv'
  OBVIOUS
<1>0. /\ now \in Nat /\ now' \in Nat
      /\ sessions \in [DOMAIN sessions -> Session] /\ sessions' \in [DOMAIN sessions' -> Session]
  BY DEF TypeInv, AccountTypeOK
<1>1. ASSUME NEW r \in Requests, NEW s \in SessionIds, Resolve(r, s)
      PROVE  WindowInv'
  <2>1. s \in DOMAIN sessions /\ UNCHANGED now
    BY <1>1 DEF Resolve, Accepted
  <2>2. CASE IsStale(sessions[s])
    BY <1>0, <1>1, <2>1, <2>2, WindowStands DEF Resolve
  <2>3. CASE ~IsStale(sessions[s])
    <3>1. sessions' = [sessions EXCEPT ![s].used = now]
      BY <1>1, <2>3 DEF Resolve
    <3>2. sessions[s] \in Session
      BY <1>0, <2>1
    <3>3. /\ sessions'[s].used = now /\ sessions'[s].lastSeen = sessions[s].lastSeen
          /\ sessions'[s].expires = sessions[s].expires
          /\ sessions'[s].created = sessions[s].created
      BY <2>1, <3>1, <3>2 DEF Session
    <3>4. now <= sessions[s].lastSeen + SESSION_TOUCH_INTERVAL
      BY <1>0, <2>1, <2>3, <3>2, AgeAssumption DEF IsStale, Session, WindowInv
    <3>5. sessions[s].lastSeen <= now /\ Window(sessions[s])
      BY <2>1 DEF WindowInv
    <3>6. Window(sessions'[s])
      BY <1>0, <3>2, <3>3, <3>4, <3>5, AgeAssumption DEF Window, AbsoluteEnd, Session
    <3> QED
      BY <2>1, <3>1, <3>3, <3>5, <3>6 DEF WindowInv, Window, AbsoluteEnd
  <2> QED
    BY <2>2, <2>3
<1>2. ASSUME NEW r \in Requests, Touch(r)
      PROVE  WindowInv'
  <2> DEFINE s == req[r].session
  <2>1. s \in DOMAIN sessions /\ UNCHANGED now
    BY <1>2 DEF Touch, TypeInv, RequestsOK, RequestOK, Fits
  <2>2. sessions' = [sessions EXCEPT ![s].lastSeen = now, ![s].used = now,
                                     ![s].expires = Slid(sessions[s])]
    BY <1>2 DEF Touch
  <2>3. sessions[s] \in Session /\ sessions'[s] \in Session /\ DOMAIN sessions' = DOMAIN sessions
    BY <1>0, <2>1, <2>2
  <2>4. /\ sessions'[s].lastSeen = now /\ sessions'[s].used = now
        /\ sessions'[s].expires = Slid(sessions[s])
        /\ sessions'[s].created = sessions[s].created
    BY <2>1, <2>2, <2>3 DEF Session
  <2>5. Window(sessions'[s])
    BY <1>0, <2>3, <2>4, FreshWindow DEF Slid, AbsoluteEnd
  <2> QED
    BY <1>0, <2>1, <2>2, <2>3, <2>4, <2>5 DEF WindowInv, Window, AbsoluteEnd
<1>3. ASSUME NEW r \in Requests, SignInOpens(r)
      PROVE  WindowInv'
  <2>1. PICK s \in SessionIds \ DOMAIN sessions :
          sessions' = Put(sessions, s,
            [user |-> req[r].user, created |-> now, lastSeen |-> now,
             expires |-> now + SESSION_MAX_AGE, revoked |-> FALSE, used |-> now,
             change |-> users[req[r].user].changes])
    BY <1>3 DEF SignInOpens, OpenSession
  <2>2. UNCHANGED now
    BY <1>3 DEF SignInOpens
  <2>3. /\ DOMAIN sessions' = DOMAIN sessions \cup {s}
        /\ \A t \in DOMAIN sessions : sessions'[t] = sessions[t]
        /\ sessions'[s].lastSeen = now /\ sessions'[s].used = now /\ sessions'[s].created = now
        /\ sessions'[s].expires = now + SESSION_MAX_AGE
    BY <2>1 DEF Put
  <2>4. sessions'[s] \in Session
    BY <1>0, <2>3
  <2>5. Window(sessions'[s])
    BY <1>0, <2>3, <2>4, FreshWindow, AgeAssumption DEF Earlier, AbsoluteEnd
  <2> QED
    BY <1>0, <2>2, <2>3, <2>5 DEF WindowInv, Window, AbsoluteEnd
<1>4. ASSUME NEW u, revokeAllSessions(u), UNCHANGED now
      PROVE  WindowInv'
  <2>1. ASSUME NEW s \in DOMAIN sessions
        PROVE  /\ sessions'[s].created = sessions[s].created
               /\ sessions'[s].lastSeen = sessions[s].lastSeen
               /\ sessions'[s].expires = sessions[s].expires
               /\ sessions'[s].used = sessions[s].used
    BY <1>0, <1>4 DEF revokeAllSessions, Session
  <2>2. DOMAIN sessions' = DOMAIN sessions
    BY <1>4 DEF revokeAllSessions
  <2> QED
    BY <1>0, <1>4, <2>1, <2>2, WindowStands
<1>5. ASSUME NEW s \in SessionIds, revokeSession(s)
      PROVE  WindowInv'
  <2>1. ASSUME NEW t \in DOMAIN sessions
        PROVE  /\ sessions'[t].created = sessions[t].created
               /\ sessions'[t].lastSeen = sessions[t].lastSeen
               /\ sessions'[t].expires = sessions[t].expires
               /\ sessions'[t].used = sessions[t].used
    BY <1>0, <1>5 DEF revokeSession, Session
  <2>2. DOMAIN sessions' = DOMAIN sessions /\ UNCHANGED now
    BY <1>5 DEF revokeSession
  <2> QED
    BY <1>0, <2>1, <2>2, WindowStands
<1>6. ASSUME UNCHANGED sessions, now <= now'
      PROVE  WindowInv'
  BY <1>0, <1>6, WindowStands
<1>7. now <= now
  BY <1>0
<1>8. ASSUME NEW r \in Requests, AccountStep(r)
      PROVE  WindowInv'
  <2>1. CASE \E s \in SessionIds : Resolve(r, s)
    BY <2>1, <1>1
  <2>2. CASE ChangeRevokes(r)
    BY <2>2, <1>4 DEF ChangeRevokes
  <2>3. CASE Touch(r) \/ SignInOpens(r)
    BY <2>3, <1>2, <1>3
  <2>4. CASE UNCHANGED sessions /\ UNCHANGED now
    BY <2>4, <1>6, <1>7
  <2> QED
    BY <1>8, <2>1, <2>2, <2>3, <2>4
       DEF AccountStep, SignInReads, RegisterReads, Rehash, RegisterCommits, RequestReset,
           CreateLink, SetChecks, consumeCredentialToken, SetWrites, RequestDies
<1>9. ASSUME Tick
      PROVE  WindowInv'
  BY <1>0, <1>6, <1>9 DEF Tick
<1>10. ASSUME \/ \E r \in Requests : EditStep(r)
              \/ \E s \in SessionIds, u \in Users, role \in Roles, orgs \in SUBSET Orgs :
                   CreateUser(s, u, role, orgs)
              \/ UNCHANGED accountVars
       PROVE  WindowInv'
  BY <1>6, <1>7, <1>10 DEF EditStep, EditReads, EditCounts, EditReplaces, EditWrites, EditCollides,
                           CreateUser, accountVars
<1> QED
  BY <1>5, <1>8, <1>9, <1>10 DEF AdminNext, Next

(* A session ends when it has not been used for its age and at its absolute end, and  *)
(* a user who comes back in time is never signed out before, whichever requests write *)
(* the row and whoever edits the account (resolveSession).                            *)
THEOREM SessionsSlide == AdminSpec => []SlidingWindow
<1>1. Init => WindowInv
  BY DEF Init, WindowInv
<1>2. TypeInv /\ WindowInv => SlidingWindow
  <2> SUFFICES ASSUME TypeInv, WindowInv, NEW s \in DOMAIN sessions
               PROVE  LET end == AbsoluteEnd(sessions[s])
                          used == sessions[s].used
                      IN /\ sessions[s].expires <= Earlier(used + SESSION_MAX_AGE, end)
                         /\ sessions[s].expires + SESSION_TOUCH_INTERVAL
                              >= Earlier(used + SESSION_MAX_AGE, end)
    BY DEF SlidingWindow
  <2>1. sessions[s] \in Session /\ Window(sessions[s])
    BY DEF TypeInv, AccountTypeOK, WindowInv
  <2> QED
    BY <2>1, AgeAssumption DEF Window, Session, AbsoluteEnd, Earlier
<1> QED
  BY <1>1, <1>2, AccountsTyped, WindowSteps, PTL DEF AdminSpec

---------------------------------------------------------------------------
(* Links set one password *)

(* Where a request goes and nobody comes to have consumed a link. *)
ConsumedStay == \A r \in Requests : Consumed(r)' => req'[r] = req[r]

LEMMA LinksStand ==
  ASSUME TypeInv, LinkInv, ConsumedStay, DOMAIN links \subseteq DOMAIN links',
         \A l \in DOMAIN links :
           links'[l].used = links[l].used /\ links'[l].passwords = links[l].passwords,
         \A l \in DOMAIN links' \ DOMAIN links : links'[l].passwords = 0
  PROVE  LinkInv'
<1>1. ASSUME NEW r \in Requests, Consumed(r)'
      PROVE  Consumed(r) /\ req'[r].link = req[r].link /\ req[r].link \in DOMAIN links
  BY <1>1 DEF ConsumedStay, Consumed, TypeInv, RequestsOK, RequestOK, Fits
<1>2. LinkSetsOnePassword'
  BY DEF LinkInv, LinkSetsOnePassword
<1> QED
  BY <1>1, <1>2 DEF LinkInv

LEMMA GoingOnConsumes ==
  ASSUME TypeInv, NEW r \in Requests, NEW q, Goto(r, q), q.at # "consumed"
  PROVE  ConsumedStay
BY DEF ConsumedStay, Consumed, Goto, TypeInv, RequestsOK

LEMMA LinkSteps == TypeInv /\ TypeInv' /\ LinkInv /\ [AdminNext]_accountVars => LinkInv'
<1> SUFFICES ASSUME TypeInv, TypeInv', LinkInv, [AdminNext]_accountVars
             PROVE  LinkInv'
  OBVIOUS
<1>0. links \in [DOMAIN links -> Link] /\ DOMAIN req = Requests
  BY DEF TypeInv, AccountTypeOK, RequestsOK
<1>1. ASSUME NEW r \in Requests, NEW u \in Users, RequestReset(r, u)
      PROVE  LinkInv'
  <2>1. ConsumedStay
    BY <1>1, GoingOnConsumes DEF RequestReset
  <2>2. ASSUME NEW l \in DOMAIN links
        PROVE  links'[l].used = links[l].used /\ links'[l].passwords = links[l].passwords
    BY <1>0, <1>1 DEF RequestReset, Link
  <2>3. DOMAIN links' = DOMAIN links
    BY <1>1 DEF RequestReset
  <2> QED
    BY <2>1, <2>2, <2>3, LinksStand
<1>2. ASSUME NEW u, NEW purpose, NEW l \in LinkIds \ DOMAIN links, ConsumedStay,
             links' = Put(links, l, NewLink(u, purpose))
      PROVE  LinkInv'
  BY <1>2, LinksStand DEF Put, NewLink
<1>3. ASSUME NEW r \in Requests, consumeCredentialToken(r)
      PROVE  LinkInv'
  <2> DEFINE l == req[r].link
  <2>1. /\ l \in DOMAIN links
        /\ req[r] \in [at : {"checked", "consumed"}, link : DOMAIN links, user : DOMAIN users,
                       password : Passwords]
    BY <1>3 DEF consumeCredentialToken, TypeInv, RequestsOK, RequestOK, Fits
  <2>2. CASE Consumable(links[l])
    <3>1. /\ links' = [links EXCEPT ![l].used = TRUE]
          /\ Goto(r, [req[r] EXCEPT !.at = "consumed"])
      BY <1>3, <2>2 DEF consumeCredentialToken
    <3>2. links[l] \in Link /\ ~links[l].used
      BY <1>0, <2>1, <2>2 DEF Consumable
    <3>3. links[l].passwords = 0
      BY <2>1, <3>2 DEF LinkInv, LinkSetsOnePassword, Link
    <3>4. /\ links'[l].used /\ links'[l].passwords = 0 /\ DOMAIN links' = DOMAIN links
          /\ \A k \in DOMAIN links : k # l => links'[k] = links[k]
      BY <1>0, <2>1, <3>1, <3>2, <3>3 DEF Link
    <3>5. /\ req'[r].link = l
          /\ \A q \in Requests : q # r => req'[q] = req[q]
      BY <1>0, <2>1, <3>1 DEF Goto
    <3>6. ASSUME NEW q \in Requests, q # r, Consumed(q)
          PROVE  req[q].link # l /\ req[q].link \in DOMAIN links
      BY <3>2, <3>6 DEF LinkInv, Consumed, TypeInv, RequestsOK, RequestOK, Fits
    <3>7. LinkSetsOnePassword'
      BY <3>4 DEF LinkInv, LinkSetsOnePassword
    <3>8. \A q \in Requests : Consumed(q)' =>
            links'[req'[q].link].used /\ links'[req'[q].link].passwords = 0
      BY <3>4, <3>5, <3>6 DEF LinkInv, Consumed
    <3>9. \A p, q \in Requests : p # q /\ Consumed(p)' /\ Consumed(q)' => req'[p].link # req'[q].link
      BY <3>5, <3>6 DEF LinkInv, Consumed
    <3> QED
      BY <3>7, <3>8, <3>9 DEF LinkInv
  <2>3. CASE ~Consumable(links[l])
    <3>1. UNCHANGED links /\ Goto(r, Idle)
      BY <1>3, <2>3 DEF consumeCredentialToken
    <3>2. ConsumedStay
      BY <3>1, GoingOnConsumes DEF Idle
    <3> QED
      BY <3>1, <3>2, LinksStand
  <2> QED
    BY <2>2, <2>3
<1>4. ASSUME NEW r \in Requests, SetWrites(r)
      PROVE  LinkInv'
  <2> DEFINE l == req[r].link
  <2>1. l \in DOMAIN links /\ Consumed(r)
    BY <1>4 DEF SetWrites, Consumed, TypeInv, RequestsOK, RequestOK, Fits
  <2>2. /\ links' = [links EXCEPT ![l].passwords = @ + 1]
        /\ Goto(r, [at |-> "written", user |-> req[r].user, change |-> users[req[r].user].changes + 1])
    BY <1>4 DEF SetWrites
  <2>3. links[l].used /\ links[l].passwords = 0 /\ links[l] \in Link
    BY <1>0, <2>1 DEF LinkInv
  <2>4. /\ links'[l].used /\ links'[l].passwords = 1 /\ DOMAIN links' = DOMAIN links
        /\ \A k \in DOMAIN links : k # l => links'[k] = links[k]
    BY <1>0, <2>1, <2>2, <2>3 DEF Link
  <2>5. /\ ~Consumed(r)'
        /\ \A q \in Requests : q # r => req'[q] = req[q]
    BY <1>0, <2>2 DEF Goto, Consumed
  <2>6. ASSUME NEW q \in Requests, q # r, Consumed(q)
        PROVE  req[q].link # l /\ req[q].link \in DOMAIN links
    BY <2>1, <2>6 DEF LinkInv, Consumed, TypeInv, RequestsOK, RequestOK, Fits
  <2>7. LinkSetsOnePassword'
    BY <2>4 DEF LinkInv, LinkSetsOnePassword
  <2>8. \A q \in Requests : Consumed(q)' =>
          links'[req'[q].link].used /\ links'[req'[q].link].passwords = 0
    BY <2>4, <2>5, <2>6 DEF LinkInv, Consumed
  <2>9. \A p, q \in Requests : p # q /\ Consumed(p)' /\ Consumed(q)' => req'[p].link # req'[q].link
    BY <2>5 DEF LinkInv, Consumed
  <2> QED
    BY <2>7, <2>8, <2>9 DEF LinkInv
<1>5. ASSUME UNCHANGED links, ConsumedStay
      PROVE  LinkInv'
  BY <1>5, LinksStand
<1>6. ASSUME UNCHANGED req
      PROVE  ConsumedStay
  BY <1>6 DEF ConsumedStay
<1>7. ASSUME NEW r \in Requests, AccountStep(r)
      PROVE  LinkInv'
  <2>1. CASE \E u \in Users : RequestReset(r, u)
    BY <2>1, <1>1
  <2>2. CASE CreateLink(r)
    <3>1. ConsumedStay
      BY <2>2, GoingOnConsumes DEF CreateLink, Idle
    <3> QED
      BY <2>2, <3>1, <1>2 DEF CreateLink
  <2>3. CASE consumeCredentialToken(r) \/ SetWrites(r)
    BY <2>3, <1>3, <1>4
  <2>4. CASE \/ \E s \in SessionIds : Resolve(r, s)
             \/ Touch(r) \/ SignInOpens(r) \/ ChangeRevokes(r) \/ RequestDies(r)
             \/ \E u \in Users, p \in Passwords : SignInReads(r, u, p) \/ RegisterReads(r, u, p)
             \/ \E l \in LinkIds, p \in Passwords : SetChecks(r, l, p)
    <3>1. UNCHANGED links
      BY <2>4 DEF Resolve, Touch, SignInOpens, ChangeRevokes, RequestDies, SignInReads,
                  RegisterReads, SetChecks
    <3>2. ConsumedStay
      <4>1. CASE Touch(r) \/ SignInOpens(r) \/ ChangeRevokes(r) \/ RequestDies(r)
        BY <4>1, GoingOnConsumes DEF Touch, SignInOpens, ChangeRevokes, RequestDies, Idle
      <4>2. CASE \E s \in SessionIds : Resolve(r, s)
        BY <4>2, <1>6, GoingOnConsumes DEF Resolve
      <4>3. CASE \E u \in Users, p \in Passwords : SignInReads(r, u, p) \/ RegisterReads(r, u, p)
        BY <4>3, GoingOnConsumes DEF SignInReads, RegisterReads
      <4>4. CASE \E l \in LinkIds, p \in Passwords : SetChecks(r, l, p)
        BY <4>4, GoingOnConsumes DEF SetChecks
      <4> QED
        BY <2>4, <4>1, <4>2, <4>3, <4>4
    <3> QED
      BY <3>1, <3>2, <1>5
  <2>5. CASE Rehash(r)
    <3>1. req[r] \in [at : {"rehash", "verified"}, user : DOMAIN users, password : Passwords]
      BY <2>5 DEF Rehash, TypeInv, RequestsOK, RequestOK, Fits
    <3>2. ConsumedStay
      BY <2>5, <3>1, GoingOnConsumes DEF Rehash
    <3> QED
      BY <2>5, <3>2, <1>5 DEF Rehash
  <2>6. CASE RegisterCommits(r)
    <3>1. ConsumedStay
      BY <2>6, GoingOnConsumes DEF RegisterCommits, Idle
    <3> QED
      BY <2>6, <3>1, <1>5 DEF RegisterCommits
  <2> QED
    BY <1>7, <2>1, <2>2, <2>3, <2>4, <2>5, <2>6 DEF AccountStep
<1>8. ASSUME NEW r \in Requests, EditStep(r)
      PROVE  LinkInv'
  <2>1. UNCHANGED links
    BY <1>8 DEF EditStep, EditReads, EditCounts, EditReplaces, EditWrites, EditCollides
  <2>2. ConsumedStay
    <3>1. CASE \E s \in SessionIds, u \in Users, body \in Bodies : EditReads(r, s, u, body)
      BY <3>1, GoingOnConsumes DEF EditReads
    <3>2. CASE EditGoesOn(r)
      BY <3>2, EditGoes, GoingOnConsumes DEF Idle
    <3>3. CASE EditWrites(r)
      <4>1. req'[r].at = "written"
        BY <3>3, WritesOnce
      <4>2. \A q \in Requests \ {r} : req'[q].at = "consumed" => req'[q] = req[q]
        BY <3>3, EditWritten DEF EditStates
      <4> QED
        BY <4>1, <4>2 DEF ConsumedStay, Consumed
    <3> QED
      BY <1>8, <3>1, <3>2, <3>3 DEF EditStep, EditGoesOn
  <2> QED
    BY <2>1, <2>2, <1>5
<1>9. ASSUME NEW s \in SessionIds, NEW u \in Users, NEW role \in Roles, NEW orgs \in SUBSET Orgs,
             CreateUser(s, u, role, orgs)
      PROVE  LinkInv'
  BY <1>9, <1>2, <1>5, <1>6 DEF CreateUser
<1> QED
  BY <1>5, <1>6, <1>7, <1>8, <1>9 DEF AdminNext, Next, revokeSession, Tick, accountVars

(* A link sets one password at most, and is spent when it has: the conditional update *)
(* of consumeCredentialToken decides between the submissions of one link, however     *)
(* many have checked it, and wherever they are cut short.                             *)
THEOREM OnePasswordEach == AdminSpec => []LinkSetsOnePassword
<1>1. Init => LinkInv
  BY DEF Init, LinkInv, LinkSetsOnePassword, Consumed, Idle
<1>2. LinkInv => LinkSetsOnePassword
  BY DEF LinkInv
<1> QED
  BY <1>1, <1>2, AccountsTyped, LinkSteps, PTL DEF AdminSpec

---------------------------------------------------------------------------
(* A change ends the sessions before it *)

Written(r) == req[r].at = "written"

WrittenStay == \A r \in Requests : Written(r)' => req'[r] = req[r]

(* Sessions are only read or revoked. *)
SessionsStand ==
  /\ DOMAIN sessions' = DOMAIN sessions
  /\ \A s \in DOMAIN sessions :
       /\ sessions'[s].user = sessions[s].user /\ sessions'[s].change = sessions[s].change
       /\ sessions[s].revoked => sessions'[s].revoked

(* Accounts are only changed, and new ones have no session. *)
ChangesGoUp ==
  /\ DOMAIN users \subseteq DOMAIN users'
  /\ \A u \in DOMAIN users :
       users'[u].ended = users[u].ended /\ users[u].changes <= users'[u].changes
  /\ \A u \in DOMAIN users' \ DOMAIN users : users'[u].ended = 0

LEMMA ChangesStand ==
  ASSUME TypeInv, TypeInv', ChangeInv, SessionsStand, ChangesGoUp, WrittenStay
  PROVE  ChangeInv'
<1>0. /\ sessions \in [DOMAIN sessions -> Session] /\ users \in [DOMAIN users -> Account]
      /\ users' \in [DOMAIN users' -> Account]
      /\ \A s \in DOMAIN sessions : sessions[s].user \in DOMAIN users
  BY DEF TypeInv, AccountTypeOK, HoldersExist
<1>1. ChangeEndsSessions'
  BY <1>0 DEF ChangeInv, ChangeEndsSessions, SessionsStand, ChangesGoUp
<1>2. \A u \in DOMAIN users' : users'[u].ended <= users'[u].changes
  <2>1. ASSUME NEW u \in DOMAIN users
        PROVE  users'[u].ended <= users'[u].changes
    <3>1. /\ users[u].ended \in Nat /\ users[u].changes \in Nat /\ users'[u].changes \in Nat
          /\ users[u].ended <= users[u].changes
      BY <1>0 DEF ChangeInv, ChangesGoUp, Account
    <3> QED
      BY <3>1 DEF ChangesGoUp
  <2>2. ASSUME NEW u \in DOMAIN users' \ DOMAIN users
        PROVE  users'[u].ended <= users'[u].changes
    BY <1>0 DEF ChangesGoUp, Account
  <2> QED
    BY <2>1, <2>2
<1>3. ASSUME NEW r \in Requests, Written(r)'
      PROVE  req'[r].change <= users'[req'[r].user].changes
  <2>1. /\ req'[r] = req[r] /\ req[r].user \in DOMAIN users /\ req[r].change \in Nat
        /\ req[r].change <= users[req[r].user].changes
    BY <1>3 DEF WrittenStay, Written, ChangeInv, TypeInv, RequestsOK, RequestOK, Fits
  <2>2. users[req[r].user].changes \in Nat /\ users'[req[r].user].changes \in Nat
    BY <1>0, <2>1 DEF Account, ChangesGoUp
  <2> QED
    BY <2>1, <2>2 DEF ChangesGoUp
<1> QED
  BY <1>1, <1>2, <1>3 DEF ChangeInv, Written

LEMMA UsersStand ==
  ASSUME TypeInv, UNCHANGED users
  PROVE  ChangesGoUp
<1>1. \A u \in DOMAIN users : users[u].changes \in Nat
  BY DEF TypeInv, AccountTypeOK, Account
<1> QED
  BY <1>1 DEF ChangesGoUp

LEMMA GoingOnWrites ==
  ASSUME TypeInv, NEW r \in Requests, NEW q, Goto(r, q), q.at # "written"
  PROVE  WrittenStay
BY DEF WrittenStay, Written, Goto, TypeInv, RequestsOK

(* A password or an edit is written: one more change of the account. *)
LEMMA ChangeWritten ==
  ASSUME TypeInv, TypeInv', ChangeInv, NEW r \in Requests, NEW u \in DOMAIN users, UNCHANGED sessions,
         DOMAIN users' = DOMAIN users,
         \A v \in DOMAIN users : v # u => users'[v] = users[v],
         users'[u].changes = users[u].changes + 1, users'[u].ended = users[u].ended,
         req'[r] = [at |-> "written", user |-> u, change |-> users[u].changes + 1],
         \A q \in Requests \ {r} : Written(q)' => req'[q] = req[q]
  PROVE  ChangeInv'
<1>0. /\ users \in [DOMAIN users -> Account] /\ users' \in [DOMAIN users' -> Account]
      /\ DOMAIN req = Requests
      /\ \A s \in DOMAIN sessions : sessions[s].user \in DOMAIN users
  BY DEF TypeInv, AccountTypeOK, HoldersExist, RequestsOK
<1>1. \A v \in DOMAIN users : /\ users[v].changes \in Nat /\ users[v].ended \in Nat
                              /\ users'[v].changes \in Nat
  BY <1>0 DEF Account
<1>2. ChangeEndsSessions'
  BY <1>0 DEF ChangeInv, ChangeEndsSessions
<1>3. \A v \in DOMAIN users : users[v].changes <= users'[v].changes /\ users'[v].ended = users[v].ended
  BY <1>1
<1>4. \A v \in DOMAIN users' : users'[v].ended <= users'[v].changes
  BY <1>1, <1>3 DEF ChangeInv
<1>5. ASSUME NEW q \in Requests, Written(q)'
      PROVE  req'[q].change <= users'[req'[q].user].changes
  <2>1. CASE q = r
    BY <1>0, <1>1, <2>1
  <2>2. CASE q # r
    <3>1. req'[q] = req[q] /\ Written(q)
      BY <1>5, <2>2 DEF Written
    <3>2. /\ req[q].user \in DOMAIN users /\ req[q].change \in Nat
          /\ req[q].change <= users[req[q].user].changes
      BY <3>1 DEF Written, ChangeInv, TypeInv, RequestsOK, RequestOK, Fits
    <3> QED
      BY <1>1, <1>3, <3>1, <3>2
  <2> QED
    BY <2>1, <2>2
<1> QED
  BY <1>2, <1>4, <1>5 DEF ChangeInv, Written

LEMMA ChangeSteps == TypeInv /\ TypeInv' /\ ChangeInv /\ [AdminNext]_accountVars => ChangeInv'
<1> SUFFICES ASSUME TypeInv, TypeInv', ChangeInv, [AdminNext]_accountVars
             PROVE  ChangeInv'
  OBVIOUS
<1>0. /\ sessions \in [DOMAIN sessions -> Session] /\ users \in [DOMAIN users -> Account]
      /\ DOMAIN req = Requests
      /\ \A s \in DOMAIN sessions : sessions[s].user \in DOMAIN users
  BY DEF TypeInv, AccountTypeOK, HoldersExist, RequestsOK
<1>s. ASSUME UNCHANGED sessions
      PROVE  SessionsStand
  BY <1>s DEF SessionsStand
<1>w. ASSUME UNCHANGED req
      PROVE  WrittenStay
  BY <1>w DEF WrittenStay
<1>1. ASSUME NEW r \in Requests, NEW s \in SessionIds, Resolve(r, s)
      PROVE  ChangeInv'
  <2>1. SessionsStand
    BY <1>0, <1>1 DEF Resolve, SessionsStand, Session
  <2>2. WrittenStay /\ ChangesGoUp
    BY <1>1, <1>w, UsersStand, GoingOnWrites DEF Resolve
  <2> QED
    BY <2>1, <2>2, ChangesStand
<1>2. ASSUME NEW r \in Requests, Touch(r)
      PROVE  ChangeInv'
  <2>1. SessionsStand
    BY <1>0, <1>2 DEF Touch, SessionsStand, Session
  <2>2. WrittenStay /\ ChangesGoUp
    BY <1>2, UsersStand, GoingOnWrites DEF Touch, Idle
  <2> QED
    BY <2>1, <2>2, ChangesStand
<1>3. ASSUME NEW s \in SessionIds, revokeSession(s)
      PROVE  ChangeInv'
  <2>1. SessionsStand
    BY <1>0, <1>3 DEF revokeSession, SessionsStand, Session
  <2>2. WrittenStay /\ ChangesGoUp
    BY <1>3, <1>w, UsersStand DEF revokeSession
  <2> QED
    BY <2>1, <2>2, ChangesStand
<1>4. ASSUME NEW r \in Requests, SignInOpens(r)
      PROVE  ChangeInv'
  <2> DEFINE u == req[r].user
  <2>1. u \in DOMAIN users /\ UNCHANGED users /\ Goto(r, Idle)
    BY <1>4 DEF SignInOpens, TypeInv, RequestsOK, RequestOK, Fits
  <2>2. PICK s \in SessionIds \ DOMAIN sessions :
          sessions' = Put(sessions, s,
            [user |-> u, created |-> now, lastSeen |-> now, expires |-> now + SESSION_MAX_AGE,
             revoked |-> FALSE, used |-> now, change |-> users[u].changes])
    BY <1>4 DEF SignInOpens, OpenSession
  <2>3. /\ DOMAIN sessions' = DOMAIN sessions \cup {s}
        /\ \A t \in DOMAIN sessions : sessions'[t] = sessions[t]
        /\ sessions'[s].user = u /\ sessions'[s].change = users[u].changes
    BY <2>2 DEF Put
  <2>4. users[u].ended \in Nat /\ users[u].changes \in Nat /\ users[u].ended <= users[u].changes
    BY <1>0, <2>1 DEF ChangeInv, Account
  <2>5. ChangeEndsSessions'
    BY <2>1, <2>3, <2>4 DEF ChangeInv, ChangeEndsSessions
  <2>6. WrittenStay
    BY <2>1, GoingOnWrites DEF Idle
  <2> QED
    BY <2>1, <2>5, <2>6 DEF ChangeInv, WrittenStay, Written
<1>5. ASSUME NEW r \in Requests, ChangeRevokes(r)
      PROVE  ChangeInv'
  <2> DEFINE u == req[r].user
  <2>1. u \in DOMAIN users /\ req[r].change \in Nat /\ req[r].change <= users[u].changes
    BY <1>5 DEF ChangeRevokes, ChangeInv, TypeInv, RequestsOK, RequestOK, Fits
  <2>2. /\ users' = [users EXCEPT ![u].ended = Later(users[u].ended, req[r].change)]
        /\ revokeAllSessions(u) /\ Goto(r, Idle)
    BY <1>5 DEF ChangeRevokes
  <2>3. users[u] \in Account
    BY <1>0, <2>1
  <2>4. /\ users[u].ended \in Nat /\ users[u].changes \in Nat /\ users[u].ended <= users[u].changes
        /\ users'[u].ended = Later(users[u].ended, req[r].change)
        /\ users'[u].changes = users[u].changes
        /\ DOMAIN users' = DOMAIN users
        /\ \A v \in DOMAIN users : v # u => users'[v] = users[v]
    BY <1>0, <2>1, <2>2, <2>3 DEF ChangeInv, Account
  <2>5. /\ DOMAIN sessions' = DOMAIN sessions
        /\ \A s \in DOMAIN sessions : sessions[s].user = u => sessions'[s].revoked
        /\ \A s \in DOMAIN sessions : sessions[s].user # u => sessions'[s] = sessions[s]
        /\ \A s \in DOMAIN sessions : sessions'[s].user = sessions[s].user
    BY <1>0, <2>2 DEF revokeAllSessions, Session
  <2>6. ChangeEndsSessions'
    BY <1>0, <2>4, <2>5 DEF ChangeInv, ChangeEndsSessions
  <2>7. \A v \in DOMAIN users' : users'[v].ended <= users'[v].changes
    BY <2>1, <2>4 DEF ChangeInv, Later
  <2>8. WrittenStay
    BY <2>2, GoingOnWrites DEF Idle
  <2>9. ASSUME NEW q \in Requests, Written(q)'
        PROVE  req'[q].change <= users'[req'[q].user].changes
    <3>1. /\ req'[q] = req[q] /\ req[q].user \in DOMAIN users
          /\ req[q].change <= users[req[q].user].changes
      BY <2>8, <2>9 DEF WrittenStay, Written, ChangeInv, TypeInv, RequestsOK, RequestOK, Fits
    <3> QED
      BY <2>4, <3>1
  <2> QED
    BY <2>6, <2>7, <2>9 DEF ChangeInv, Written
<1>6. ASSUME NEW r \in Requests, SetWrites(r)
      PROVE  ChangeInv'
  <2> DEFINE u == req[r].user
  <2>1. u \in DOMAIN users
    BY <1>6 DEF SetWrites, TypeInv, RequestsOK, RequestOK, Fits
  <2>2. /\ users' = [users EXCEPT ![u] = [Changed(users[u]) EXCEPT !.password = req[r].password,
                                                                   !.outdated = FALSE]]
        /\ Goto(r, [at |-> "written", user |-> u, change |-> users[u].changes + 1])
        /\ UNCHANGED sessions
    BY <1>6 DEF SetWrites
  <2>3. users[u] \in Account
    BY <1>0, <2>1
  <2>4. /\ users'[u].changes = users[u].changes + 1 /\ users'[u].ended = users[u].ended
        /\ DOMAIN users' = DOMAIN users
        /\ \A v \in DOMAIN users : v # u => users'[v] = users[v]
    BY <2>1, <2>2, <2>3 DEF Changed, Account
  <2>5. /\ req'[r] = [at |-> "written", user |-> u, change |-> users[u].changes + 1]
        /\ \A q \in Requests \ {r} : Written(q)' => req'[q] = req[q]
    BY <1>0, <2>2 DEF Goto
  <2> QED
    BY <2>1, <2>2, <2>4, <2>5, ChangeWritten
<1>7. ASSUME NEW r \in Requests, EditWrites(r)
      PROVE  ChangeInv'
  <2> DEFINE u == req[r].user
  <2>1. u \in DOMAIN users
    BY <1>7, EditInHand
  <2>2. /\ users'[u].changes = users[u].changes + 1 /\ users'[u].ended = users[u].ended
        /\ DOMAIN users' = DOMAIN users
        /\ \A v \in DOMAIN users : v # u => users'[v] = users[v]
    BY <1>7, <2>1, UserWritten
  <2>3. /\ req'[r] = [at |-> "written", user |-> u, change |-> users[u].changes + 1]
        /\ UNCHANGED sessions
    BY <1>7, EditWritten
  <2>4. \A q \in Requests \ {r} : Written(q)' => req'[q] = req[q]
    BY <1>7, EditWritten DEF Written, EditStates
  <2> QED
    BY <2>1, <2>2, <2>3, <2>4, ChangeWritten
<1>8. ASSUME UNCHANGED <<users, sessions>>, WrittenStay
      PROVE  ChangeInv'
  BY <1>8, <1>s, UsersStand, ChangesStand
<1>9. ASSUME NEW u \in Users, u \notin DOMAIN users, UNCHANGED sessions, WrittenStay,
             NEW t, NEW role, NEW orgs, NEW p, users' = Put(users, u, NewAccount(t, role, orgs, p))
      PROVE  ChangeInv'
  <2>1. ChangesGoUp
    BY <1>0, <1>9 DEF Put, NewAccount, ChangesGoUp, Account
  <2> QED
    BY <1>9, <1>s, <2>1, ChangesStand
<1>10. ASSUME NEW r \in Requests, Rehash(r)
       PROVE  ChangeInv'
  <2>1. req[r] \in [at : {"rehash", "verified"}, user : DOMAIN users, password : Passwords]
    BY <1>10 DEF Rehash, TypeInv, RequestsOK, RequestOK, Fits
  <2>2. WrittenStay
    BY <1>10, <2>1, GoingOnWrites DEF Rehash
  <2>3. ChangesGoUp
    BY <1>0, <1>10, <2>1, UsersStand DEF Rehash, ChangesGoUp, Account
  <2> QED
    BY <1>10, <1>s, <2>2, <2>3, ChangesStand DEF Rehash
<1>11. ASSUME NEW r \in Requests, RegisterCommits(r)
       PROVE  ChangeInv'
  <2>1. WrittenStay /\ UNCHANGED sessions /\ req[r].user \in Users
    BY <1>11, GoingOnWrites DEF RegisterCommits, Idle, TypeInv, RequestsOK, RequestOK, Fits
  <2> QED
    BY <1>8, <1>9, <1>11, <2>1 DEF RegisterCommits
<1>12. ASSUME NEW r \in Requests,
              \/ \E u \in Users, p \in Passwords : SignInReads(r, u, p) \/ RegisterReads(r, u, p)
              \/ \E u \in Users : RequestReset(r, u)
              \/ CreateLink(r) \/ RequestDies(r) \/ consumeCredentialToken(r)
              \/ \E l \in LinkIds, p \in Passwords : SetChecks(r, l, p)
       PROVE  ChangeInv'
  <2>1. UNCHANGED <<users, sessions>>
    BY <1>12 DEF SignInReads, RegisterReads, RequestReset, CreateLink, RequestDies,
                 consumeCredentialToken, SetChecks
  <2>2. WrittenStay
    <3>1. CASE \E u \in Users, p \in Passwords : SignInReads(r, u, p) \/ RegisterReads(r, u, p)
      BY <3>1, GoingOnWrites DEF SignInReads, RegisterReads
    <3>2. CASE \E u \in Users : RequestReset(r, u)
      BY <3>2, GoingOnWrites DEF RequestReset
    <3>3. CASE CreateLink(r) \/ RequestDies(r)
      BY <3>3, GoingOnWrites DEF CreateLink, RequestDies, Idle
    <3>4. CASE \E l \in LinkIds, p \in Passwords : SetChecks(r, l, p)
      BY <3>4, GoingOnWrites DEF SetChecks
    <3>5. CASE consumeCredentialToken(r)
      <4>1. req[r] \in [at : {"checked", "consumed"}, link : DOMAIN links, user : DOMAIN users,
                        password : Passwords]
        BY <3>5 DEF consumeCredentialToken, TypeInv, RequestsOK, RequestOK, Fits
      <4> QED
        BY <3>5, <4>1, GoingOnWrites DEF consumeCredentialToken, Idle
    <3> QED
      BY <1>12, <3>1, <3>2, <3>3, <3>4, <3>5
  <2> QED
    BY <2>1, <2>2, <1>8
<1>13. ASSUME NEW r \in Requests,
              \/ EditGoesOn(r)
              \/ \E s \in SessionIds, u \in Users, body \in Bodies : EditReads(r, s, u, body)
       PROVE  ChangeInv'
  <2>1. UNCHANGED <<users, sessions>>
    BY <1>13, EditGoes DEF EditReads
  <2>2. WrittenStay
    <3>1. CASE \E s \in SessionIds, u \in Users, body \in Bodies : EditReads(r, s, u, body)
      BY <3>1, GoingOnWrites DEF EditReads
    <3>2. CASE EditGoesOn(r)
      BY <3>2, EditGoes, GoingOnWrites DEF Idle
    <3> QED
      BY <1>13, <3>1, <3>2
  <2> QED
    BY <2>1, <2>2, <1>8
<1>14. ASSUME NEW s \in SessionIds, NEW u \in Users, NEW role \in Roles, NEW orgs \in SUBSET Orgs,
              CreateUser(s, u, role, orgs)
       PROVE  ChangeInv'
  BY <1>14, <1>9, <1>w DEF CreateUser
<1>15. ASSUME Tick \/ UNCHANGED accountVars
       PROVE  ChangeInv'
  BY <1>15, <1>8, <1>w DEF Tick, accountVars
<1> QED
  BY <1>1, <1>2, <1>3, <1>4, <1>5, <1>6, <1>7, <1>10, <1>11, <1>12, <1>13, <1>14, <1>15
     DEF AdminNext, Next, AccountStep, EditStep, EditGoesOn

(* Once a new password or an edit has run to its end, no session opened before it was *)
(* written is alive, whatever was signing in or sliding meanwhile (revokeAllSessions).*)
THEOREM ChangesEnd == AdminSpec => []ChangeEndsSessions
<1>1. Init => ChangeInv
  <2> SUFFICES ASSUME Init PROVE ChangeInv
    OBVIOUS
  <2>1. ASSUME NEW u \in DOMAIN users
        PROVE  users[u].ended = 0 /\ users[u].changes = 0
    <3>1. PICK t \in Tenants, p \in Passwords, o \in BOOLEAN :
            users[u] = [NewAccount(t, "OWNER", {}, p) EXCEPT !.outdated = o]
      BY DEF Init
    <3> QED
      BY <3>1 DEF NewAccount
  <2> QED
    BY <2>1 DEF Init, ChangeInv, ChangeEndsSessions, Idle
<1>2. ChangeInv => ChangeEndsSessions
  BY DEF ChangeInv
<1> QED
  BY <1>1, <1>2, AccountsTyped, ChangeSteps, PTL DEF AdminSpec

---------------------------------------------------------------------------
(* Owners and assignments, however edits race *)

SameStanding(a, b) ==
  a.tenant = b.tenant /\ a.role = b.role /\ a.scopes = b.scopes /\ a.disabled = b.disabled

(* Nobody's standing is changed. *)
StandingKept ==
  DOMAIN users \subseteq DOMAIN users' /\ \A u \in DOMAIN users : SameStanding(users'[u], users[u])

(* A new account is assigned businesses of its tenant, and none under an unscoped role. *)
NewcomerFits(u) ==
  /\ users'[u].scopes \subseteq OrgsOf(users'[u].tenant)
  /\ isScopedRole(users'[u].role) \/ users'[u].scopes = {}

NewcomersFit == \A u \in DOMAIN users' \ DOMAIN users : NewcomerFits(u)

(* No edit sets out or goes on. *)
EditsWait == \A r \in Requests : req'[r].at \in EditStates => req'[r] = req[r]

Quiet == StandingKept /\ NewcomersFit /\ EditsWait

LEMMA OwnersStay ==
  ASSUME StandingKept, NEW t
  PROVE  OwnersOf(t) \subseteq OwnersOf(t)'
BY DEF StandingKept, SameStanding, OwnersOf

(* An edit in hand is of users there are. *)
LEMMA EditsInHand ==
  ASSUME TypeInv, NEW r \in Edits
  PROVE  /\ req[r] \in Edit /\ req[r].user \in DOMAIN users
         /\ req[r].since \subseteq DOMAIN users
BY DEF Edits, TypeInv, RequestsOK, RequestOK, Fits

(* A sound edit stays so while those it is about keep their standing. *)
LEMMA SoundStays ==
  ASSUME TypeInv, NEW q \in Edit, q.user \in DOMAIN users, q.since \subseteq DOMAIN users,
         Sound(q), StandingKept
  PROVE  OwnerLeft(q)' /\ ScopesSettled(q)' /\ WithinTenant(q)'
<1>1. SameStanding(users'[q.user], users[q.user])
  BY DEF StandingKept
<1>2. \A v \in q.since : users'[v].tenant = users[v].tenant
  BY DEF StandingKept, SameStanding
<1>3. OtherOwners(q.user) \subseteq OtherOwners(q.user)'
  BY <1>1, OwnersStay DEF OtherOwners, SameStanding
<1>4. LosesOwner(users'[q.user], q.body) <=> LosesOwner(users[q.user], q.body)
  BY <1>1 DEF LosesOwner, SameStanding
<1>5. OwnerLeft(q)'
  BY <1>1, <1>2, <1>3, <1>4 DEF Sound, OwnerLeft, SameStanding
<1>6. ScopesSettled(q)' /\ WithinTenant(q)'
  BY <1>1 DEF Sound, ScopesSettled, WithinTenant, SameStanding
<1> QED
  BY <1>5, <1>6

LEMMA QuietIsSound ==
  ASSUME TypeInv, RaceInv, Quiet
  PROVE  RaceInv'
<1>1. ASSUME NEW r \in Edits'
      PROVE  Sound(req[r])'
  <2>1. req'[r] = req[r] /\ r \in Edits
    BY <1>1 DEF Quiet, EditsWait, Edits
  <2>2. /\ req[r] \in Edit /\ req[r].user \in DOMAIN users /\ req[r].since \subseteq DOMAIN users
        /\ Sound(req[r]) /\ StandingKept
    BY <2>1, EditsInHand DEF RaceInv, EditsSound, Quiet
  <2>3. PICK q \in Edit : q = req[r]
    BY <2>2
  <2>4. OwnerLeft(q)' /\ ScopesSettled(q)' /\ WithinTenant(q)'
    BY <2>2, <2>3, SoundStays
  <2> QED
    BY <2>1, <2>3, <2>4 DEF Sound, OwnerLeft, ScopesSettled, WithinTenant, OtherOwners, OwnersOf
<1>2. AssignedWithinTenant'
  BY DEF RaceInv, AssignedWithinTenant, Quiet, StandingKept, SameStanding, NewcomersFit, NewcomerFits
<1> QED
  BY <1>1, <1>2 DEF RaceInv, EditsSound

LEMMA StandingStands ==
  ASSUME UNCHANGED users
  PROVE  StandingKept /\ NewcomersFit
BY DEF StandingKept, NewcomersFit, SameStanding

LEMMA OneChanges ==
  ASSUME TypeInv, NEW u \in DOMAIN users, NEW account,
         users' = [users EXCEPT ![u] = account], SameStanding(account, users[u])
  PROVE  StandingKept /\ NewcomersFit
BY DEF StandingKept, NewcomersFit, SameStanding

LEMMA OneJoins ==
  ASSUME NEW u \in Users \ DOMAIN users, NEW account, users' = Put(users, u, account),
         account.scopes \subseteq OrgsOf(account.tenant),
         isScopedRole(account.role) \/ account.scopes = {}
  PROVE  StandingKept /\ NewcomersFit
<1>1. DOMAIN users' = DOMAIN users \cup {u} /\ users'[u] = account
  BY DEF Put
<1>2. \A v \in DOMAIN users : users'[v] = users[v]
  BY DEF Put
<1> QED
  BY <1>1, <1>2 DEF StandingKept, NewcomersFit, NewcomerFits, SameStanding

LEMMA GoingOnWaits ==
  ASSUME TypeInv, NEW r \in Requests, NEW q, Goto(r, q), q.at \notin EditStates
  PROVE  EditsWait
BY DEF TypeInv, RequestsOK, Goto, EditsWait

(* Only edits change anybody's standing. *)
LEMMA OthersAreQuiet ==
  ASSUME TypeInv,
         \/ Next
         \/ \E s \in SessionIds, u \in Users, role \in Roles, orgs \in SUBSET Orgs :
              CreateUser(s, u, role, orgs)
         \/ UNCHANGED accountVars
  PROVE  Quiet
<1> USE DEF Quiet
<1>1. ASSUME NEW r \in Requests,
             \/ \E s \in SessionIds : Resolve(r, s)
             \/ \E u \in Users, p \in Passwords : SignInReads(r, u, p) \/ RegisterReads(r, u, p)
             \/ \E u \in Users : RequestReset(r, u)
             \/ \E l \in LinkIds, p \in Passwords : SetChecks(r, l, p)
             \/ Touch(r) \/ SignInOpens(r) \/ CreateLink(r) \/ RequestDies(r)
      PROVE  Quiet
  <2>1. UNCHANGED users
    BY <1>1 DEF Resolve, SignInReads, RegisterReads, RequestReset, SetChecks, Touch, SignInOpens,
                CreateLink, RequestDies
  <2>2. EditsWait
    <3>1. UNCHANGED req => EditsWait
      BY DEF EditsWait
    <3>2. CASE \E s \in SessionIds : Resolve(r, s)
      BY <3>1, <3>2, GoingOnWaits DEF Resolve, EditStates
    <3>3. CASE \E u \in Users, p \in Passwords : SignInReads(r, u, p) \/ RegisterReads(r, u, p)
      <4>1. PICK u \in Users, p \in Passwords : SignInReads(r, u, p) \/ RegisterReads(r, u, p)
        BY <3>3
      <4>2. CASE SignInReads(r, u, p)
        BY <4>2, GoingOnWaits DEF SignInReads, EditStates
      <4>3. CASE RegisterReads(r, u, p)
        BY <4>3, GoingOnWaits DEF RegisterReads, EditStates
      <4> QED
        BY <4>1, <4>2, <4>3
    <3>4. CASE \E u \in Users : RequestReset(r, u)
      BY <3>4, GoingOnWaits DEF RequestReset, EditStates
    <3>5. CASE \E l \in LinkIds, p \in Passwords : SetChecks(r, l, p)
      BY <3>5, GoingOnWaits DEF SetChecks, EditStates
    <3>6. CASE Touch(r) \/ SignInOpens(r) \/ CreateLink(r) \/ RequestDies(r)
      BY <3>6, GoingOnWaits DEF Touch, SignInOpens, CreateLink, RequestDies, Idle, EditStates
    <3> QED
      BY <1>1, <3>2, <3>3, <3>4, <3>5, <3>6
  <2> QED
    BY <2>1, <2>2, StandingStands
<1>2. ASSUME NEW r \in Requests, Rehash(r)
      PROVE  Quiet
  <2>1. req[r] \in [at : {"rehash", "verified"}, user : DOMAIN users, password : Passwords]
    BY <1>2 DEF Rehash, TypeInv, RequestsOK, RequestOK, Fits
  <2>2. EditsWait
    BY <1>2, <2>1, GoingOnWaits DEF Rehash, EditStates
  <2>3. users[req[r].user] \in Account
    BY <2>1 DEF TypeInv, AccountTypeOK
  <2>4. CASE UNCHANGED users
    BY <2>2, <2>4, StandingStands
  <2>5. CASE users' = [users EXCEPT ![req[r].user].password = req[r].password,
                                    ![req[r].user].outdated = FALSE]
    <3>1. PICK account :
            /\ account = [users[req[r].user] EXCEPT !.password = req[r].password, !.outdated = FALSE]
            /\ users' = [users EXCEPT ![req[r].user] = account]
      BY <2>1, <2>5 DEF TypeInv, AccountTypeOK
    <3>2. SameStanding(account, users[req[r].user])
      BY <2>3, <3>1 DEF SameStanding, Account
    <3> QED
      BY <2>1, <2>2, <3>1, <3>2, OneChanges
  <2> QED
    BY <1>2, <2>4, <2>5 DEF Rehash
<1>3. ASSUME NEW r \in Requests, RegisterCommits(r)
      PROVE  Quiet
  <2>1. EditsWait
    BY <1>3, GoingOnWaits DEF RegisterCommits, Idle, EditStates
  <2>2. CASE req[r].user \in DOMAIN users
    BY <1>3, <2>1, <2>2, StandingStands DEF RegisterCommits
  <2>3. CASE req[r].user \notin DOMAIN users
    <3>1. PICK t \in FreeTenants :
            users' = Put(users, req[r].user, NewAccount(t, "OWNER", {}, req[r].password))
      BY <1>3, <2>3 DEF RegisterCommits
    <3>2. req[r].user \in Users
      BY <1>3 DEF RegisterCommits, TypeInv, RequestsOK, RequestOK, Fits
    <3>3. NewAccount(t, "OWNER", {}, req[r].password).scopes = {}
      BY DEF NewAccount
    <3> QED
      BY <2>1, <2>3, <3>1, <3>2, <3>3, OneJoins
  <2> QED
    BY <2>2, <2>3
<1>4. ASSUME NEW r \in Requests, consumeCredentialToken(r)
      PROVE  Quiet
  <2>1. req[r] \in [at : {"checked", "consumed"}, link : DOMAIN links, user : DOMAIN users,
                    password : Passwords]
    BY <1>4 DEF consumeCredentialToken, TypeInv, RequestsOK, RequestOK, Fits
  <2> QED
    BY <1>4, <2>1, GoingOnWaits, StandingStands DEF consumeCredentialToken, Idle, EditStates
<1>5. ASSUME NEW r \in Requests, SetWrites(r)
      PROVE  Quiet
  <2>1. req[r].user \in DOMAIN users /\ users[req[r].user] \in Account
    BY <1>5 DEF SetWrites, TypeInv, AccountTypeOK, RequestsOK, RequestOK, Fits
  <2>2. PICK account :
          /\ account = [Changed(users[req[r].user]) EXCEPT !.password = req[r].password,
                                                          !.outdated = FALSE]
          /\ users' = [users EXCEPT ![req[r].user] = account]
    BY <1>5 DEF SetWrites
  <2>3. SameStanding(account, users[req[r].user])
    BY <2>1, <2>2 DEF SameStanding, Account, Changed
  <2>4. EditsWait
    BY <1>5, GoingOnWaits DEF SetWrites, EditStates
  <2> QED
    BY <2>1, <2>2, <2>3, <2>4, OneChanges
<1>6. ASSUME NEW r \in Requests, ChangeRevokes(r)
      PROVE  Quiet
  <2>1. req[r].user \in DOMAIN users /\ users[req[r].user] \in Account
    BY <1>6 DEF ChangeRevokes, TypeInv, AccountTypeOK, RequestsOK, RequestOK, Fits
  <2>2. PICK account :
          /\ account = [users[req[r].user] EXCEPT
                          !.ended = Later(users[req[r].user].ended, req[r].change)]
          /\ users' = [users EXCEPT ![req[r].user] = account]
    BY <1>6, <2>1 DEF ChangeRevokes, TypeInv, AccountTypeOK
  <2>3. SameStanding(account, users[req[r].user])
    BY <2>1, <2>2 DEF SameStanding, Account
  <2>4. EditsWait
    BY <1>6, GoingOnWaits DEF ChangeRevokes, Idle, EditStates
  <2> QED
    BY <2>1, <2>2, <2>3, <2>4, OneChanges
<1>7. ASSUME NEW s \in SessionIds, NEW u \in Users, NEW role \in Roles, NEW orgs \in SUBSET Orgs,
             CreateUser(s, u, role, orgs)
      PROVE  Quiet
  <2> DEFINE tenant == users[sessions[s].user].tenant
  <2>1. PICK p \in Passwords \cup {None} :
          users' = Put(users, u, NewAccount(tenant, role, Assigned(role, orgs), p))
    BY <1>7 DEF CreateUser
  <2>2. /\ NewAccount(tenant, role, Assigned(role, orgs), p).role = role
        /\ NewAccount(tenant, role, Assigned(role, orgs), p).tenant = tenant
        /\ NewAccount(tenant, role, Assigned(role, orgs), p).scopes = Assigned(role, orgs)
    BY DEF NewAccount
  <2>3. /\ Assigned(role, orgs) \subseteq OrgsOf(tenant)
        /\ isScopedRole(role) \/ Assigned(role, orgs) = {}
    BY <1>7 DEF CreateUser, Assignable, Assigned
  <2>4. u \in Users \ DOMAIN users
    BY <1>7 DEF CreateUser
  <2>5. EditsWait
    BY <1>7 DEF CreateUser, EditsWait
  <2> QED
    BY <2>1, <2>2, <2>3, <2>4, <2>5, OneJoins
<1>8. ASSUME \/ \E s \in SessionIds : revokeSession(s)
             \/ Tick \/ UNCHANGED accountVars
      PROVE  Quiet
  BY <1>8, StandingStands DEF revokeSession, Tick, accountVars, EditsWait
<1> QED
  BY <1>1, <1>2, <1>3, <1>4, <1>5, <1>6, <1>7, <1>8 DEF Next, AccountStep

(* An edit that sets out, goes on or is over, with nothing written. *)
LEMMA UnwrittenIsSound ==
  ASSUME TypeInv, RaceInv, NEW r \in Requests, NEW q, Goto(r, q),
         UNCHANGED users, q.at \in EditStates => Sound(q)
  PROVE  RaceInv'
<1>1. req'[r] = q /\ \A p \in Requests \ {r} : req'[p] = req[p]
  BY DEF Goto, TypeInv, RequestsOK
<1>2. ASSUME NEW p \in Edits'
      PROVE  Sound(req'[p])
  BY <1>1, <1>2 DEF RaceInv, EditsSound, Edits
<1>3. ASSUME NEW p \in Edits'
      PROVE  Sound(req[p])'
  BY <1>2, <1>3 DEF Sound, OwnerLeft, ScopesSettled, WithinTenant, OtherOwners, OwnersOf
<1>4. AssignedWithinTenant'
  BY DEF RaceInv, AssignedWithinTenant
<1> QED
  BY <1>3, <1>4 DEF RaceInv, EditsSound

LEMMA ReadsAreSound ==
  ASSUME TypeInv, RaceInv,
         NEW r \in Requests, NEW s \in SessionIds, NEW u \in Users, NEW body \in Bodies,
         EditReads(r, s, u, body)
  PROVE  RaceInv'
<1> DEFINE role == Given(body.role, users[u].role)
           orgs == IF body.orgs = Kept THEN Kept ELSE Assigned(role, body.orgs)
           settled == [body EXCEPT !.orgs = orgs]
           at == IF LosesOwner(users[u], body) THEN "counting" ELSE "editing"
           q == [at |-> at, user |-> u, body |-> settled, left |-> {}, since |-> {}]
<1>1. Goto(r, q) /\ UNCHANGED users
  BY DEF EditReads
<1>2. body \in Body
  BY EditAssumption
<1>3. settled.role = body.role /\ settled.disabled = body.disabled /\ settled.orgs = orgs
  BY <1>2 DEF Body
<1>4. /\ Inserted(settled) \subseteq OrgsOf(users[u].tenant)
      /\ isScopedRole(role) \/ Inserted(settled) = {}
  <2>1. CASE body.orgs = Kept
    BY <1>3, <2>1 DEF Inserted, Given
  <2>2. CASE body.orgs # Kept
    <3>1. Assignable(users[u].tenant, role, body.orgs)
      BY <2>2 DEF EditReads
    <3>2. Inserted(settled) \in {{}, Assigned(role, body.orgs)}
      BY <1>3, <2>2 DEF Inserted, Given
    <3> QED
      BY <3>1, <3>2 DEF Assigned, Assignable
  <2> QED
    BY <2>1, <2>2
<1>5. LosesOwner(users[u], settled) <=> LosesOwner(users[u], body)
  BY <1>3 DEF LosesOwner
<1>6. at = "editing" => ~LosesOwner(users[u], settled)
  BY <1>5
<1>7. at \in {"counting", "editing"}
  OBVIOUS
<1> HIDE DEF at, orgs
<1>8. OwnerLeft(q)
  BY <1>6, <1>7 DEF OwnerLeft
<1>9. ScopesSettled(q) /\ WithinTenant(q)
  <2> HIDE DEF settled
  <2> QED
    BY <1>3, <1>4 DEF ScopesSettled, WithinTenant
<1> QED
  BY <1>1, <1>8, <1>9, UnwrittenIsSound DEF Sound

LEMMA GoingOnIsSound ==
  ASSUME TypeInv, RaceInv, NEW r \in Requests, EditGoesOn(r)
  PROVE  RaceInv'
<1>1. UNCHANGED users
  BY EditGoes
<1>2. Sound(req[r])
  BY EditInHand DEF RaceInv, EditsSound, Edits
<1>3. CASE Goto(r, Idle)
  BY <1>1, <1>3, UnwrittenIsSound DEF Idle, EditStates
<1>4. ASSUME NEW q, Goto(r, q), SameEdit(q, req[r]),
             \/ q.at = "editing" /\ OtherOwners(req[r].user) # {}
             \/ q.at = "replaced" /\ req[r].at = "editing"
      PROVE  RaceInv'
  <2>1. Sound(q)
    BY <1>2, <1>4 DEF Sound, SameEdit, OwnerLeft, ScopesSettled, WithinTenant
  <2> QED
    BY <1>1, <1>4, <2>1, UnwrittenIsSound
<1> QED
  BY <1>3, <1>4, EditGoes

(* What the transaction of an edit makes of its user. *)
LEMMA RowWritten ==
  ASSUME TypeInv, NEW r \in Requests, EditWrites(r)
  PROVE  LET u == req[r].user
             body == req[r].body
         IN /\ r \in Edits /\ u \in DOMAIN users /\ body \in Body
            /\ DOMAIN users' = DOMAIN users
            /\ \A v \in DOMAIN users \ {u} : users'[v] = users[v]
            /\ users'[u].tenant = users[u].tenant
            /\ users'[u].role = Given(body.role, users[u].role)
            /\ users'[u].disabled = Given(body.disabled, users[u].disabled)
            /\ users'[u].scopes = ScopesAfter(users[u], req[r])
<1>1. req[r].user \in DOMAIN users /\ r \in Edits /\ req[r].body \in Body
  BY EditInHand DEF Edits, Edit
<1> QED
  BY <1>1, UserWritten

LEMMA WritesAreSound ==
  ASSUME TypeInv, RaceInv, NEW r \in Requests, EditWrites(r)
  PROVE  RaceInv'
<1> DEFINE u == req[r].user
           body == req[r].body
<1>1. /\ r \in Edits /\ u \in DOMAIN users /\ body \in Body
      /\ DOMAIN users' = DOMAIN users
      /\ \A v \in DOMAIN users \ {u} : users'[v] = users[v]
      /\ users'[u].tenant = users[u].tenant
      /\ users'[u].scopes = ScopesAfter(users[u], req[r])
  BY RowWritten
<1>2. WithinTenant(req[r])
  BY <1>1 DEF RaceInv, EditsSound, Sound
<1>3. AssignedWithinTenant'
  <2>1. users[u].scopes \subseteq OrgsOf(users[u].tenant)
    BY <1>1 DEF RaceInv, AssignedWithinTenant
  <2>2. ScopesAfter(users[u], req[r]) \subseteq OrgsOf(users[u].tenant)
    BY <1>2, <2>1 DEF ScopesAfter, WithinTenant
  <2>3. \A v \in DOMAIN users : users'[v].scopes \subseteq OrgsOf(users'[v].tenant)
    BY <1>1, <2>2 DEF RaceInv, AssignedWithinTenant
  <2> QED
    BY <1>1, <2>3 DEF AssignedWithinTenant
<1>4. ASSUME NEW q \in Edits'
      PROVE  Sound(req[q])'
  <2>1. /\ q # r /\ q \in Requests /\ req'[q].at = req[q].at /\ q \in Edits
        /\ req'[q].user = req[q].user /\ req'[q].body = req[q].body
        /\ req'[q].since = req[q].since \cup {u}
        /\ req'[q].left \subseteq req[q].left \cup Inserted(body)
        /\ req[q].user # u => req'[q].left = req[q].left
    <3>1. q \in Requests /\ req'[q].at \in EditStates
      BY <1>4 DEF Edits
    <3>2. req'[r].at \notin EditStates
      BY WritesOnce DEF EditStates
    <3>3. req[q].at \in EditStates
      BY <3>1, <3>2, EditWritten
    <3>4. q \in Requests \ {r} /\ q \in Edits
      BY <3>1, <3>2, <3>3 DEF Edits
    <3>5. /\ req'[q].at = req[q].at /\ req'[q].user = req[q].user /\ req'[q].body = req[q].body
          /\ req'[q].since = req[q].since \cup {u}
          /\ req'[q].left \subseteq req[q].left \cup Inserted(body)
          /\ req[q].user # u => req'[q].left = req[q].left
      BY <3>3, <3>4, EditWritten
    <3> QED
      BY <3>4, <3>5
  <2>2. req[q].user \in DOMAIN users /\ req[q].since \subseteq DOMAIN users /\ Sound(req[q])
    BY <2>1, EditsInHand DEF RaceInv, EditsSound
  <2>3. \A v \in DOMAIN users : users'[v].tenant = users[v].tenant
    BY <1>1
  <2>4. OwnerLeft(req[q])'
    <3> SUFFICES ASSUME req[q].at \in {"editing", "replaced"},
                        LosesOwner(users'[req[q].user], req[q].body),
                        \A v \in req[q].since \cup {u} : users'[v].tenant # users'[req[q].user].tenant
                 PROVE  OtherOwners(req[q].user)' # {}
      BY <2>1 DEF OwnerLeft, OtherOwners, OwnersOf
    <3>1. users[u].tenant # users[req[q].user].tenant
      BY <1>1, <2>2, <2>3
    <3>2. users'[req[q].user] = users[req[q].user]
      BY <1>1, <2>2, <3>1
    <3>3. \A v \in req[q].since : users[v].tenant # users[req[q].user].tenant
      BY <2>2, <2>3
    <3>4. PICK w : w \in OtherOwners(req[q].user)
      BY <2>2, <3>2, <3>3 DEF Sound, OwnerLeft
    <3>5. w # u /\ w \in DOMAIN users
      BY <3>1, <3>4 DEF OtherOwners, OwnersOf
    <3>6. w \in DOMAIN users' /\ users'[w] = users[w]
      BY <1>1, <3>5
    <3>7. w \in OwnersOf(users[req[q].user].tenant)' /\ w # req'[q].user
      BY <2>1, <3>2, <3>4, <3>6 DEF OtherOwners, OwnersOf
    <3> QED
      BY <3>7 DEF OtherOwners
  <2>5. ScopesSettled(req[q])'
    <3> SUFFICES ASSUME req[q].user \notin req[q].since \cup {u}
                 PROVE  /\ req'[q].left = {}
                        /\ \/ isScopedRole(Given(req[q].body.role, users'[req[q].user].role))
                           \/ Inserted(req[q].body) = {}
      BY <2>1 DEF ScopesSettled
    <3>1. users'[req[q].user] = users[req[q].user]
      BY <1>1, <2>2
    <3> QED
      BY <2>1, <2>2, <3>1 DEF Sound, ScopesSettled
  <2>6. WithinTenant(req[q])'
    <3>1. req'[q].left \cup Inserted(req[q].body) \subseteq OrgsOf(users[req[q].user].tenant)
      <4>1. CASE req[q].user = u
        BY <1>2, <2>1, <2>2, <4>1 DEF Sound, WithinTenant
      <4>2. CASE req[q].user # u
        BY <2>1, <2>2, <4>2 DEF Sound, WithinTenant
      <4> QED
        BY <4>1, <4>2
    <3> QED
      BY <2>1, <2>2, <2>3, <3>1 DEF WithinTenant
  <2> QED
    BY <2>4, <2>5, <2>6 DEF Sound
<1> QED
  BY <1>3, <1>4 DEF RaceInv, EditsSound

(* An account changes its standing by an edit or not at all. *)
LEMMA AdminSteps ==
  ASSUME TypeInv, [AdminNext]_accountVars
  PROVE  \/ Quiet
         \/ \E r \in Requests : EditWrites(r)
         \/ /\ UNCHANGED users
            /\ \E r \in Requests :
                 \/ EditGoesOn(r)
                 \/ \E s \in SessionIds, u \in Users, body \in Bodies : EditReads(r, s, u, body)
<1>1. ASSUME NEW r \in Requests, EditGoesOn(r)
      PROVE  UNCHANGED users
  BY <1>1, EditGoes
<1>2. ASSUME NEW r \in Requests,
             \E s \in SessionIds, u \in Users, body \in Bodies : EditReads(r, s, u, body)
      PROVE  UNCHANGED users
  BY <1>2 DEF EditReads
<1>3. CASE \E r \in Requests : EditStep(r)
  BY <1>1, <1>2, <1>3 DEF EditStep, EditGoesOn
<1>4. CASE ~\E r \in Requests : EditStep(r)
  BY <1>4, OthersAreQuiet DEF AdminNext
<1> QED
  BY <1>3, <1>4

LEMMA RaceSteps == TypeInv /\ RaceInv /\ [AdminNext]_accountVars => RaceInv'
BY AdminSteps, QuietIsSound, WritesAreSound, GoingOnIsSound, ReadsAreSound

LEMMA FoundersStand == Init => RaceInv
<1> SUFFICES ASSUME Init PROVE RaceInv
  OBVIOUS
<1>1. ASSUME NEW u \in DOMAIN users
      PROVE  users[u].scopes = {}
  <2>1. PICK t \in Tenants, p \in Passwords, o \in BOOLEAN :
          users[u] = [NewAccount(t, "OWNER", {}, p) EXCEPT !.outdated = o]
    BY DEF Init
  <2> QED
    BY <2>1 DEF NewAccount
<1>2. Edits = {}
  BY DEF Init, Idle, Edits, EditStates
<1> QED
  BY <1>1, <1>2 DEF RaceInv, EditsSound, AssignedWithinTenant

LEMMA RaceInvariant == AdminSpec => []RaceInv
BY FoundersStand, RaceSteps, AccountsTyped, PTL DEF AdminSpec

(* Users are assigned businesses of their own tenant only, however edits race *)
(* (validateClientOrgs, and the two statements of update's transaction).      *)
THEOREM WithinTheTenant == AdminSpec => []AssignedWithinTenant
<1>1. RaceInv => AssignedWithinTenant
  BY DEF RaceInv
<1> QED
  BY <1>1, RaceInvariant, PTL

(* The last owner of a tenant is lost only to an edit that another of the tenant has *)
(* overtaken (assertAnotherOwnerRemains): the count holds up to the write.           *)
THEOREM LastOwnerLost == AdminSpec => LastOwnerFallsToARace
<1>1. TypeInv /\ RaceInv /\ [AdminNext]_accountVars =>
        \A t \in Tenants :
          OwnersOf(t) # {} /\ OwnersOf(t)' = {} =>
            \E r \in Requests : WritesAfter(r, {v \in DOMAIN users : users[v].tenant = t})
  <2> SUFFICES ASSUME TypeInv, RaceInv, [AdminNext]_accountVars, NEW t \in Tenants,
                      NEW w \in OwnersOf(t), OwnersOf(t)' = {}
               PROVE  \E r \in Requests : WritesAfter(r, {v \in DOMAIN users : users[v].tenant = t})
    OBVIOUS
  <2>1. ~Quiet
    BY OwnersStay DEF Quiet
  <2>2. ~UNCHANGED users
    BY DEF OwnersOf
  <2>3. PICK r \in Requests : EditWrites(r)
    BY <2>1, <2>2, AdminSteps
  <2> DEFINE u == req[r].user
             body == req[r].body
  <2>4. /\ r \in Edits /\ u \in DOMAIN users /\ body \in Body
        /\ DOMAIN users' = DOMAIN users
        /\ \A v \in DOMAIN users \ {u} : users'[v] = users[v]
        /\ users'[u].tenant = users[u].tenant
        /\ users'[u].role = Given(body.role, users[u].role)
        /\ users'[u].disabled = Given(body.disabled, users[u].disabled)
    BY <2>3, RowWritten
  <2>5. OwnersOf(t) = {u}
    <3>1. ASSUME NEW v \in OwnersOf(t), v # u
          PROVE  FALSE
      <4>1. v \in OwnersOf(t)'
        BY <2>4, <3>1 DEF OwnersOf
      <4> QED
        BY <4>1
    <3> QED
      BY <3>1
  <2>6. users[u].tenant = t /\ users[u].role = "OWNER" /\ ~users[u].disabled
    BY <2>5 DEF OwnersOf
  <2>7. users'[u].role # "OWNER" \/ users'[u].disabled
    BY <2>4, <2>6 DEF OwnersOf
  <2>8. LosesOwner(users[u], body)
    <3>1. CASE users'[u].role # "OWNER"
      BY <2>4, <2>6, <3>1 DEF LosesOwner, Given
    <3>2. CASE users'[u].disabled
      <4>1. body.disabled # Kept
        BY <2>4, <2>6, <3>2 DEF Given
      <4>2. body.disabled = TRUE
        BY <2>4, <3>2, <4>1 DEF Given, Body
      <4> QED
        BY <2>6, <4>2 DEF LosesOwner
    <3> QED
      BY <2>7, <3>1, <3>2
  <2>9. OtherOwners(u) = {}
    BY <2>5, <2>6 DEF OtherOwners
  <2>10. req[r].at = "replaced" /\ req'[r].at = "written"
    BY <2>3, WritesOnce
  <2>11. PICK v \in req[r].since : users[v].tenant = t
    BY <2>4, <2>6, <2>8, <2>9, <2>10 DEF RaceInv, EditsSound, Sound, OwnerLeft
  <2>12. v \in DOMAIN users
    BY <2>4, EditsInHand
  <2> QED
    BY <2>10, <2>11, <2>12 DEF WritesAfter
<1> QED
  BY <1>1, AccountsTyped, RaceInvariant, PTL DEF AdminSpec, LastOwnerFallsToARace

(* Assignments lie under an unscoped role only by an edit that another of the same *)
(* user has overtaken (update).                                                    *)
THEOREM StraysFollowARace == AdminSpec => StrayAssignmentsFollowARace
<1>1. TypeInv /\ RaceInv /\ [AdminNext]_accountVars =>
        \A u \in DOMAIN users' :
          ~WellAssigned(u)' =>
            \/ u \in DOMAIN users /\ ~WellAssigned(u)
            \/ \E r \in Requests : WritesAfter(r, {u}) /\ req[r].user = u
  <2> SUFFICES ASSUME TypeInv, RaceInv, [AdminNext]_accountVars, NEW u \in DOMAIN users',
                      ~WellAssigned(u)', u \in DOMAIN users => WellAssigned(u)
               PROVE  \E r \in Requests : WritesAfter(r, {u}) /\ req[r].user = u
    OBVIOUS
  <2>1. ~Quiet
    BY DEF Quiet, StandingKept, SameStanding, NewcomersFit, NewcomerFits, WellAssigned
  <2>2. ~UNCHANGED users
    BY DEF WellAssigned
  <2>3. PICK r \in Requests : EditWrites(r)
    BY <2>1, <2>2, AdminSteps
  <2> DEFINE body == req[r].body
  <2>4. /\ r \in Edits /\ body \in Body /\ u \in DOMAIN users
        /\ u # req[r].user => users'[u] = users[u]
        /\ u = req[r].user => /\ users'[u].role = Given(body.role, users[u].role)
                              /\ users'[u].scopes = ScopesAfter(users[u], req[r])
    BY <2>3, RowWritten
  <2>5. u = req[r].user
    BY <2>4 DEF WellAssigned
  <2>6. u \in req[r].since
    <3> SUFFICES ASSUME u \notin req[r].since PROVE FALSE
      OBVIOUS
    <3>1. /\ req[r].left = {}
          /\ isScopedRole(Given(body.role, users[u].role)) \/ Inserted(body) = {}
      BY <2>4, <2>5 DEF RaceInv, EditsSound, Sound, ScopesSettled
    <3>2. ~isScopedRole(users'[u].role) /\ users'[u].scopes # {}
      BY DEF WellAssigned
    <3>3. Inserted(body) = {}
      BY <2>4, <2>5, <3>1, <3>2
    <3>4. ~Replaces(body) /\ users'[u].scopes = users[u].scopes
      BY <2>4, <2>5, <3>1, <3>2, <3>3 DEF ScopesAfter
    <3>5. users'[u].role = users[u].role \/ isScopedRole(users'[u].role)
      BY <2>4, <2>5, <3>4 DEF Replaces, Promotes, Given
    <3> QED
      BY <2>4, <3>2, <3>4, <3>5 DEF WellAssigned
  <2>7. req[r].at = "replaced" /\ req'[r].at = "written"
    BY <2>3, WritesOnce
  <2> QED
    BY <2>5, <2>6, <2>7 DEF WritesAfter
<1> QED
  BY <1>1, AccountsTyped, RaceInvariant, PTL DEF AdminSpec, StrayAssignmentsFollowARace
=============================================================================
