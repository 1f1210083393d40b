------------------------------ MODULE Accounts ------------------------------
(***************************************************************************)
(* Accounts, sessions and one-time links (packages/auth): signing in,      *)
(* resolving and revoking sessions, asking for a link and setting a        *)
(* password with it.  Each statement a request sends to the database is a  *)
(* step; what a request has read is kept in req, and any request may be    *)
(* cut short between two statements.                                       *)
(*                                                                         *)
(* The unit of the clock is coarse: a request ends within the unit it      *)
(* began in.                                                               *)
(***************************************************************************)
EXTENDS Naturals, Permissions

CONSTANTS
  Users,          \* e-mail addresses, which identify accounts
  Passwords,
  SessionIds, LinkIds, Requests,
  SESSION_MAX_AGE, SESSION_ABSOLUTE_MAX_AGE, SESSION_TOUCH_INTERVAL,
  PASSWORD_RESET_TTL, INVITATION_TTL,
  Founders,       \* the accounts there are to begin with
  Horizon,        \* the last instant of a model
  None

ASSUME AgeAssumption ==
  /\ SESSION_MAX_AGE \in Nat /\ SESSION_ABSOLUTE_MAX_AGE \in Nat /\ SESSION_TOUCH_INTERVAL \in Nat
  /\ SESSION_MAX_AGE <= SESSION_ABSOLUTE_MAX_AGE
  /\ PASSWORD_RESET_TTL \in Nat /\ INVITATION_TTL \in Nat /\ Horizon \in Nat
ASSUME NoneAssumption == None \notin Passwords
ASSUME FounderAssumption == Founders \subseteq Users

VARIABLES
  users,          \* User rows
  sessions,       \* Session rows
  links,          \* CredentialToken rows
  req,            \* what each request under way has read
  now

accountVars == <<users, sessions, links, req, now>>

\* changes and ended are history: how many times what the account can do has been
\* changed (a password set, an edit), and up to which change sessions were ended.
Account ==
  [tenant : Tenants, role : Roles, scopes : SUBSET Orgs, disabled : BOOLEAN,
   password : Passwords \cup {None}, outdated : BOOLEAN,
   changes : Nat, ended : Nat]

\* used is history, the last time the session was accepted; change is the change
\* of the account it was opened after.
Session ==
  [user : Users, created : Nat, lastSeen : Nat, expires : Nat, revoked : BOOLEAN,
   used : Nat, change : Nat]

\* passwords is history: how many the link has set.
Link ==
  [user : Users, purpose : {"INVITATION", "PASSWORD_RESET"}, expires : Nat,
   used : BOOLEAN, superseded : BOOLEAN, passwords : Nat]

Idle == [at |-> "idle"]

AccountRequest ==
  {Idle}
  \cup [at : {"rehash", "verified"}, user : Users, password : Passwords]
  \cup [at : {"resolved"}, session : SessionIds]
  \cup [at : {"issuing"}, user : Users]
  \cup [at : {"checked", "consumed"}, link : LinkIds, user : Users, password : Passwords]
  \cup [at : {"written"}, user : Users, change : Nat]
  \cup [at : {"registering"}, user : Users, password : Passwords]
  \cup [at : {"registered"}, user : Users]

AccountTypeOK ==
  /\ DOMAIN users \subseteq Users /\ users \in [DOMAIN users -> Account]
  /\ DOMAIN sessions \subseteq SessionIds /\ sessions \in [DOMAIN sessions -> Session]
  /\ DOMAIN links \subseteq LinkIds /\ links \in [DOMAIN links -> Link]
  /\ now \in 0..Horizon

Put(table, key, row) == [k \in DOMAIN table \cup {key} |-> IF k = key THEN row ELSE table[k]]

Goto(r, state) == req' = [req EXCEPT ![r] = state]

NewAccount(tenant, role, scopes, password) ==
  [tenant |-> tenant, role |-> role, scopes |-> scopes, disabled |-> FALSE,
   password |-> password, outdated |-> FALSE, changes |-> 0, ended |-> 0]

\* Any password may be stored, under parameters since raised.
Init ==
  /\ users \in [Founders -> {[NewAccount(t, "OWNER", {}, p) EXCEPT !.outdated = o] :
                               t \in Tenants, p \in Passwords, o \in BOOLEAN}]
  /\ \A u, v \in Founders : users[u].tenant = users[v].tenant
  /\ sessions = <<>> /\ links = <<>>
  /\ req = [r \in Requests |-> Idle]
  /\ now = 0

---------------------------------------------------------------------------
(* Sessions *)

Earlier(a, b) == IF a <= b THEN a ELSE b

AbsoluteEnd(session) == session.created + SESSION_ABSOLUTE_MAX_AGE

\* createSession.
OpenSession(u) ==
  \E s \in SessionIds \ DOMAIN sessions :
    sessions' = Put(sessions, s,
      [user |-> u, created |-> now, lastSeen |-> now, expires |-> now + SESSION_MAX_AGE,
       revoked |-> FALSE, used |-> now, change |-> users[u].changes])

\* What resolveSession answers for the token of s.
Accepted(s) ==
  /\ s \in DOMAIN sessions
  /\ ~sessions[s].revoked
  /\ sessions[s].expires > now
  /\ AbsoluteEnd(sessions[s]) > now
  /\ ~users[sessions[s].user].disabled

IsStale(session) == now - session.lastSeen > SESSION_TOUCH_INTERVAL

\* resolveSession: a session seen lately is only read.
Resolve(r, s) ==
  /\ req[r] = Idle
  /\ Accepted(s)
  /\ IF IsStale(sessions[s])
     THEN Goto(r, [at |-> "resolved", session |-> s]) /\ UNCHANGED sessions
     ELSE sessions' = [sessions EXCEPT ![s].used = now] /\ UNCHANGED req
  /\ UNCHANGED <<users, links, now>>

\* Mutation: sliding without the hard cap.
SlidUncapped(session) == now + SESSION_MAX_AGE

Slid(session) == Earlier(now + SESSION_MAX_AGE, AbsoluteEnd(session))

\* The other statement of resolveSession, whatever has become of the row.
Touch(r) ==
  /\ req[r].at = "resolved"
  /\ LET s == req[r].session
     IN sessions' = [sessions EXCEPT ![s].lastSeen = now, ![s].used = now,
                                     ![s].expires = Slid(sessions[s])]
  /\ Goto(r, Idle)
  /\ UNCHANGED <<users, links, now>>

\* signOut.
revokeSession(s) ==
  /\ s \in DOMAIN sessions /\ ~sessions[s].revoked
  /\ sessions' = [sessions EXCEPT ![s].revoked = TRUE]
  /\ UNCHANGED <<users, links, req, now>>

\* Mutation: only the sessions opened before this instant.
revokeEarlierSessions(u) ==
  sessions' = [s \in DOMAIN sessions |->
                 IF sessions[s].user = u /\ sessions[s].created < now
                 THEN [sessions[s] EXCEPT !.revoked = TRUE] ELSE sessions[s]]

revokeAllSessions(u) ==
  sessions' = [s \in DOMAIN sessions |->
                 IF sessions[s].user = u THEN [sessions[s] EXCEPT !.revoked = TRUE] ELSE sessions[s]]

---------------------------------------------------------------------------
(* Signing in *)

\* An account that has set no password has none to be verified.
verifyPassword(p, stored) == stored # None /\ p = stored

needsRehash(account) == account.outdated

\* authenticate, up to its update.
SignInReads(r, u, p) ==
  /\ req[r] = Idle
  /\ u \in DOMAIN users
  /\ verifyPassword(p, users[u].password)
  /\ ~users[u].disabled
  /\ Goto(r, [at |-> IF needsRehash(users[u]) THEN "rehash" ELSE "verified", user |-> u, password |-> p])
  /\ UNCHANGED <<users, sessions, links, now>>

\* The verified password is hashed again and stored; a failure is swallowed.
Rehash(r) ==
  /\ req[r].at = "rehash"
  /\ \/ users' = [users EXCEPT ![req[r].user].password = req[r].password,
                               ![req[r].user].outdated = FALSE]
     \/ UNCHANGED users
  /\ Goto(r, [req[r] EXCEPT !.at = "verified"])
  /\ UNCHANGED <<sessions, links, now>>

\* signIn goes on to createSession, and so does register.
SignInOpens(r) ==
  /\ req[r].at \in {"verified", "registered"}
  /\ OpenSession(req[r].user)
  /\ Goto(r, Idle)
  /\ UNCHANGED <<users, links, now>>

\* The tenants a registration may create.
FreeTenants == Tenants \ {users[v].tenant : v \in DOMAIN users}

\* registerTenant, up to its transaction.
RegisterReads(r, u, p) ==
  /\ req[r] = Idle
  /\ u \notin DOMAIN users
  /\ FreeTenants # {}
  /\ Goto(r, [at |-> "registering", user |-> u, password |-> p])
  /\ UNCHANGED <<users, sessions, links, now>>

\* Its transaction: a tenant and its owner, unless the address is taken by now.
RegisterCommits(r) ==
  /\ req[r].at = "registering"
  /\ LET u == req[r].user
     IN IF u \in DOMAIN users
        THEN UNCHANGED users /\ Goto(r, Idle)
        ELSE /\ \E t \in FreeTenants :
                  users' = Put(users, u, NewAccount(t, "OWNER", {}, req[r].password))
             /\ Goto(r, [at |-> "registered", user |-> u])
  /\ UNCHANGED <<sessions, links, now>>

---------------------------------------------------------------------------
(* One-time links *)

ttlFor(purpose) == IF purpose = "INVITATION" THEN INVITATION_TTL ELSE PASSWORD_RESET_TTL

NewLink(u, purpose) ==
  [user |-> u, purpose |-> purpose, expires |-> now + ttlFor(purpose),
   used |-> FALSE, superseded |-> FALSE, passwords |-> 0]

\* requestPasswordReset, and the first statement of issueCredentialToken.
RequestReset(r, u) ==
  /\ req[r] = Idle
  /\ u \in DOMAIN users /\ ~users[u].disabled
  /\ LinkIds \ DOMAIN links # {}
  /\ links' = [l \in DOMAIN links |->
                 IF links[l].user = u /\ links[l].purpose = "PASSWORD_RESET" /\ ~links[l].used
                 THEN [links[l] EXCEPT !.superseded = TRUE] ELSE links[l]]
  /\ Goto(r, [at |-> "issuing", user |-> u])
  /\ UNCHANGED <<users, sessions, now>>

\* The other statement; the mail may be lost, the link is issued.
CreateLink(r) ==
  /\ req[r].at = "issuing"
  /\ \E l \in LinkIds \ DOMAIN links :
       links' = Put(links, l, NewLink(req[r].user, "PASSWORD_RESET"))
  /\ Goto(r, Idle)
  /\ UNCHANGED <<users, sessions, now>>

\* checkCredentialToken finds nothing against the link.
checkCredentialToken(l) ==
  /\ l \in DOMAIN links
  /\ ~links[l].used
  /\ ~links[l].superseded
  /\ links[l].expires > now
  /\ ~users[links[l].user].disabled

\* setPasswordWithToken: the link is checked, and so is the new password.
SetChecks(r, l, p) ==
  /\ req[r] = Idle
  /\ checkCredentialToken(l)
  /\ Goto(r, [at |-> "checked", link |-> l, user |-> links[l].user, password |-> p])
  /\ UNCHANGED <<users, sessions, links, now>>

\* Mutation: the update does not ask whether the link is used.
ConsumableAgain(link) == ~link.superseded /\ link.expires > now

\* The condition of the update in consumeCredentialToken.
Consumable(link) == ~link.used /\ ~link.superseded /\ link.expires > now

consumeCredentialToken(r) ==
  /\ req[r].at = "checked"
  /\ LET l == req[r].link
     IN IF Consumable(links[l])
        THEN /\ links' = [links EXCEPT ![l].used = TRUE]
             /\ Goto(r, [req[r] EXCEPT !.at = "consumed"])
        ELSE UNCHANGED links /\ Goto(r, Idle)
  /\ UNCHANGED <<users, sessions, now>>

\* The account has changed for the (changes + 1)-th time.
Changed(account) == [account EXCEPT !.changes = @ + 1]

SetWrites(r) ==
  /\ req[r].at = "consumed"
  /\ LET u == req[r].user
     IN /\ users' = [users EXCEPT ![u] = [Changed(users[u]) EXCEPT !.password = req[r].password,
                                                                  !.outdated = FALSE]]
        /\ Goto(r, [at |-> "written", user |-> u, change |-> users[u].changes + 1])
  /\ links' = [links EXCEPT ![req[r].link].passwords = @ + 1]
  /\ UNCHANGED <<sessions, now>>

Later(a, b) == IF a >= b THEN a ELSE b

\* The last statement: every session of the user is revoked.
ChangeRevokes(r) ==
  /\ req[r].at = "written"
  /\ revokeAllSessions(req[r].user)
  /\ users' = [users EXCEPT ![req[r].user].ended = Later(users[req[r].user].ended, req[r].change)]
  /\ Goto(r, Idle)
  /\ UNCHANGED <<links, now>>

---------------------------------------------------------------------------
(* The process of a request dies, or the database fails it. *)
RequestDies(r) ==
  /\ req[r] # Idle
  /\ Goto(r, Idle)
  /\ UNCHANGED <<users, sessions, links, now>>

Tick ==
  /\ now < Horizon
  /\ req = [r \in Requests |-> Idle]
  /\ now' = now + 1
  /\ UNCHANGED <<users, sessions, links, req>>

AccountStep(r) ==
  \/ \E s \in SessionIds : Resolve(r, s)
  \/ Touch(r)
  \/ \E u \in Users, p \in Passwords : SignInReads(r, u, p) \/ RegisterReads(r, u, p)
  \/ Rehash(r)
  \/ SignInOpens(r)
  \/ RegisterCommits(r)
  \/ \E u \in Users : RequestReset(r, u)
  \/ CreateLink(r)
  \/ \E l \in LinkIds, p \in Passwords : SetChecks(r, l, p)
  \/ consumeCredentialToken(r)
  \/ SetWrites(r)
  \/ ChangeRevokes(r)
  \/ RequestDies(r)

Next ==
  \/ \E r \in Requests : AccountStep(r)
  \/ \E s \in SessionIds : revokeSession(s)
  \/ Tick

Spec == Init /\ [][Next]_accountVars

---------------------------------------------------------------------------
(* Correctness *)

(* A session is over when it has not been used for its age, and at its absolute *)
(* end; and a user who comes back sooner than the age less one touch interval   *)
(* is not signed out before that end, whichever of its requests wrote the row.  *)
SlidingWindow ==
  \A s \in DOMAIN sessions :
    LET end == AbsoluteEnd(sessions[s])
        used == sessions[s].used
    IN /\ sessions[s].expires <= Earlier(used + SESSION_MAX_AGE, end)
       /\ sessions[s].expires + SESSION_TOUCH_INTERVAL
            >= Earlier(used + SESSION_MAX_AGE, end)

(* A link sets one password at most, however many submissions of it race, and is *)
(* spent when it has.                                                            *)
LinkSetsOnePassword ==
  \A l \in DOMAIN links :
    links[l].passwords <= 1 /\ (links[l].passwords = 1 => links[l].used)

(* Once a new password or an edit of an account has run to its end, no session   *)
(* opened before it was written is left alive, sign-ins and touches in between   *)
(* notwithstanding.                                                              *)
ChangeEndsSessions ==
  \A s \in DOMAIN sessions :
    ~sessions[s].revoked => sessions[s].change >= users[sessions[s].user].ended
=============================================================================
