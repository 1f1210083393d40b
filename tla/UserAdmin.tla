------------------------------ MODULE UserAdmin ------------------------------
(***************************************************************************)
(* User administration (apps/api/src/users/users.controller.ts) over the   *)
(* accounts and their sessions: an owner creates users and edits their     *)
(* role, their client businesses and whether they may sign in, while       *)
(* everyone goes on signing in and setting passwords.                      *)
(*                                                                         *)
(* An edit reads the user, counts the other owners, writes in one          *)
(* transaction and revokes; nothing keeps edits apart.  The transaction is *)
(* two steps, for it runs at READ COMMITTED: it deletes the assignments    *)
(* committed by then, and inserts what was sent beside any committed since.*)
(***************************************************************************)
EXTENDS Accounts

CONSTANTS
  Bodies,         \* the edits users send
  Kept,           \* what a body does not mention
  MaxChanges      \* a bound of a model: edits of one account

\* UpdateUserDto.
Body == [role : Roles \cup {Kept}, disabled : BOOLEAN \cup {Kept}, orgs : (SUBSET Orgs) \cup {Kept}]

ASSUME EditAssumption ==
  /\ MaxChanges \in Nat
  /\ Kept \notin Roles /\ Kept \notin BOOLEAN
  /\ Bodies \subseteq Body

Given(value, default) == IF value = Kept THEN default ELSE value

\* The user making a request, if the guards let it through: SessionGuard, then
\* PermissionGuard.  (What SessionGuard writes is Resolve and Touch.)
MayManageUsers(s) == Accepted(s) /\ canActivate(users[sessions[s].user], "user:manage")

OwnersOf(tenant) ==
  {u \in DOMAIN users : users[u].tenant = tenant /\ users[u].role = "OWNER" /\ ~users[u].disabled}

\* validateClientOrgs finds nothing against them.
Assignable(tenant, role, orgs) == isScopedRole(role) => orgs \subseteq OrgsOf(tenant)

\* Mutation: what is not validated is returned as it was sent.
AssignedAsSent(role, orgs) == orgs

\* What validateClientOrgs returns then.
Assigned(role, orgs) == IF isScopedRole(role) THEN orgs ELSE {}

\* create: the user and the invitation in one transaction, which the address being
\* taken rolls back; with a password there is no invitation.  The mail is sent after.
CreateUser(s, u, role, orgs) ==
  /\ MayManageUsers(s)
  /\ u \notin DOMAIN users
  /\ LET tenant == users[sessions[s].user].tenant IN
     /\ Assignable(tenant, role, orgs)
     /\ \/ \E p \in Passwords :
             /\ users' = Put(users, u, NewAccount(tenant, role, Assigned(role, orgs), p))
             /\ UNCHANGED links
        \/ \E l \in LinkIds \ DOMAIN links :
             /\ users' = Put(users, u, NewAccount(tenant, role, Assigned(role, orgs), None))
             /\ links' = Put(links, l, NewLink(u, "INVITATION"))
  /\ UNCHANGED <<sessions, req, now>>

EditStates == {"counting", "editing", "replaced"}

\* An edit under way.  left: the assignments of the user that its deletion has not
\* seen.  since is history, read by no action: the users that other edits have
\* written since this one has read its own.
Edit == [at : EditStates, user : Users, body : Body, left : SUBSET Orgs, since : SUBSET Users]

LosesOwner(account, body) ==
  /\ account.role = "OWNER"
  /\ Given(body.role, "OWNER") # "OWNER" \/ body.disabled = TRUE

\* update, up to its count: the user, and what is refused at once.  nextRole and the
\* client businesses are settled on what is read here.
EditReads(r, s, u, body) ==
  /\ req[r] = Idle
  /\ MayManageUsers(s)
  /\ u \in DOMAIN users
  /\ LET actor == sessions[s].user IN
     /\ users[u].tenant = users[actor].tenant
     /\ ~(u = actor /\ body.disabled = TRUE)
  /\ IF body.orgs = Kept THEN TRUE
     ELSE Assignable(users[u].tenant, Given(body.role, users[u].role), body.orgs)
  /\ users[u].changes < MaxChanges
  /\ Goto(r, [at |-> IF LosesOwner(users[u], body) THEN "counting" ELSE "editing", user |-> u,
              body |-> [body EXCEPT !.orgs =
                          IF body.orgs = Kept THEN Kept
                          ELSE Assigned(Given(body.role, users[u].role), body.orgs)],
              left |-> {}, since |-> {}])
  /\ UNCHANGED <<users, sessions, links, now>>

\* Mutation: the user being edited is counted too.
OtherOwnersAndSelf(u) == OwnersOf(users[u].tenant)

OtherOwners(u) == OwnersOf(users[u].tenant) \ {u}

\* assertAnotherOwnerRemains.
EditCounts(r) ==
  /\ req[r].at = "counting"
  /\ IF OtherOwners(req[r].user) # {}
     THEN Goto(r, [req[r] EXCEPT !.at = "editing"])
     ELSE Goto(r, Idle)
  /\ UNCHANGED <<users, sessions, links, now>>

Promotes(body) == body.role # Kept /\ ~isScopedRole(body.role)

\* The assignments are replaced, and dropped with a promotion.
Replaces(body) == body.orgs # Kept \/ Promotes(body)

Inserted(body) == Given(body.orgs, {})

\* The transaction of update deletes the assignments there are.
EditReplaces(r) ==
  /\ req[r].at = "editing"
  /\ Goto(r, [req[r] EXCEPT !.at = "replaced"])
  /\ UNCHANGED <<users, sessions, links, now>>

\* Mutation: client businesses stay with a user promoted to an unscoped role.
ScopesAsSent(account, edit) ==
  IF edit.body.orgs # Kept THEN edit.left \cup Inserted(edit.body) ELSE account.scopes

ScopesAfter(account, edit) ==
  IF Replaces(edit.body) THEN edit.left \cup Inserted(edit.body) ELSE account.scopes

\* What another edit makes of q by being written: of the assignments there are then, q's
\* deletion has not seen those inserted, nor those that neither has seen.
Overtaken(q, edit) ==
  IF q.at \notin EditStates THEN q
  ELSE [q EXCEPT !.since = @ \cup {edit.user},
                 !.left = IF q.at = "replaced" /\ q.user = edit.user /\ Replaces(edit.body)
                          THEN (@ \cap edit.left) \cup Inserted(edit.body) ELSE @]

\* The transaction inserts, updates the user and commits.
EditWrites(r) ==
  /\ req[r].at = "replaced"
  /\ req[r].left \cap Inserted(req[r].body) = {}
  /\ LET u == req[r].user
         body == req[r].body
     IN /\ users' = [users EXCEPT ![u] =
                       [Changed(users[u]) EXCEPT !.role = Given(body.role, @),
                                                 !.disabled = Given(body.disabled, @),
                                                 !.scopes = ScopesAfter(users[u], req[r])]]
        /\ req' = [q \in Requests |->
                     IF q = r THEN [at |-> "written", user |-> u, change |-> users[u].changes + 1]
                     ELSE Overtaken(req[q], req[r])]
  /\ UNCHANGED <<sessions, links, now>>

\* An assignment it inserts is there again: the transaction is rolled back.
EditCollides(r) ==
  /\ req[r].at = "replaced"
  /\ req[r].left \cap Inserted(req[r].body) # {}
  /\ Goto(r, Idle)
  /\ UNCHANGED <<users, sessions, links, now>>

EditStep(r) ==
  \/ \E s \in SessionIds, u \in Users, body \in Bodies : EditReads(r, s, u, body)
  \/ EditCounts(r)
  \/ EditReplaces(r)
  \/ EditWrites(r)
  \/ EditCollides(r)

AdminNext ==
  \/ Next
  \/ \E r \in Requests : EditStep(r)
  \/ \E s \in SessionIds, u \in Users, role \in Roles, orgs \in SUBSET Orgs :
       CreateUser(s, u, role, orgs)

AdminSpec == Init /\ [][AdminNext]_accountVars

---------------------------------------------------------------------------
(* Correctness *)

\* r has written, having been overtaken by the writing of an edit of one of these users.
WritesAfter(r, others) ==
  req[r].at = "replaced" /\ req'[r].at = "written" /\ req[r].since \cap others # {}

(* A tenant loses its last owner who can sign in only to an edit that another edit *)
(* of the tenant has overtaken, after it counted or after it read the user as no   *)
(* owner (update, assertAnotherOwnerRemains): never to one by itself, nor to what  *)
(* signs in, registers, is invited or sets a password in between.                  *)
LastOwnerFallsToARace ==
  [][\A t \in Tenants :
       OwnersOf(t) # {} /\ OwnersOf(t)' = {} =>
         \E r \in Requests : WritesAfter(r, {v \in DOMAIN users : users[v].tenant = t})
    ]_accountVars

WellAssigned(u) == isScopedRole(users[u].role) \/ users[u].scopes = {}

(* Assignments come to lie under an unscoped role only by an edit that another edit *)
(* of the same user has overtaken, whatever was sent and in whatever order.         *)
StrayAssignmentsFollowARace ==
  [][\A u \in DOMAIN users' :
       ~WellAssigned(u)' =>
         \/ u \in DOMAIN users /\ ~WellAssigned(u)
         \/ \E r \in Requests : WritesAfter(r, {u}) /\ req[r].user = u]_accountVars

(* "Client-org assignments are validated against the tenant's own orgs": however      *)
(* edits race, whatever role they were validated for and whichever transaction leaves *)
(* its assignments beside another's, a user is assigned businesses of its own tenant. *)
AssignedWithinTenant ==
  \A u \in DOMAIN users : users[u].scopes \subseteq OrgsOf(users[u].tenant)
==============================================================================
