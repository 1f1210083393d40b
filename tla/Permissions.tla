---------------------------- MODULE Permissions ----------------------------
(***************************************************************************)
(* Who may do what, and on which client businesses                         *)
(* (packages/auth/src/permissions.ts, apps/api/src/auth/scope.ts).         *)
(***************************************************************************)

CONSTANTS Tenants, Orgs,          \* the accounts, and the client businesses
          TenantOf                \* the tenant of each client business

Roles == {"OWNER", "ACCOUNTANT", "CLIENT_USER"}

\* Permission.
Permissions == {"clientOrg:read", "clientOrg:create", "invoice:read", "invoice:issue",
                "invoice:receive", "invoice:download", "invoice:transmit",
                "pdp:read", "pdp:manage", "user:manage"}

ROLE_PERMISSIONS ==
  [OWNER       |-> Permissions,
   ACCOUNTANT  |-> Permissions \ {"user:manage"},
   CLIENT_USER |-> {"clientOrg:read", "invoice:read", "invoice:receive", "invoice:download",
                    "pdp:read"}]

can(role, permission) == permission \in ROLE_PERMISSIONS[role]

\* What PermissionGuard lets through to a route that requires the permission.
canActivate(user, permission) == can(user.role, permission)

UNSCOPED_ROLES == {"OWNER", "ACCOUNTANT"}

isScopedRole(role) == role \notin UNSCOPED_ROLES

OrgsOf(tenant) == {o \in Orgs : TenantOf[o] = tenant}

\* The client businesses a query of this user is confined to: those of the tenant,
\* and of these the ones assigned when the role is scoped.
clientOrgScope(user) ==
  IF isScopedRole(user.role) THEN OrgsOf(user.tenant) \cap user.scopes ELSE OrgsOf(user.tenant)
============================================================================
