SPECIFICATION AdminSpec
CONSTANTS
  t1 = t1
  t2 = t2
  own = own
  other = other
  Tenants = {t1}
  Orgs = {own, other}
  TenantOf <- MCTenantOf
  Users = {u1, u2}
  Founders = {u1}
  Passwords = {p1}
  SessionIds = {s1}
  LinkIds = {l1}
  Requests = {r1, r2}
  SESSION_MAX_AGE = 1
  SESSION_ABSOLUTE_MAX_AGE = 1
  SESSION_TOUCH_INTERVAL = 1
  PASSWORD_RESET_TTL = 1
  INVITATION_TTL = 1
  Horizon = 0
  Bodies <- MCBodies
  Kept = Kept
  MaxChanges = 1
  None = None
SYMMETRY Symmetry
CHECK_DEADLOCK FALSE
INVARIANTS AssignedWithinTenant
PROPERTIES LastOwnerFallsToARace StrayAssignmentsFollowARace
