SPECIFICATION Spec
CONSTANTS
  Tenants = {t1}
  Orgs = {}
  TenantOf <- NoTenantOf
  Users = {u1}
  Founders = {}
  Passwords = {p1, p2}
  SessionIds = {s1, s2}
  LinkIds = {l1, l2}
  Requests = {r1, r2}
  SESSION_MAX_AGE = 3
  SESSION_ABSOLUTE_MAX_AGE = 4
  SESSION_TOUCH_INTERVAL = 1
  PASSWORD_RESET_TTL = 1
  INVITATION_TTL = 2
  Horizon = 4
  None = None
SYMMETRY Symmetry
CHECK_DEADLOCK FALSE
INVARIANTS SlidingWindow LinkSetsOnePassword ChangeEndsSessions
