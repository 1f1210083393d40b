SPECIFICATION Spec
CONSTANTS
  own = own
  other = other
  Tenants = {"t1"}
  Orgs = {own, other}
  TenantOf <- MCTenantOf
  Callers <- MCCallers
  Drafts = {d1}
  NumberOf <- OneNumber
  Faulty = {}
  InvoiceIds = {i1, i2}
  Requests = {r1, r2}
  MaxFaults = 2
  Connecting = {own}
  None = None
SYMMETRY Symmetry
CHECK_DEADLOCK FALSE
INVARIANTS NumberIssuedOnce OverviewAgreesWithDetail
PROPERTIES IssuedIsSealed
