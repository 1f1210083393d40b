SPECIFICATION FairSpec
CONSTANTS
  Invoices = {i1, i2}
  ContentHash <- SameHash
  Connections = {c1, c2}
  Unresolvable = {c2}
  ExternalIds <- PairIds
  ExternalIdOf <- PairIdOf
  RowIds = {r1, r2}
  Workers = {w1, w2}
  Callers = {}
  MAX_ATTEMPTS = 1
  DRAIN_LIMIT = 2
  SWEEP_LIMIT = 1
  MaxCrashes = 1
  MaxRetries = 0
  MaxSwitches = 0
  None = None
INVARIANTS StateIsOutbox
PROPERTIES EveryInvoiceSettles
