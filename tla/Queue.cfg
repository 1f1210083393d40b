SPECIFICATION Spec
CONSTANTS
  Invoices = {i1}
  ContentHash <- SameHash
  Connections = {c1, c2}
  Unresolvable = {}
  ExternalIds <- PairIds
  ExternalIdOf <- PairIdOf
  RowIds = {r1, r2}
  Workers = {w1, w2}
  Callers = {u1}
  MAX_ATTEMPTS = 2
  DRAIN_LIMIT = 1
  SWEEP_LIMIT = 1
  MaxCrashes = 1
  MaxRetries = 1
  MaxSwitches = 2
  None = None
SYMMETRY Symmetry
INVARIANTS QueueInv DeliveredOnce SentIsBacked PendingHasAttemptsLeft ExclusiveRun
PROPERTIES InvoiceNeverRegresses ImplementsHandover SentIsFinal
