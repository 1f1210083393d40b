SPECIFICATION PdpSpec
CONSTANTS
  Invoices = {i1}
  ContentHash <- SameHash
  Connections = {c1}
  Unresolvable = {}
  ExternalIds <- PairIds
  ExternalIdOf <- PairIdOf
  RowIds = {r1}
  Workers = {w1, w2}
  Callers = {}
  MAX_ATTEMPTS = 1
  DRAIN_LIMIT = 1
  SWEEP_LIMIT = 1
  MaxCrashes = 0
  MaxRetries = 0
  MaxSwitches = 0
  Pollers = {p1, p2}
  FeedCodes = {"MISE_A_DISPOSITION", "REFUSEE"}
  MaxAt = 2
  MaxPollFaults = 1
  None = None
SYMMETRY Symmetry
INVARIANTS StateIsFurthestPoint CursorSkipsNothing
PROPERTIES ImplementsHandover
