SPECIFICATION FairSyncSpec
CONSTANTS
  Invoices = {1, 2}
  ContentHash <- SameHash
  Connections = {1, 2}
  Unresolvable = {}
  ExternalIds = {0, 1}
  ExternalIdOf <- ClashingIdOf
  RowIds = {r1, r2}
  Workers = {}
  MAX_ATTEMPTS = 1
  Pollers = {p1, p2}
  FeedCodes = {"MISE_A_DISPOSITION"}
  MaxAt = 2
  MaxPollFaults = 1
  None = None
INVARIANTS NothingMisattributed
PROPERTIES EveryStatusRecorded
