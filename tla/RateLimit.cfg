SPECIFICATION Spec
CONSTANTS
  Clients = {c1}
  Forms = {"signin"}
  CAPACITY <- MCCapacity
  REFILL <- MCRefill
  PARTS = 6
  SWEEP_INTERVAL = 4
  Horizon = 9
INVARIANTS BurstIsCapped RetryAfterIsKept
