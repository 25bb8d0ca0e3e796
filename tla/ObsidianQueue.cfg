SPECIFICATION FairSpec
CONSTANTS
  Clippings = {c1, c2, c3}
  NoClipping = NoClipping
  MaxDeliveryAttempts = 2
  MaxPending = 2
  MaxFaults = 2
INVARIANTS
  TypeOK
  NothingVanishes
  NoDuplicate
PROPERTIES
  OutboxRefined
  QueueDrains
CHECK_DEADLOCK FALSE
