SPECIFICATION Spec
CONSTANTS
  sound = sound
  broken = broken
  transformer = transformer
  Reading <- MCReading
  NodeOf <- MCNodeOf
  Malformed <- MCMalformed
  MaxPosts = 2
  MaxPublished = 2
  MaxTroubles = 2
INVARIANTS AcknowledgedStored
PROPERTIES KeepsLedger SubscribedAgain InboxDrains
CHECK_DEADLOCK FALSE
