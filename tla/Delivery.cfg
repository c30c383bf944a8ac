SPECIFICATION FairSpec
CONSTANTS
  Room = 5
  MaxMsg = 6
INVARIANTS OutTypeOK OnlyBroadcastsOvertake LossHasCause DamageIsContained
PROPERTIES QueueDrains
CHECK_DEADLOCK FALSE
