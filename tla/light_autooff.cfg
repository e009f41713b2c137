CONSTANTS
  QueueLength = 3
  EffectWhen <- Nowhere
  AutoTurnOffCalls <- Switch
  Buttons = TRUE
  Requests <- Nowhere
  TimerFaults = TRUE
  PowerCycles = TRUE
SPECIFICATION Spec
INVARIANT AutoTurnOffBacked
INVARIANT OneExpiry
INVARIANT RoomForExpiry
PROPERTY AutoTurnOffHappens
