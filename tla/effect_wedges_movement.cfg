CONSTANTS
  QueueLength = 3
  EffectWhen <- MovingOn
  AutoTurnOffCalls <- Nowhere
  Buttons = FALSE
  Requests <- Nowhere
  TimerFaults = FALSE
  PowerCycles = FALSE
SPECIFICATION Spec
PROPERTY MovementCompletes
