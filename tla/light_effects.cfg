CONSTANTS
  QueueLength = 3
  EffectWhen <- OnlyRest
  AutoTurnOffCalls <- Nowhere
  Buttons = TRUE
  Requests <- AnyAction
  TimerFaults = TRUE
  PowerCycles = TRUE
SPECIFICATION Spec
INVARIANT MovementBacked
INVARIANT EffectBacked
PROPERTY MovementCompletes
PROPERTY EffectEnds
PROPERTY EffectTurnsLight
PROPERTY ImplementsActuator
