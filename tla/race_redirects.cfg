CONSTANTS
  QueueLength = 2
  EffectWhen <- OnlyRest
  AutoTurnOffCalls <- Nowhere
  Buttons = TRUE
  Requests <- AnyAction
  TimerFaults = FALSE
  PowerCycles = FALSE
  Priority <- CHIPAbove
  EffectAt <- BetweenEvents
SPECIFICATION RaceSpec
PROPERTY OnlyWhenComplete
