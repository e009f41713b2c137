CONSTANTS
  QueueLength = 2
  EffectWhen <- Nowhere
  AutoTurnOffCalls <- Nowhere
  Buttons = TRUE
  Requests <- Nowhere
  TimerFaults = FALSE
  PowerCycles = FALSE
  WorkQueueLength = 1
  ClusterWhen <- OnlyRest
  WriteFaults = FALSE
  WS2812_NUMB_DEV = 1
  WS2812_START_LEVEL = 100
  Levels <- OneLevel
  Hues <- Nowhere
  Saturations <- Nowhere
  Temperatures <- Nowhere
SPECIFICATION LampSpec
INVARIANT IdleAsReported
INVARIANT ShowsLight
PROPERTY UpdateMovesNothing
PROPERTY ButtonReachesCluster
PROPERTY SettlesAsReported
PROPERTY LightsUp
