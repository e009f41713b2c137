CONSTANTS
  QueueLength = 3
  EffectWhen <- Nowhere
  AutoTurnOffCalls <- Nowhere
  Buttons = FALSE
  Requests <- Nowhere
  TimerFaults = FALSE
  PowerCycles = FALSE
  WorkQueueLength = 2
  ClusterWhen <- Anywhere
  WriteFaults = FALSE
SPECIFICATION SysSpec
INVARIANT Controllable
