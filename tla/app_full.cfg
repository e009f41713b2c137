CONSTANTS
  QueueLength = 2
  EffectWhen <- Anywhere
  AutoTurnOffCalls <- Switch
  Buttons = TRUE
  Requests <- AnyAction
  TimerFaults = TRUE
  PowerCycles = TRUE
  WorkQueueLength = 2
  ClusterWhen <- Anywhere
  WriteFaults = TRUE
  EarlyAt <- BootPoints
  EarlyEffectAt <- AfterTimer
SPECIFICATION StartupSpec
INVARIANT BootTypeOK
INVARIANT StartsInStep
INVARIANT TimerInTime
