CONSTANTS
  WS2812_NUMB_DEV = 2
  WS2812_START_LEVEL = 100
  Levels <- SomeLevels
  Hues <- WarmHue
  Saturations <- WarmSaturation
  Temperatures <- WarmTemperature
SPECIFICATION StripSpec
INVARIANT SettingsTypeOK
INVARIANT LevelFollowsPower
INVARIANT NothingMissed
INVARIANT CodedSoFar
PROPERTY ImplementsStrip
