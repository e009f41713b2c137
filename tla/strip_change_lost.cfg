CONSTANTS
  WS2812_NUMB_DEV = 2
  WS2812_START_LEVEL = 100
  Levels <- NoCalls
  Hues <- OneHue
  Saturations <- FullSaturation
  Temperatures <- NoCalls
SPECIFICATION StripSpec
PROPERTY SettingsReachDevices
