SPECIFICATION Spec
INVARIANT DeviceReadsByte
INVARIANT NeverDark
INVARIANT QuadraticInLevel
INVARIANT Monotone
INVARIANT MixesHueAndWhite
INVARIANT TemperatureOrder
INVARIANT EffectsTimed
INVARIANT CountdownLasts
CHECK_DEADLOCK FALSE
