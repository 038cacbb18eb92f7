SPECIFICATION SensorsFairSpec
CONSTANTS
  AgeCap = 7
  SensorTimeout = 3
  Warmups = 2
  FailureLimit = 2
  Cooldown = 2
  MaxStep = 1
  FixCount = 3
  NmeaTimeout = 2
  FixTimeout = 3
  SilenceGrace = 4
  RetryInterval = 7
  PowerCycle = 2
  Ticks <- MCTicks
  Surroundings <- MCSurroundings
PROPERTIES
  GlitchIsRecovered
