CONSTANTS
  Builds <- AllBuilds
  DEFAULT_FAST_LT_SENSE_POLL_INTERVAL = 2
  DEFAULT_SCREEN_ON_DURATION = 2
  MaxPass = 3
  Lights <- SomeLights
SPECIFICATION Spec
INVARIANTS TypeOK ScreenFollowsMotion SetUp LightShown
