SPECIFICATION FairSpec
CONSTANTS
  KEYPRESSED = 1
  SEND7200 = 1
  SENDFPGA = 1
  Temp = {{"above_limit", "above_on", "below_off"}, {"below_off"}}
INVARIANTS TypeOK TonesEnd QuietAfterDown
PROPERTY TemperatureIsWatched
