SPECIFICATION FairSpec
CONSTANTS
  c1 = c1
  c2 = c2
  c3 = c3
  c4 = c4
  c5 = c5
  c6 = c6
  Chunk = {c1, c2, c3}
  NULL = NULL
  Output = {4, 6}
  odata <- MCodata
  Switches = {}
  Commands = {"START_SEQ", "SHUTDOWN"}
  HostBacklog = 1
  MSG_QUEUE_SIZE = 50
  LIGHTS_ON_AT = 1
  HOUR = 2
  UINT_MAX = 65535
  actual_lights_on_delay = 1
  Preempt = FALSE
  Timely = TRUE
INVARIANTS InputDrivenInStep
PROPERTIES LightsGoOut
