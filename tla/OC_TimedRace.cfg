SPECIFICATION FairSpec
CONSTANTS
  c1 = c1
  c2 = c2
  c3 = c3
  c4 = c4
  c5 = c5
  c6 = c6
  Chunk = {c1, c2, c3}
  NULL = NULL
  Output = {8, 14}
  odata <- MCodata
  Switches = {2}
  Commands = {}
  HostBacklog = 1
  MSG_QUEUE_SIZE = 50
  LIGHTS_ON_AT = 15
  HOUR = 1
  UINT_MAX = 65535
  actual_lights_on_delay = 1
  Preempt = TRUE
  Timely = TRUE
PROPERTY TimedOutputsEndWhileUp
