SPECIFICATION Spec
CONSTANTS
  c1 = c1
  c2 = c2
  c3 = c3
  c4 = c4
  c5 = c5
  c6 = c6
  Chunk = {c1, c2, c3, c4}
  NULL = NULL
  Output = {0, 1, 2}
  odata <- MCodata
  Switches = {7}
  Commands = {"START_SEQ", "ON_FUEL_PUMP", "ON_ACC", "SHUTDOWN"}
  HostBacklog = 1
  MSG_QUEUE_SIZE = 50
  LIGHTS_ON_AT = 15
  HOUR = 1
  UINT_MAX = 65535
  actual_lights_on_delay = 1
  Preempt = FALSE
  Timely = TRUE
SYMMETRY ChunkSymmetry
INVARIANTS TypeOK RecordsInPlace LockoutHolds TimedRelaysMatch StartSeqIsSeen
