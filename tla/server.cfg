SPECIFICATION Spec
CONSTANTS
  r1 = r1
  r2 = r2
  r3 = r3
  Slots = {r1, r2, r3}
  Serves <- Kinds
  HeadTimes <- Times
  MaxOpen = 2
  Timeout = 1
  ReadTimeout = 3
  WriteTimeout = 3
  Drain = 4
  HashTime = 1
INVARIANTS TypeOK NoCircularWait AnsweredInTime
PROPERTIES ShutdownSparesRequests RequestsEnd SigtermEnds
