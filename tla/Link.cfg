SPECIFICATION LinkSpec
CONSTANTS
  Responses = {2}
  MaxPackets = 3
  MaxEvents = 2
  MaxPolls = 2
  MaxHostCalls = 2
  MaxChunks = 3
  DrainCap = 2
  MaxStale = 4
  MaxDeaths = 2
  MaxSlow = 1
  Ports = {"p", "q"}
  Phones = {"a", "b"}
  MaxReplugs = 3
  MaxFailures = 1
INVARIANTS
  LinkTypeOK
  TransfersAreKept
  OneDeathHeals
  OneDevicePerPort
PROPERTY
  LinkProgress
CHECK_DEADLOCK FALSE
