\* Reads and writes with everything that may happen on the bus.
CONSTANTS
  Blocks = 4
  WriteProtected = 1
  BlockSize = 2
  Word = 16
  Retries = 3
  MaxCount = 3
  MaxCalls = 3
  FaultKinds = {"no_resp", "rejected", "garbled", "no_token", "refused", "unanswered", "garbled_r1", "stop_lost", "slow", "init"}
  MaxFaults = 3
SPECIFICATION Spec
PROPERTIES
  ImplementsDevice
  SurvivesOneFault
  CallsReturn
