\* Every fault the bus can produce, and what must happen when they are over.
CONSTANTS
  Retries = 3
  ErrorLimit = 2
  FaultKinds = {"lost", "damaged", "odd_pid", "stall", "ack_lost", "ack_hung"}
  MaxFaults = 5
  MaxReports = 3
SPECIFICATION Spec
INVARIANTS
  NoneMissing
PROPERTIES
  ImplementsChannel
  NeverStuck
