\* All faults of the bus, devices unplugged, polls that give up.
CONSTANTS
  SetupTries = 3
  DataRetries = 3
  StatusPolls = 3
  Packets = 4
  FaultKinds = {"lost", "unanswered", "damaged", "odd_pid", "nak", "stall", "ack_lost", "hung", "unplugged", "polls"}
  MaxFaults = 5
SPECIFICATION Spec
INVARIANTS
  ReadyIsConfigured
  DescriptorWhole
PROPERTIES
  LedApplied
  EnumerationSucceeds
