\* The controller with everything that can come between two of its clocks.
CONSTANTS
  Retries = 2
  ErrorLimit = 1
  MaxFaults = 2
  MaxReports = 3
SPECIFICATION LinkSpec
INVARIANT
  NoneMissing
PROPERTIES
  ImplementsChannel
  RequestEnds
CHECK_DEADLOCK FALSE
