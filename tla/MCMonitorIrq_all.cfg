\* Every interleaving of handler, loop and devices.
CONSTANTS
  FifoDepth = 2
  ConsoleSize = 2
  ModbusSize = 2
  MaxArrivals = 2
SPECIFICATION Spec
INVARIANTS
  NoLostWakeup
  NoEmptyRead
PROPERTIES
  RequestTaken
  ReceiversServed
