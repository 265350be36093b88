\* A line and a keyboard into a buffer of four.
CONSTANTS
  Size = 4
  StringLen = 2
  FifoDepth = 2
  MaxArrivals = 4
  MaxKeys = 3
SPECIFICATION Spec
INVARIANTS
  TypeOK
  BytesKept
  BytesAnnounced
PROPERTIES
  BytesTaken
