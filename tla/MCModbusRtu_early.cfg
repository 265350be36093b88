\* One message: what is taken early is a part of it.
CONSTANTS
  Size = 4
  TxSize = 4
  Shortest = 2
  Delay = 2
  FifoDepth = 2
  Word = 16
  MaxLength = 3
  MaxMessages = 1
SPECIFICATION Spec
INVARIANT
  SilenceBeforeRequest
