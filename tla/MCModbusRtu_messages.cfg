\* Three messages of up to five bytes, a buffer of four.
CONSTANTS
  Size = 4
  TxSize = 4
  Shortest = 2
  Delay = 2
  FifoDepth = 2
  Word = 16
  MaxLength = 5
  MaxMessages = 3
SPECIFICATION FairSpec
INVARIANTS
  TypeOK
  BytesInOrder
  MessagesNotSplit
PROPERTIES
  MessageTaken
