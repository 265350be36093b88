\* The loop, the handler and the controller with short frames, and room for one
\* word: every word that is sent is waited for.
CONSTANTS
  MaxWords = 2
  TxRoom = 1
  MaxFrames = 2
  MaxPackets = 2
SPECIFICATION Spec
INVARIANT
  WordsAreThere
PROPERTIES
  FramesArriveWhole
  FramesLeaveWhole
  HandlerReturns
  EveryFrameTaken
CHECK_DEADLOCK FALSE
