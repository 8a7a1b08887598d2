SPECIFICATION FairSpec
CONSTANTS
  Base = 2
  HdrLen = 3
  maxsize = 2
  Messages <- Sizes
  Uninit <- Lengths
  Faults <- Both
INVARIANTS TypeOK FramesInOrder BufferFits
PROPERTIES ReadsToTheEnd
\* Both processes end.
CHECK_DEADLOCK FALSE
