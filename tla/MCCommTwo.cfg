CONSTANTS
  Node <- TwoNode
  Acceptors <- TwoAcceptor
  Thread <- TwoThread
  NodeOf <- TwoNodeOf
  Program <- TwoProgram
  Faults <- NoFaults
SPECIFICATION FairSpec
PROPERTIES AcceptsAllTheTime
\* the programs end
CHECK_DEADLOCK FALSE
