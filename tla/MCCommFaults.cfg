CONSTANTS
  Node <- PairNode
  Acceptors <- PairAcceptor
  Thread <- PairThread
  NodeOf <- PairNodeOf
  Program <- PairProgram
  Faults <- AllFaults
SPECIFICATION FaultFairSpec
INVARIANTS OneRendezvous ConnectHonest
PROPERTIES HangsOnlyAfterFailure
\* the programs end
CHECK_DEADLOCK FALSE
