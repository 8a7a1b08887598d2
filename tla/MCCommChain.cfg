CONSTANTS
  Node <- ChainNode
  Acceptors <- ChainAcceptor
  Thread <- ChainThread
  NodeOf <- ChainNodeOf
  Program <- ChainProgram
  Faults <- NoFaults
SPECIFICATION FairSpec
INVARIANTS DeliveredOnceInOrder AcceptHonest
PROPERTIES AllCallsReturn
\* the programs end
CHECK_DEADLOCK FALSE
