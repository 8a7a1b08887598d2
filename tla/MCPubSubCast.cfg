CONSTANTS
  Node <- CastNode
  Group <- TwoGroups
  NoAddr <- NoPeer
  Thread <- CastThread
  NodeOf <- CastNodeOf
  Programs <- CastPrograms
  Faults <- NoFaults
  MaxHellos = 1
SPECIFICATION Spec
INVARIANTS InitPubHonest RequestsHonest
\* the programs end
CHECK_DEADLOCK FALSE
