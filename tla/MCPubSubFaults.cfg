CONSTANTS
  Node <- DuoNode
  Group <- TwoGroups
  NoAddr <- NoPeer
  Thread <- DuoThread
  NodeOf <- DuoNodeOf
  Programs <- DuoPrograms
  Faults <- AllFaults
  MaxHellos = 1
SPECIFICATION FairSpec
INVARIANTS TypeOK RequestsHonest NoGap
PROPERTIES HangsOnlyAfterFailure
\* the programs end
CHECK_DEADLOCK FALSE
