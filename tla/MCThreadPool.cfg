SPECIFICATION FairSpec
CONSTANTS
  num_thrs = 2
  max_conns = 3
  Programs <- FourPrograms
INVARIANTS TypeOK InOrder NothingDropped AssertsHold WorkersServed
PROPERTIES AllCallsReturn
\* The threads end, and so do the programs.
CHECK_DEADLOCK FALSE
