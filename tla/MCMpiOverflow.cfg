\* Attached buffers with fewer slots than worker threads.
CONSTANTS
  Machines = 2
  ThrdPM = 2
  IntMod = 6
  BsendSlots = 1
SPECIFICATION Spec
INVARIANTS LossStallsRound
\* a round with a refused packet never ends
CHECK_DEADLOCK FALSE
