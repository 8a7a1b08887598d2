\* Fair behaviours of two machines with two threads each, the attached buffer
\* just large enough, and counters that wrap in the second round.
CONSTANTS
  Machines = 2
  ThrdPM = 2
  IntMod = 5
  BsendSlots = 4
SPECIFICATION FairSpec
INVARIANTS PacketsIntact OnlyAcksComeIn TasksConserved RoundEndAssert NoBsendLoss
PROPERTIES ImplementsRounds
