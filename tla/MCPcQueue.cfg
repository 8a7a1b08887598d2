SPECIFICATION FairSpec
CONSTANTS
  Producer <- TwoProducers
  Consumer <- ThreeConsumers
  Batch <- MixedBatches
  Pops <- FivePops
INVARIANTS CreditsMatchItems NoLostWakeup
PROPERTIES ImplementsQueue
CHECK_DEADLOCK FALSE
