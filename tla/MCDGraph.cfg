SPECIFICATION Spec
CONSTANTS
  features = 5
  Corr <- TwoWeights
  Invalid = 5
  MAXVARLIST = 5
  Sizes <- MixedSizes
  MaxCalls = 2
INVARIANTS GraphExact NoRepeat GreedyMinimal SizeHonest DepletedHonest
\* A call with a set that is too large ends the program.
CHECK_DEADLOCK FALSE
