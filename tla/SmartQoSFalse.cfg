\* The comment on the last return of dequeue.
CONSTANTS
  NumQueues = 2
  Depth = 2
  Classes = {0, 1}
  BestEffort = 1
  Sizes = {3}
  Weight <- FallingWeights
  DefaultRate = 2
  Rates = {}
  BloatBytes = 3
  CounterModulus = 1
  DeficitHalf = 8
SPECIFICATION Spec
PROPERTY FalseMeansEmpty
