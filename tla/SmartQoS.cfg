\* One strict and two deficit classes, one class value out of range; frames no
\* longer than the weight of the first deficit class and frames longer than every
\* weight; two link rates, one of them clamped.
CONSTANTS
  NumQueues = 3
  Depth = 2
  Classes = {0, 1, 2, 3}
  BestEffort = 2
  Sizes = {1, 3}
  Weight <- FallingWeights
  DefaultRate = 2
  Rates = {0, 2}
  BloatBytes = 3
  CounterModulus = 1
  DeficitHalf = 8
SPECIFICATION FairSpec
INVARIANTS DeficitBounded NoHiddenBloat
PROPERTIES NoStarvation Drains
