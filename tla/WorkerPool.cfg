\* Two cores with one connection each, three kinds of packets; rings of two
\* slots; numbers that wrap beyond what can be in flight (a ring and a packet
\* in hand).
CONSTANTS
  NumWorkers = 2
  Capacity = 2
  Headers <- TwoConnections
  Hash <- Uneven
  Modulus = 4
SPECIFICATION FairSpec
INVARIANTS OneConsumer InOrder
PROPERTIES StopReturns Progress
