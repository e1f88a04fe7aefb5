\* Windows of four: large and small packets, late, together, steady and bursty.
CONSTANTS
  Flows <- Mix
  Gaps <- MCGaps
  Sizes = {2, 14}
  Micro = 2
  Small = 3
  Large = 10
  Mtu = 14
  VideoAfter = 4
  Window = 4
  CountCap = 5
SPECIFICATION FairSpec
INVARIANT PredictsRecent
PROPERTY SettlesToGaming
