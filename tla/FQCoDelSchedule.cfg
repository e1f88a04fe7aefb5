\* The comment on control_law.
CONSTANTS
  f1 = f1
  Flows = {f1}
  Sizes = {1}
  Ages = {0}
  Quantum = 1
  Target = 1
  Interval = 2
  SparsePackets = 4
  DefaultRate = 2
  Rates = {}
  CounterModulus = 1
  MaxPackets = 3
  MaxListed = 2
  MaxClock = 5
  NoFlow = NoFlow
SPECIFICATION Spec
PROPERTY DropsFollowSchedule
