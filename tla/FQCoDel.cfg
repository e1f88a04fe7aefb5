\* Two flows on the two lists; frames of more than one quantum, and a clock that
\* passes several intervals.  The rate given is clamped to the one there was.
CONSTANTS
  f1 = f1
  f2 = f2
  Flows = {f1, f2}
  Sizes = {3}
  Ages = {0}
  Quantum = 2
  Target = 1
  Interval = 1
  SparsePackets = 1
  DefaultRate = 1
  Rates = {0}
  CounterModulus = 1
  MaxPackets = 2
  MaxListed = 3
  MaxClock = 3
  NoFlow = NoFlow
SPECIFICATION FairSpec
INVARIANTS BackloggedListed AlarmHasCause DeficitBounded BytesMatch ScheduleNear
PROPERTIES FalseMeansEmpty DropLeavesBacklog DequeueReturns Drains OldFlowsShare
