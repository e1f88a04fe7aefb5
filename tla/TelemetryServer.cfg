\* Two queues, the first of which a burst or two overload without the other; two
\* requests, so that an answer can be overtaken; one
\* failure, so that the page is sent into its simulation and back.
CONSTANTS
  NumQueues = 2
  Bulk = 1
  InitialOccupancy <- Initial
  MaxOccupancy = 4
  Threshold = 2
  Saturated = 3
  Bursts = {1}
  Slots = {s1, s2}
  NoSlot = NoSlot
  MaxFailures = 1
SPECIFICATION FairSpec
INVARIANT AlarmHasCause
PROPERTY AlarmLasts
