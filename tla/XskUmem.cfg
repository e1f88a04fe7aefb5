\* Two frames, so that one can be in use while the other is free; indices of
\* eight values.
CONSTANTS
  NumFrames = 2
  FrameSize = 4
  Modulus = 8
  AddressModulus = 16
  NoFrame = NoFrame
SPECIFICATION FairSpec
INVARIANT FrameConservation
PROPERTY KeepsAllocating
