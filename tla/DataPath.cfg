\* One packet per class, a transmit ring of one; sizes 1 and 2 are below and
\* at the thresholds of the classifier.  Checksums over bytes of two values.
CONSTANTS
  NumQueues = 5
  Depth = 1
  Classes = {0, 1, 2, 3, 4}
  Sizes = {1, 2}
  Weight <- Weights
  DefaultRate = 2
  Rates = {}
  BloatBytes = 3
  CounterModulus = 2
  DeficitHalf = 4
  Frames <- Mix
  Programs <- Hooks
  Rules <- Chain
  Small = 2
  Large = 2
  Mtu = 2
  VideoAfter = 2
  EstablishedAfter = 1
  CountCap = 3
  TxRingSize = 1
  TelemetryEvery = 2
  LoopLimit = 4
  ByteBase = 2
  DataLength = 8
  SegmentLength = 5
SPECIFICATION FairSpec
INVARIANTS BooksBalance TablesAgree VoiceNeverWaits ParserSound ChecksumsAgree
PROPERTIES SignalStops LoopEnds
