\* Two slots; indices of eight values, so that they wrap while the ring holds
\* items; two items are enough to tell order and slots apart.
CONSTANTS
  Capacity = 2
  Modulus = 8
  a = a
  b = b
  Items = {a, b}
  NoItem = NoItem
SPECIFICATION DeviceSpec
INVARIANTS RingInv NoSlotRace DepthReadings
PROPERTIES ImplementsFifo Delivery DeviceCounts
