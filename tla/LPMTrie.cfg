\* Addresses of two bits, so that routes of three lengths nest; text lengths
\* that fit, and that are cut down to a valid length and to one that is too long.
CONSTANTS
  Width = 2
  h1 = h1
  Hops = {h1}
  LengthModulus = 4
  NoSlash = NoSlash
  TextLengths = {1, 4, 7, NoSlash}
  NoRoute = NoRoute
  NoAddress = NoAddress
SPECIFICATION Spec
INVARIANTS Connected CountExact
PROPERTY ImplementsTable
