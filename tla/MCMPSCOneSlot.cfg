\* The smallest Size the static_assert lets pass.
CONSTANTS
  Size = 1
  p1 = p1
  p2 = p2
  c = c
  Producers <- MCProducers
  Consumer = c
  Blank = Blank
  MaxPush = 2
SPECIFICATION Spec
INVARIANT NeverOverfull
