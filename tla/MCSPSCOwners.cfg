\* The consumer's and the producer's own checks, with stale loads.
CONSTANTS
  Size = 4
  Items = {a}
  Blank = Blank
  MaxPush = 5
SPECIFICATION OwnersSpec
INVARIANTS ObsTypeOK OwnerBounds CheckedCallSucceeds
