\* size() called by a thread that neither pushes nor pops.
CONSTANTS
  Size = 4
  Items = {a}
  Blank = Blank
  MaxPush = 4
SPECIFICATION ObsSpec
INVARIANTS SizeIsApproximate
