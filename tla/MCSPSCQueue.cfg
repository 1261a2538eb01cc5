\* Three usable slots, enough pushes to lap the ring.
CONSTANTS
  Size = 4
  Items = {a, b}
  Blank = Blank
  MaxPush = 6
SPECIFICATION FairSpec
INVARIANTS TypeOK NoDataRace Fifo IndexTestsExact
PROPERTIES ImplementsFIFO EveryPushPopped RetriesSucceed
