\* Two producers, two slots, more pushes than slots.
CONSTANTS
  Size = 2
  p1 = p1
  p2 = p2
  c = c
  Producers <- MCProducers
  Consumer = c
  Blank = Blank
  MaxPush = 4
SPECIFICATION FairSpec
INVARIANTS TypeOK NoDataRace ExclusiveSlots EmptyMatchesPop
PROPERTIES ImplementsFIFO PrefixPopped EveryPushPopped
