CONSTANTS
  p1 = p1
  p2 = p2
  c1 = c1
  c2 = c2
  x1 = x1
  x2 = x2
  NoItem = NoItem
  Producers <- MCProducers
  Consumers <- MCConsumers
  Items <- MCItems
  MaxPending = 2
SPECIFICATION FairSpec
INVARIANTS TypeOK MutualExclusion NeverPopsEmpty NoLostWakeup
PROPERTIES ImplementsFifo QueueDrains
