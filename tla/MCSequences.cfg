SPECIFICATION MCSpec
CONSTANTS
  Elem = {e1, e2, e3, e4, e5}
  None = none
  Stranger = stranger
  InitialCaps = {0, 3, 4}
  MaxCapacity = 4
  OOM = TRUE
  MaxFront = 1
  Capacities = {0, 1, 2, 3}
INVARIANTS
  EachDestroyedOnce
  ListsLinked
  QueueStoredOnce
  QueueDestroyedOnce
PROPERTIES
  ShrinksWithSlack
  InsertsInOrder
  AreSequences
  IsQueue
CHECK_DEADLOCK FALSE
