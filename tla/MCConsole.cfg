SPECIFICATION Spec
CONSTANTS
  CONSBUFSIZE = 3
  Holds <- DeviceHolds
  Ahead = 2
  MaxTyped = 5
INVARIANTS
  DeliveredInOrder
PROPERTIES
  ImplementsFifo
  AllRead
CHECK_DEADLOCK FALSE
