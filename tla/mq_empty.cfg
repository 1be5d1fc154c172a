\* The same queue when empty messages may be pushed too.
SPECIFICATION Spec
CONSTANTS
  Producers = {p1}
  Sizes <- AnySizes
  MaxPush = 4
  MaxExpire = 2
  Distances <- ReadDistances
  EpochDistance = 15
  Width = 16
INVARIANTS NoDuplicateDelivery
PROPERTIES EventuallyDelivered
