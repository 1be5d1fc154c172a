\* Two producers, messages that are not empty.
SPECIFICATION Spec
CONSTANTS
  Producers = {p1, p2}
  Sizes <- PayloadSizes
  MaxPush = 4
  MaxExpire = 2
  Distances <- ReadDistances
  EpochDistance = 15
  Width = 16
INVARIANTS TypeOK HandOver WriterNotRead
PROPERTIES ChannelSpec
