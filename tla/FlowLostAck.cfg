SPECIFICATION Spec
CONSTANTS
  SeqMod = 2
  ISN = 1
  FakeRepeat = 1
  Segments = 1
  Copies = FALSE
  Echo = FALSE
  MaxPackets = 5
INVARIANT ObservedAckNotLost
