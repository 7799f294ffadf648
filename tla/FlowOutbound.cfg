SPECIFICATION Spec
CONSTANTS
  SeqMod = 2
  ISN = 1
  FakeRepeat = 1
  Segments = 1
  Copies = TRUE
  Echo = TRUE
  MaxPackets = 5
INVARIANT OutboundPassesOnceInjecting
