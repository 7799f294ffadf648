SPECIFICATION Spec
CONSTANTS
  SeqMod = 10
  IdentMod = 5
  Window = 4
  Fallback = 4
  MinMss = 2
  Headers <- MCHeaders
  MTUs <- MCMTUs
  MaxTotal = 6
INVARIANTS
  TypeOK
  OutsideWindow
  Reassembles
  DerivedSizeFits
  StrictIsRingInterval
