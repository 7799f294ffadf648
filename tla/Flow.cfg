SPECIFICATION FairSpec
CONSTANTS
  SeqMod = 2
  ISN = 1
  FakeRepeat = 2
  Segments = 1
  Copies = TRUE
  Echo = TRUE
  MaxPackets = 6
INVARIANTS
  Inv
  TypeOK
  RealAfterFake
  RealAfterAck
  OneInjectorAtATime
  NoSynSeqRace
  NoSignalDropped
  AtMostOneLateSegment
  OnlySecondInjectionDisturbsRelay
  NothingLeftBehind
PROPERTIES
  ImplementsSession
  EveryClientDecided
  InjectionEnds
  HalfCloseEnds
