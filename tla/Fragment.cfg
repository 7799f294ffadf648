SPECIFICATION Spec
CONSTANTS
  MaxRecord = 24
  HelloFixed = 1
  Chunks <- MCChunks
  Extra = 2
INVARIANTS
  TypeOK
  NoPanic
  NameWhereFound
  ServerGetsPrefix
  NameInChunks
  ParserAdvances
PROPERTY ImplementsByteStream
