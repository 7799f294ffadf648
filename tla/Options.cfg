SPECIFICATION Spec
CONSTANTS
  MaxLines = 2
  MaxFlags = 2
INVARIANTS
  TypeOK
  Precedence
  OnlyValidRuns
