SPECIFICATION Spec
CONSTANTS
  MaxLines = 3
  MaxFlags = 0
INVARIANT InjectorFromFile
