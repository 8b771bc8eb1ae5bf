SPECIFICATION Spec
CONSTANTS
  W = 3
  Size = 2
  MaxArg = 6
INVARIANTS FindsNextZero
