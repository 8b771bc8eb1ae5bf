SPECIFICATION Spec
CONSTANTS
  MaxTime = 8
INVARIANTS TypeOK NoUnderflow OnlyRepeatsDistort
