SPECIFICATION Spec
CONSTANTS
  W = 3
  Size = 3
  MaxArg = 10
INVARIANTS TypeOK ContainsWhatIsSet CountsBitsBefore FindsFirst
PROPERTIES ImplementsSet
