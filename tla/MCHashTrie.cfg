SPECIFICATION FairSpec
CONSTANTS
  Keys = {"a", "A", "b", "c"}
  lower <- LowerCase
  Children = {0, 1}
  Digits = 2
  Capacity = 3
  NONE = NONE
PROPERTIES ImplementsOrderedMap LookupEnds
