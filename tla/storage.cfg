CONSTANTS
  NDisks = 2
  Values = {v1}
  None = none
SPECIFICATION Spec
INVARIANTS DataIsTrue OnlyUnreadableIsWiped
PROPERTIES RequestsEnd
