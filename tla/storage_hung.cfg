CONSTANTS
  NDisks = 2
  Values = {v1}
  None = none
SPECIFICATION Spec
PROPERTIES NoRequestHangs
