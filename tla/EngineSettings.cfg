CONSTANTS
  model = model
  Keys = {model}
  Model = model
  small = small
  large = large
  Values = {small, large}
  Default = small
  None = None
  Failed = Failed
  MaxPatches = 2
  MaxOutages = 1
SPECIFICATION Spec
INVARIANT TypeOK
PROPERTIES ClearedIsCommitted PreparationEnds
CHECK_DEADLOCK FALSE
