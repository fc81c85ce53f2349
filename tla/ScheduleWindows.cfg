\* Every schedule over two short epochs.
SPECIFICATION Spec
CONSTANTS
  None = None
  EpochLen  = 6
  Epochs    = 2
  MinWindow = 2
  MaxLag    = 2
CHECK_DEADLOCK FALSE
INVARIANTS
  TypeOK
  WindowsExact
PROPERTIES
  RestartsMissNothing
