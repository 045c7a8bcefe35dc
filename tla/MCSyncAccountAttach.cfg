CONSTANTS
  Sources = {s1, s2}
  NoSource = NoSource
  SessionErrors = {"500"}
  None = None
  MaxCalls = 2
SPECIFICATION Spec
SYMMETRY Symmetry
CHECK_DEADLOCK FALSE
INVARIANT AttachAsserted
