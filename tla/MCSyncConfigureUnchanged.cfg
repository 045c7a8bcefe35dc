CONSTANTS
  a1 = a1
  a2 = a2
  x = x
  y = y
  n1 = n1
  n2 = n2
  Accounts = {a1, a2}
  Calendars = {x, y}
  Names = {n1, n2}
  SourceName <- Naming
  None = None
  NoCollection = NoCollection
SPECIFICATION Spec
PROPERTY UnchangedNeedsNothing
