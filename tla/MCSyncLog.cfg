CONSTANTS
  NCalendars = 2
  Codes = {"200", "500", "404"}
  None = None
SPECIFICATION Spec
INVARIANT TypeOK
INVARIANT LogIsLast
INVARIANT RetriesAlternate
PROPERTY ModesFollowOutcomes
CHECK_DEADLOCK FALSE
