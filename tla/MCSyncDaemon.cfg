CONSTANTS
  Accounts = {a1, a2}
  NoAccount = NoAccount
  Sources = {s1}
  ALL = ALL
  MaxResults = 1
  MaxEvents = 4
SPECIFICATION Spec
SYMMETRY Symmetry
CHECK_DEADLOCK FALSE
INVARIANT TypeOK
INVARIANT JobIsCovered
INVARIANT IdleHoldsNothing
PROPERTY RequestsWait
PROPERTY MobileIsAllowed
PROPERTY WaitingIsKept
PROPERTY OnlyCancelsStrand
PROPERTY ImplementsScheduler
PROPERTY WorkRunsOut
