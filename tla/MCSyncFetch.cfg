CONSTANTS
  Clients = {c1, c2}
  Calendars = {k1, k2}
  Fetches = {f1, f2}
  None = {none}
SPECIFICATION FairSpec
INVARIANT TypeOK
INVARIANT TakesWhatItListed
INVARIANT NobodyWaitsForNothing
PROPERTY AnswersAreLists
PROPERTY FetchesAnswerAll
PROPERTY AnswersArrive
CHECK_DEADLOCK FALSE
