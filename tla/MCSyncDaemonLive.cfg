CONSTANTS
  Accounts = {a1, a2}
  NoAccount = NoAccount
  Sources = {}
  ALL = ALL
  MaxResults = 2
  MaxEvents = 3
SPECIFICATION FairSpec
CHECK_DEADLOCK FALSE
PROPERTY ComesToRest
