CONSTANTS
  Accounts = {a1, a2}
  NoAccount = NoAccount
  Sources = {s1, s2}
  ALL = ALL
  MaxJobs = 2
SPECIFICATION Spec
SYMMETRY Symmetry
INVARIANT RemoveForgetsTheAccount
