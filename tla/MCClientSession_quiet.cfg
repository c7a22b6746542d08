\* Two requests at a time; no symmetry, for there are liveness properties.
CONSTANTS
  Jti = {j1, j2, j3}
  Calls = {c1, c2}
  None = None
  CallsApart = TRUE
SPECIFICATION FairSpec
INVARIANTS TypeOK FlagMeansRefreshing HoldsSuccessor StoredTokensMatch SignedOutHoldsNothing
PROPERTIES StatusSettles LogOutEnds
