CONSTANTS
  Jti = {j1, j2, j3}
  Calls = {c1, c2}
  None = None
  CallsApart = FALSE
SPECIFICATION Spec
SYMMETRY Symmetry
INVARIANT SignedOutHoldsNothing
