\* Two methods at a time and two rows, which the other users change meanwhile; no
\* symmetry, for there is a liveness property.
CONSTANTS
  Rows = {r1, r2}
  Users = {u1, u2}
  Calls = {c1, c2}
  None = None
SPECIFICATION FairSpec
INVARIANT PersonShownOnce
PROPERTIES AnsweredRequestGoes SpinnerEnds
