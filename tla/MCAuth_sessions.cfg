\* One email and two rows that could take it, two requests in flight and three
\* pairs: two racing registrations, a login whose token is rotated by two racing
\* refreshes, a logout against either, two logout-alls.
CONSTANTS
  Users = {u1, u2}
  Emails = {e1}
  Jti = {j1, j2, j3}
  Handlers = {h1, h2}
  None = None
  MaxVersion = 2
  SerialLogoutAll = TRUE
SPECIFICATION Spec
SYMMETRY Symmetry
INVARIANTS TypeOK OneLivePerSession SessionKeepsVersion
PROPERTIES ImplementsSessionStore DeadSessionStaysDead StaleStaysStale LogoutAllEndsAll
