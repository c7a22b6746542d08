\* The calls of logout-all may overlap, as the code lets them.
CONSTANTS
  Users = {u1}
  Emails = {e1}
  Jti = {j1, j2}
  Handlers = {h1, h2}
  None = None
  MaxVersion = 2
  SerialLogoutAll = FALSE
SPECIFICATION Spec
SYMMETRY Symmetry
PROPERTY StaleStaysStale
