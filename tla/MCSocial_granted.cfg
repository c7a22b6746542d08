CONSTANTS
  alice = alice
  bob = bob
  r1 = r1
  Users = {alice, bob}
  Resources = {r1}
  Owner <- MCOwner
  Fid = {f1, f2}
  Sid = {s1, s2}
  Handlers = {h1, h2}
  None = None
SPECIFICATION Spec
SYMMETRY Symmetry
PROPERTY GrantedToFriends
