CONSTANTS
  alice = alice
  bob = bob
  i1 = i1
  i2 = i2
  Users = {alice, bob}
  Items = {i1, i2}
  ItemOwner <- MCItemOwner
  AppItems <- MCAppItems
  Keys = {k1, k2, k3}
  Handlers = {h1, h2}
  None = None
SPECIFICATION Spec
SYMMETRY Symmetry
INVARIANTS TypeOK ImagesDisjoint
PROPERTIES ImageOnlyByOwnRequest ShownImageGood
