CONSTANTS
  alice = alice
  bob = bob
  i1 = i1
  i2 = i2
  i3 = i3
  o1 = o1
  Users = {alice, bob}
  Items = {i1, i2, i3}
  Outfits = {o1}
  ItemOwner <- MCItemOwner
  OutfitOwner <- MCOutfitOwner
  Handlers = {h1, h2}
  None = None
SPECIFICATION Spec
SYMMETRY Symmetry
INVARIANTS TypeOK LinksValid
PROPERTIES LonePutReplaces LonePutShows PutAllOrNothing
