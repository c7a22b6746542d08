\* Two methods at a time, two items, of which one may be there from the start.
CONSTANTS
  Ids = {i1, i2}
  Contents = {p1, p2}
  Calls = {c1, c2}
  None = None
SPECIFICATION WardrobeSpec
SYMMETRY Symmetry
INVARIANTS WardrobeTypeOK ItemsShownAreStored AnsweredPhotoOnItsItem
