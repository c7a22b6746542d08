\* Two methods at a time, three outfits, of which one may be there from the
\* start; a selection is either empty or not.
CONSTANTS
  Ids = {o1, o2, o3}
  Contents = {selection}
  Calls = {c1, c2}
  None = None
SPECIFICATION OutfitsSpec
SYMMETRY Symmetry
INVARIANTS OutfitsShownAreStored CreatedIsComplete
