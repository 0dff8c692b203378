SPECIFICATION Spec
CONSTANTS
  Slots = {s1}
  Weddings = {w1, w2}
  Slugs = {x, y, z}
  Codes = {c1, c2}
  RowIds = {i1, i2, i3}
  None = None
SYMMETRY Symmetry
INVARIANTS TypeOK OneWeddingPerPage UndisturbedPageIsExact
