SPECIFICATION Spec
CONSTANTS
  Requests = {r1, r2}
  Admins = {a1, a2}
  WeddingIds = {w1, w2}
  ItemIds = {i1}
  Slugs <- MCSlugs
  Spellings <- MCSpellings
  Normalize <- MCNormalize
  Templates = {t1}
  DefaultTemplate = t1
  TemplateInputs = {None}
  Ops <- MCAllOps
  None = None
SYMMETRY Symmetry
INVARIANTS OnlyGranted
