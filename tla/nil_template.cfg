SPECIFICATION Spec
CONSTANTS
  Requests = {r1, r2}
  Admins = {a1}
  WeddingIds = {w1}
  ItemIds = {}
  Slugs <- MCSlugs
  Spellings <- MCSpellings
  Normalize <- MCNormalize
  Templates = {t1, t2}
  DefaultTemplate = t1
  TemplateInputs = {t1, t2, None}
  Ops <- MCTemplateOps
  None = None
SYMMETRY Symmetry
PROPERTIES NilPreservesTemplate
