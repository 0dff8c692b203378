SPECIFICATION Spec
CONSTANTS
  Slots = {s1, s2}
  Weddings = {w1, w2}
  WishIds = {i1, i2, i3}
  LimitInputs <- MCLimits
  DefaultLimit = 1
  MaxLimit = 2
  None = None
SYMMETRY Symmetry
INVARIANTS TypeOK ModerationHolds PagesFilled
