SPECIFICATION Spec
CONSTANTS
  Slots = {s1, s2}
  Weddings = {w1, w2}
  GuestIds = {g1, g2}
  CodeInputs <- MCCodeInputs
  NormalizeCode <- MCNormalize
  Codes <- MCCodes
  Attempts = 3
  MaxInputs = {0, 2}
  CountInputs = {0, 2}
  None = None
SYMMETRY Symmetry
INVARIANTS TypeOK OverAllowanceOnlyAfterCut SummaryAddsUp
PROPERTIES CreateStoresOne AnswersKept GuestsStayInWedding
