SPECIFICATION Spec
CONSTANTS
  Slots = {s1, s2}
  EmailInputs <- OneEmail
  NormalizeEmail <- LowerOne
  Passwords = {p1}
  Tokens = {t1, t2}
  TTL = 1
  MaxClock = 2
  MaxResets = 2
  None = None
SYMMETRY Symmetry
INVARIANTS ResetEndsSessions
