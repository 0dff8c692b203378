SPECIFICATION Spec
CONSTANTS
  Slots = {s1, s2}
  EmailInputs <- TwoEmails
  NormalizeEmail <- LowerTwo
  Passwords = {p1, p2}
  Tokens = {t1, t2}
  TTL = 1
  MaxClock = 2
  MaxResets = 1
  None = None
SYMMETRY Symmetry
INVARIANTS TypeOK OnlyLateLoginsSurvive LogoutHolds
PROPERTIES LiveSessionsKept SessionsLastTTL PasswordsKept
