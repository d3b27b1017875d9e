SPECIFICATION FairSpec
CONSTANTS
  c1 = c1
  c2 = c2
  chosen = chosen
  drawn = drawn
  p = p
  q = q
  None = None
  Callers <- TwoCallers
  Chosen <- OneService
  Drawable <- OneName
  Passwords <- TwoPasswords
  MaxCalls = 3
  MaxRestarts = 1
INVARIANTS
  SettledPasswordKept
PROPERTIES
  EveryCallReturns
CHECK_DEADLOCK FALSE
