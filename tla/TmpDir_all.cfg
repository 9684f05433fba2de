SPECIFICATION Spec
CONSTANTS
  Host = Host
  Cleaner = Cleaner
  Children = {c1, c2, c3}
  MaxAttempts = 3
INVARIANT InUseIsThere
INVARIANT AttemptsUndone
PROPERTY CleanedUp
