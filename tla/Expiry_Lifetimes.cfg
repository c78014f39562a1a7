SPECIFICATION Spec
CONSTANTS
  None = None
  NaN = NaN
  Second = 3
  TTLs <- AccessIntervals
  RefreshTTLs <- RefreshIntervals
  CodeTTLs <- CodeOptions
  DefaultCodeTTL = 10
  Leeway = 1
  MaxTime = 22
INVARIANT NobodyOutlivesTheRow
INVARIANT ExpiresInWithinASecond
INVARIANT RefreshTokenLivesItsTime
INVARIANT CodeLivesItsTime
CHECK_DEADLOCK FALSE
