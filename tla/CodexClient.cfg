\* Two calls at a time, made again and again, over tokens that are replaced twice.
SPECIFICATION CodexFairSpec
CONSTANTS
  Callers = {c1, c2}
  MaxTokens = 2
  MaxAttempts = 2
  None = None
INVARIANTS
  SpentNotSent
PROPERTIES
  ReplacesOnlyBad
  TokensAdvance
  FailureIsCurrent
  CallsEnd
