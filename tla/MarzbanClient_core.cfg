SPECIFICATION FairSpec
CONSTANTS
  Calls = {k1, k2}
  MaxAttempts = 3
INVARIANTS TypeOK UnauthorizedOnlyIfExpired EffectsPerAttempt
PROPERTIES CallsEnd
