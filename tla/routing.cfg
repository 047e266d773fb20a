SPECIFICATION Spec
CONSTANTS
  r1 = r1
  r2 = r2
  Requests = {r1, r2}
  Callers <- MCCallers
  Settings <- MCSettings
  Cooldown <- MCCooldown
  Hints = {0, 3}
  MaxRetryAfter = 1
  Minute = 0
  Day = 1
  TokensPerMinute = 1
  TokensPerDay = 2
  Estimate = 1
  Usages = {1}
  MaxTime = 1
CHECK_DEADLOCK FALSE
PROPERTY
  RoutesAreFollowed
INVARIANTS
  NoCandidatePassedUntried
  CoolingIsDeserved
  CallsAreBounded
  EvaluationIsComparable
