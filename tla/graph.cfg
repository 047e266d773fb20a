SPECIFICATION FairSpec
CONSTANTS
  Allowances = {3, 4, 6}
  NumProviders = 2
  MaxRetries = 2
  MaxRegenerations = 1
  q = q
  rewritten = rewritten
  good = good
  weak = weak
  None = None
  Question = q
  Queries <- MCQueries
  Evidence <- MCEvidence
  GatePassing <- MCGatePassing
  Settings <- AllSettings
INVARIANTS
  AnswerIsVerified
  CallsAccounted
  ExhaustionFailsClosed
  RetryStaysAffordable
PROPERTIES
  DraftsOnce
  OutageIsNoVerdict
  AnswerGateSpec
  FailoverRouteSpec
  RequestEnds
  DraftEnds
