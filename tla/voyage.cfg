SPECIFICATION Spec
CONSTANTS
  None = None
  Allowances = {3}
  NumProviders = 2
  ScoreLists <- MCScoreLists
  Invocations <- MCInvocations
INVARIANTS
  ProfileIsSafest
  ReportIsWhole
  OutagesAreRecorded
CHECK_DEADLOCK FALSE
