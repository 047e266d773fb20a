SPECIFICATION Spec
CONSTANTS
  None = None
  Retrievals <- MCRetrievals
  Workflows <- MCWorkflows
  Invocations <- MCInvocations
INVARIANTS
  GreenIsSafe
  ExitHasAReason
CHECK_DEADLOCK FALSE
