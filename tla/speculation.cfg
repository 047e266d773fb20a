SPECIFICATION FairPoolSpec
CONSTANTS
  Nothing = Nothing
  Requests = {r1, r2}
  Ids = {id1}
  BetInputs = {in1, in2}
  Workers = 1
INVARIANT
  DraftsStayOwn
PROPERTY
  RequestsEnd
CHECK_DEADLOCK FALSE
