SPECIFICATION IssueSpec
CONSTANTS
  j1 = j1  j2 = j2
  Jobs = {j1, j2}
  Type = 1
  Requested = 3
  MaxRetries = 1
  StaleAfter = 2
  Punctual = FALSE
  MaxTouches = 2
CHECK_DEADLOCK FALSE
INVARIANTS CountSound FixedHandoverSound
PROPERTIES EndedGetsNoCodes GenerationRecovers FixedIssueRecovers
