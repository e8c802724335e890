SPECIFICATION ExpirySpec
CONSTANTS
  m1 = m1  m2 = m2  o1 = o1  x = x  y = y
  Approvers = {m1}
  Operators = {o1}
  Contents = {x, y}
  MaxEdits = 4
INVARIANTS LiveIsApproved
PROPERTIES NothingOverwrittenUnseen EndedIsFrozen ExpiredCampaignsEnd
