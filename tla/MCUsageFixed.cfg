SPECIFICATION Spec
CONSTANTS
  c1 = c1  c2 = c2  u1 = u1  u2 = u2  k1 = k1  s1 = s1  s2 = s2
  Sessions = {s1, s2}
  Users = {u1, u2}
  FoldOf <- Distinct
  Codes = {c1}
  Campaigns = {k1}
  CampaignOf <- OnlyCode
  CodeType <- AllFixed
  FixedQty = 3
  Qtys = {1, 3}
  Limits = {1, 2}
SYMMETRY SessionSymmetry
INVARIANTS TablesSound AnswersSound
PROPERTY ImplementsLedger
