SPECIFICATION Spec
CONSTANTS
  c1 = c1  c2 = c2  u1 = u1  u2 = u2  k1 = k1  s1 = s1  s2 = s2
  Sessions = {s1, s2}
  Users = {u1, u2}
  FoldOf <- Distinct
  Codes = {c1, c2}
  Campaigns = {k1}
  CampaignOf <- OneCampaign
  CodeType <- AllRandom
  FixedQty = 1
  Qtys = {1, 2}
  Limits = {1}
SYMMETRY SessionSymmetry
INVARIANTS TablesSound PremisesHold AnswersSound OneWinnerPerRandomCode
