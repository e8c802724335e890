SPECIFICATION ReconcilingSpec
CONSTANTS
  c1 = c1  c2 = c2  u1 = u1  u2 = u2  k1 = k1  s1 = s1  s2 = s2
  Sessions = {s1}
  Users = {u1}
  FoldOf <- Distinct
  Codes = {c1}
  Campaigns = {k1}
  CampaignOf <- OnlyCode
  CodeType <- AllFixed
  FixedQty = 2
  Qtys = {2}
  Limits = {2}
PROPERTY EveryRedemptionConfirmed
