SPECIFICATION AnswersSpec
CONSTANTS
  NULL = NULL
  m1 = m1  o1 = o1  x = x  y = y  g1 = g1  g2 = g2
  Approvers = {m1}
  Operators = {o1}
  Contents = {x, y}
  MaxEdits = 2
  Calls = {g1, g2}
SYMMETRY RewardSymmetry
INVARIANT RetryAnswersTheSame
