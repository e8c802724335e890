SPECIFICATION Spec
CONSTANTS
  NULL = NULL
  Calls = {c1}
  Procs = {p1, p2}
  Clicks = {k1, k2}
  Tolerance = 1
  Grace = 2
  Ahead = 1
  MaxEdits = 2
SYMMETRY Symmetric
CHECK_DEADLOCK FALSE
INVARIANTS CallsSound ReplacedSecretWorks
PROPERTIES ChangedKnowingly
