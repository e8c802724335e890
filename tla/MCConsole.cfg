SPECIFICATION ConsoleSpec
CONSTANTS
  NULL = NULL
  root = root  ann = ann  p1 = p1  p2 = p2  p3 = p3  s1 = s1
  Users = {ann, root}
  Admins = {root}
  Projects = {p1, p2, p3}
  CompanyOf <- Company
  ProjectsOf <- Assigned
  Slots = {s1}
  MaxJti = 3
  MaxCalls = 2
  Contents = {c1, c2}
  MaxRev = 2
  MaxLoads = 3
  MaxUnderWay = 2
  Selections = {g1, g2}
  Filters = {f1, f2}
  Pages = {1, 2}
  MaxFetches = 3
  MaxCodes = 5
  PageSize = 2
SYMMETRY Symmetric
CHECK_DEADLOCK FALSE
INVARIANTS ConsoleTypeOK SelectionSound RowsAreSound ExportIsComplete
PROPERTIES StoredTokenIsNewest LoadsNeverGoBack DecidedAsShown
