SPECIFICATION AdministrationSpec
CONSTANTS
  NULL = NULL
  Users = {u1}
  Sessions = {s1}
  Jtis = {j1, j2}
  Procs = {p1}
  Patches = {0, 3}
  CacheTtl = 2
  GenerationTtl = 3
  TokenTtl = 3
  MaxGeneration = 2
  MaxTasks = 2
  root = root  eve = eve  acme = acme  game = game  role = role
  Admins = {root, eve}
  Granted = eve
  Rows = {acme, game, role}
  Projects = {game}
  Assignment = role
  Handlers = {h1, h2}
  RoleTtl = 2
  MaxChanges = 2
  Names = {n1}
  MaxSaves = 3
  MaxErrands = 2
SYMMETRY Symmetric
CHECK_DEADLOCK FALSE
INVARIANTS AdministrationTypeOK RefusalsReachTheGuard BeforeIsReplaced
PROPERTIES CreatedOnce RevocationsBite SavesAreInformed
