SPECIFICATION Spec
CHECK_DEADLOCK FALSE
CONSTANTS
  m = m
  w = w
  maker = maker
  user = user
  Project = {m, w}
  Mother = m
  Workspace = w
  HasStore = {m}
  Checkout = Checkout
  None = None
  Duplicate = Duplicate
  Slug = {a}
  MaxId = 2
  Birth = {1, 2}
  Process = {maker, user}
  Does <- MCDoes
  Cwd <- MCCwd
  Merges = TRUE
INVARIANTS
  TypeOK
  OneFilePerTask
PROPERTIES
  LookupTrue
  StoreKept
  FreshDefinition
