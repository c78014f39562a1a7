SPECIFICATION Spec
CONSTANTS
  r1 = r1  r2 = r2  db1 = db1  db2 = db2
  custom = custom  short = short  long = long  None = None
  Requests = {r1, r2}
  CustomGrants = {custom}
  Repositories = {db1, db2}
  TTLs = {short, long}
  DefaultTTL = long
  Inputs <- MixedInputs
  Batches <- MixedBatches
  MaxInstances = 4
  MaxRestarts = 1
INVARIANT OneServerPerRequest
INVARIANT KnownCodeIsFound
INVARIANT SessionsEndAsBegun
CHECK_DEADLOCK FALSE
