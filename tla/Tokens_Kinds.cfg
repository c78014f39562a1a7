SPECIFICATION Spec
CONSTANTS
  g1 = g1  c1 = c1  u1 = u1  k1 = k1  k2 = k2  n1 = n1
  someone = someone  some = some  None = None
  Grants = {g1}
  Clients = {c1}
  Users = {u1}
  Keys = {k1, k2}
  Nonces = {n1}
  current = current
  KeyNames = {current}
  Scopes <- ScopeNames
  Openid = "openid"
  Settings <- Starts
  Metadata <- Edits
  AccessHooks <- TokenFields
  IdHooks <- IdFields
  Profiles <- EndUsers
  MaxStarts = 2
INVARIANT EachReaderItsKind
INVARIANT ReadersTellTheGrant
INVARIANT IdTokenTellsWhatHappened
INVARIANT IdTokensCanBeVerified
CHECK_DEADLOCK FALSE
