SPECIFICATION FamilySpec
CONSTANTS
  r1 = r1  r2 = r2  q1 = q1  q2 = q2  k1 = k1  c1 = c1
  u1 = u1  openid = openid  email = email  cb = cb  s1 = s1  None = None
  Requests = {r1, r2}
  Rotations = {q1}
  TokenIds = {r1, r2, q1}
  Codes = {k1}
  Clients = {c1}
  Users = {u1}
  Scopes = {openid, email}
  Registered = {openid, email}
  Uris = {cb}
  Secrets = {s1}
  Openid = openid
  Approvals <- Approved
  Inputs <- Redemption
  HookResults <- AddingHook
  RefreshInputs <- Refreshes
  CodeTTL = 1
  MaxTime = 2
  OpaqueCodes = FALSE
  RequiresPKCE = TRUE
  RequiresS256 = TRUE
  OidcEnabled = FALSE
  AuthenticateRevoke = TRUE
  HasRevokeDescendants = TRUE
  DroppedColumns = {}
  FlagRevocation = FALSE
  HydratesExpiry = TRUE
INVARIANT ReplayRevokesDescendants
CHECK_DEADLOCK FALSE
