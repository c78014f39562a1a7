SPECIFICATION Spec
CONSTANTS
  r1 = r1  r2 = r2  k1 = k1  c1 = c1  c2 = c2
  u1 = u1  openid = openid  email = email  cb = cb  s1 = s1  None = None
  Requests = {r1, r2}
  TokenIds = {r1, r2}
  Codes = {k1}
  Clients = {c1, c2}
  Users = {u1}
  Scopes = {openid, email}
  Uris = {cb}
  Secrets = {s1}
  Openid = openid
  Approvals <- OneApproval
  Inputs <- HonestInput
  HookResults <- EmailHook
  CodeTTL = 1
  MaxTime = 3
  OpaqueCodes = FALSE
  RequiresPKCE = TRUE
  RequiresS256 = TRUE
  OidcEnabled = FALSE
  AuthenticateRevoke = TRUE
  HasRevokeDescendants = TRUE
  DroppedColumns = {}
  FlagRevocation = FALSE
  HydratesExpiry = TRUE
INVARIANT AtMostOneDelivery
CHECK_DEADLOCK FALSE
