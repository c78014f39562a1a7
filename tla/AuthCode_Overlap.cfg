SPECIFICATION FairSpec
CONSTANTS
  r1 = r1  r2 = r2  k1 = k1  c1 = c1  c2 = c2
  u1 = u1  openid = openid  email = email  cb = cb  s1 = s1  None = None
  Requests = {r1, r2}
  TokenIds = {r1, r2}
  Codes = {k1}
  Clients = {c1, c2}
  Users = {u1}
  Scopes = {openid, email}
  Uris = {cb}
  Secrets = {s1}
  Openid = openid
  Approvals <- ManyApprovals
  Inputs <- MixedInputs
  HookResults <- AnyHook
  CodeTTL = 1
  MaxTime = 3
  OpaqueCodes = TRUE
  RequiresPKCE = FALSE
  RequiresS256 = FALSE
  OidcEnabled = TRUE
  AuthenticateRevoke = FALSE
  HasRevokeDescendants = TRUE
  DroppedColumns = {"nonce"}
  FlagRevocation = TRUE
  HydratesExpiry = TRUE
INVARIANT TypeOK
INVARIANT NonceSurvives
INVARIANT SweepIsFinal
INVARIANT TokenBoundToApproval
INVARIANT ErrorsAreAllOrNothing
PROPERTY FreshWhenAdmitted
PROPERTY ImplementsOneUse
PROPERTY MintedCodeIsSpent
CHECK_DEADLOCK FALSE
