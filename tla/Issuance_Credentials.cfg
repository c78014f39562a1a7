SPECIFICATION Spec
CONSTANTS
  r1 = r1  r2 = r2  c1 = c1  u1 = u1
  s1 = s1  s2 = s2  colon = colon  openid = openid  read = read  None = None
  Requests = {r1, r2}
  Clients <- OneClient
  Users = {u1}
  Secrets = {s1, s2, colon}
  HeadOf <- Heads
  Scopes = {openid, read}
  OidcScopes = {openid}
  Openid = openid
  Oidc = TRUE
  Inputs <- MixedInputs
  Registrations <- MixedRegistrations
  ScopeRegistries <- ScopeWorlds
  IntrospectionRequiresConfidentialClient = TRUE
INVARIANT CredentialsDecide
INVARIANT OidcScopesStayWithCodes
CHECK_DEADLOCK FALSE
