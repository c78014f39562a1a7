SPECIFICATION Spec
CONSTANTS
  r1 = r1  c1 = c1  u1 = u1  s1 = s1  openid = openid  read = read
  app = app  localhost = localhost  loopback = loopback  p0 = p0  p1 = p1
  cb = cb  other = other  canonical = canonical  odd = odd  None = None
  Requests = {r1}
  Clients = {c1}
  Users <- Consenting
  Secrets = {s1}
  Scopes = {openid, read}
  OidcScopes = {openid}
  Openid = openid
  Oidc = TRUE
  Schemes = {"http", "https"}
  Hosts = {app, localhost, loopback}
  Ports = {p0, p1}
  Paths = {cb, other}
  Spellings = {canonical, odd}
  DefaultPort = p0
  LoopbackHostnames = {localhost, loopback}
  Inputs <- MixedInputs
  Registrations <- MixedRegistrations
  ScopeRegistries <- ScopeWorlds
  RequiresPKCE = TRUE
  RequiresS256 = TRUE
INVARIANT FrontChannelIsGuarded
INVARIANT ConsentIsKept
INVARIANT CodesCanBeJudged
CHECK_DEADLOCK FALSE
