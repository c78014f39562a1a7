SPECIFICATION Spec
CONSTANTS
  r1 = r1  r2 = r2  t1 = t1  t2 = t2  c1 = c1  c2 = c2
  acme = acme  zeta = zeta  None = None
  Requests = {r1, r2}
  TokenIds = {t1, t2}
  Clients = {c1, c2}
  Confidential = {c2}
  Names = {acme, zeta}
  NameOf <- ClientNames
  TokenCID = "name"
  Claims <- IssuedClaims
  Inputs <- MixedInputs
  AuthenticateRevoke = TRUE
  AuthenticateIntrospect = TRUE
  RequiresConfidential = TRUE
  Repositories <- AnyRepository
  MaxTime = 4
SYMMETRY RequestSymmetry
INVARIANT DeadOnArrivalIsRefused
INVARIANT RevocationIsTheOwners
CHECK_DEADLOCK FALSE
