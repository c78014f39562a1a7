SPECIFICATION FairSpec
CONSTANTS
  r1 = r1  r2 = r2  t1 = t1  k1 = k1  c1 = c1  c2 = c2
  u1 = u1  s1 = s1  s2 = s2  None = None
  Requests = {r1, r2}
  TokenIds = {t1, r1, r2}
  Codes = {k1}
  Clients = {c1, c2}
  Users = {u1}
  Scopes = {s1, s2}
  Roots <- OneRoot
  Inputs <- ChainInputs
  Registered = {s1, s2}
  FlagRevocation = FALSE
  AuthenticateRevoke = FALSE
INVARIANT TypeOK
INVARIANT RotatedTokenIsDead
INVARIANT NoLateRotation
INVARIANT RotationKeepsGrant
PROPERTY DeadStaysDead
PROPERTY ImplementsOneUse
PROPERTY RevokedIsReplaced
CHECK_DEADLOCK FALSE
