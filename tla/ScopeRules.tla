------------------------------ MODULE ScopeRules ------------------------------
(***************************************************************************)
(* Which scopes a grant accepts.  The scope repository knows some; with    *)
(* OIDC enabled the authorization code grant, and no other, knows the      *)
(* standard OIDC scopes besides.                                           *)
(***************************************************************************)
CONSTANTS
  Scopes,
  OidcScopes,    \* openid and the scopes of OIDC_SCOPE_CLAIMS
  Openid,
  Oidc           \* options.oidc is set

ASSUME ScopesAssumption ==
  /\ OidcScopes \subseteq Scopes
  /\ Openid \in OidcScopes
  /\ Oidc \in BOOLEAN

\* Mutant: every grant recognizes them.
AutoRecognized_ForAll(grant) == IF Oidc THEN OidcScopes ELSE {}

AutoRecognized(grant) ==
  IF Oidc /\ grant = "authorization_code" THEN OidcScopes ELSE {}

\* validateScopes throws invalid_scope unless all that was asked is known.
ScopesAreValid(asked, registered, grant) ==
  asked \subseteq registered \cup AutoRecognized(grant)

IsOpenIdScopeRequest(scopes) == Oidc /\ Openid \in scopes
=============================================================================
