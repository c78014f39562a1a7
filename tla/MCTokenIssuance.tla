--------------------------- MODULE MCTokenIssuance ---------------------------
(***************************************************************************)
(* Small instances of TokenIssuance.                                       *)
(***************************************************************************)
EXTENDS TokenIssuance, TLC

CONSTANTS r1, r2, c1, u1, s1, s2, colon, openid, read

\* The secret `colon` holds a colon; what precedes it is nobody's secret but
\* could be: it is s2's spelling.
Heads == s1 :> s1 @@ s2 :> s2 @@ colon :> s2

Ask(grant, id, secret, basic, scopes, token) ==
  [grant |-> grant, id |-> id, secret |-> secret, basic |-> basic,
   scopes |-> scopes, token |-> token]

Header(id, secret) == [id |-> id, secret |-> secret]

\* A confidential client, one with fewer grants, a public one.
MixedRegistrations ==
  {[secret |-> s1, grants |-> Grants],
   [secret |-> s2, grants |-> {"password", "refresh_token"}],
   [secret |-> None, grants |-> {"token_exchange", "authorization_code"}]}

\* Every grant, with right and wrong credentials, in the body, in the header
\* and mixed; scopes of either kind; a refresh with and without scopes; the
\* endpoints that only authenticate.
MixedInputs ==
  {Ask("client_credentials", c1, s1, None, {read}, None),
   Ask("client_credentials", None, None, Header(c1, s1), {openid}, None),
   Ask("password", c1, None, Header(c1, colon), {openid, read}, None),
   Ask("token_exchange", c1, None, None, {read}, None),
   Ask("authorization_code", c1, s1, None, {openid, read}, None),
   Ask("refresh_token", c1, s1, None, None, r1),
   Ask("refresh_token", c1, s1, None, {openid, read}, r2),
   Ask("introspect", c1, s2, None, None, None),
   Ask("revoke", None, None, Header(c1, s2), None, None),
   Ask("revoke_code", c1, s2, None, None, None)}

OneClient == {c1}
ScopeWorlds == {{read}, {}}
=============================================================================
