--------------------------- MODULE MCAuthCodeGrant ---------------------------
(***************************************************************************)
(* Small instances of AuthCodeGrant.                                       *)
(***************************************************************************)
EXTENDS AuthCodeGrant

CONSTANTS r1, r2, k1, c1, c2, u1, openid, email, cb, s1

plainSecret  == [of |-> s1, depth |-> 0]
hashedSecret == [of |-> s1, depth |-> 1]

Approve(c, scopes, challenge, method, nonce, staleAt) ==
  [client |-> c, uri |-> cb, user |-> u1, scopes |-> scopes,
   challenge |-> challenge, method |-> method, nonce |-> nonce,
   staleAt |-> staleAt, expires |-> 0]

\* One client's S256 approval.
OneApproval == {Approve(c1, {email}, hashedSecret, "S256", FALSE, None)}

\* Approvals that differ in client, method and OIDC parameters.
ManyApprovals ==
  {Approve(c1, {openid}, hashedSecret, "S256", TRUE, None),
   Approve(c1, {openid}, hashedSecret, "S256", FALSE, 1),
   Approve(c2, {openid}, plainSecret, "plain", FALSE, None),
   Approve(c1, {email}, None, None, FALSE, None)}

Input(k, c, uri, v) == [code |-> k, client |-> c, uri |-> uri, verifier |-> v]

HonestInput == {Input(k1, c1, cb, plainSecret)}

\* The hook removes every scope, or returns one that was not approved besides.
AnyHook == {{}, {openid, email}}
EmailHook == {{email}}

\* Wrong client, wrong or missing redirect URI, missing verifier.
MixedInputs ==
  {Input(k1, c1, cb, plainSecret), Input(k1, c2, cb, plainSecret),
   Input(k1, c1, None, plainSecret), Input(k1, c1, cb, None)}
=============================================================================
