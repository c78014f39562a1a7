--------------------------- MODULE MCSignedTokens ---------------------------
(***************************************************************************)
(* A small instance of SignedTokens.                                       *)
(***************************************************************************)
EXTENDS SignedTokens, TLC

CONSTANTS g1, c1, u1, k1, k2, n1, someone, some, current

\* Without OIDC, with a secret or a key; with OIDC, with either key, or
\* misconfigured in each way.
Site == [scheme |-> "https", loopback |-> FALSE, bare |-> TRUE]
NoFields == [n \in {} |-> None]
Algs == [id_token_signing_alg_values_supported |-> some]
Extra == [service_documentation |-> some]

Start(form, key, issuer, oidc, md) ==
  [key |-> [form |-> form, key |-> key, kid |-> None], issuer |-> issuer, oidc |-> oidc, metadata |-> md]

\* The same with a key identifier of the application's.
Named(start) == [start EXCEPT !.key.kid = current]

Starts ==
  {Start("secret", k1, None, FALSE, NoFields),
   Start("private", k1, Site, FALSE, NoFields),
   Start("private", k1, Site, TRUE, Extra),
   Start("private", k2, Site, TRUE, NoFields),
   Named(Start("private", k1, Site, TRUE, NoFields)),
   Named(Start("private", k2, Site, TRUE, NoFields)),
   Start("secret", k1, Site, TRUE, NoFields),
   Start("public", k1, Site, TRUE, NoFields),
   Start("private", k1, None, TRUE, NoFields),
   Start("private", k1, [Site EXCEPT !.scheme = "http"], TRUE, NoFields),
   Start("private", k1, [Site EXCEPT !.bare = FALSE], TRUE, NoFields),
   Start("private", k1, Site, TRUE, Algs)}

Edits == {NoFields, Algs, Extra}

\* Hooks that add names of their own, and names that mean something.
TokenFields ==
  {NoFields, [sub |-> someone, client_id |-> someone, tenant |-> some], [iss |-> someone]}
IdFields ==
  {NoFields, [scope |-> {"openid"}, jti |-> some, nonce |-> someone, roles |-> some]}
EndUsers == {[sub |-> someone, name |-> some, email |-> some, admin |-> some]}
ScopeNames == {"openid", "profile", "admin"}
=============================================================================
