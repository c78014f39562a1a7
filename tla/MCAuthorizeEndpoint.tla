------------------------- MODULE MCAuthorizeEndpoint -------------------------
(***************************************************************************)
(* Small instances of AuthorizeEndpoint.                                   *)
(***************************************************************************)
EXTENDS AuthorizeEndpoint

CONSTANTS r1, c1, u1, s1, openid, read, app, localhost, loopback, p0, p1, cb, other, canonical, odd

Uri(scheme, host, port, path, spelling, fragment) ==
  [url |-> [scheme |-> scheme, host |-> host, port |-> port, path |-> path],
   spelling |-> spelling, fragment |-> fragment]

AppUri    == Uri("https", app, p0, cb, canonical, "none")
PlainUri  == Uri("http", app, p0, cb, canonical, "none")
NativeUri == Uri("http", localhost, p0, cb, canonical, "none")
\* A custom scheme a registration may hold but new URL() does not parse.
Unparsed  == [url |-> None, spelling |-> odd, fragment |-> "none"]

\* One web URI, another and a native one, and one that holds no URL, with and
\* without the implicit grant.
Reg(uris, first, grants) == [uris |-> uris, first |-> first, grants |-> grants]

MixedRegistrations ==
  {Reg({AppUri}, AppUri, {"authorization_code"}),
   Reg({PlainUri, NativeUri}, PlainUri, {"authorization_code", "implicit"}),
   Reg({Unparsed}, Unparsed, {"implicit"})}

\* The registered URIs, and their neighbours: another port, path, host,
\* scheme or spelling, a fragment, a string that does not parse.
RequestedUris ==
  {None, AppUri, PlainUri, NativeUri, Unparsed,
   Uri("https", app, p1, cb, canonical, "none"),
   Uri("http", app, p1, cb, canonical, "none"),
   Uri("https", app, p0, other, canonical, "none"),
   Uri("https", app, p0, cb, odd, "none"),
   Uri("https", app, p0, cb, canonical, "empty"),
   Uri("http", localhost, p1, cb, canonical, "none"),
   Uri("http", localhost, p1, other, canonical, "none"),
   Uri("https", localhost, p1, cb, canonical, "none"),
   Uri("http", loopback, p1, cb, canonical, "none")}

Challenge == [of |-> s1, depth |-> 1]

Ask(response, uri, scopes, challenge, method, nonce, maxAge) ==
  [response |-> response, client |-> c1, uri |-> uri, scopes |-> scopes,
   challenge |-> challenge, method |-> method, nonce |-> nonce, maxAge |-> maxAge]

\* Every URI once for either grant, and every mix of PKCE and OIDC
\* parameters on one URI.
MixedInputs ==
  {Ask("code", u, {read}, Challenge, "S256", FALSE, "none") : u \in RequestedUris} \cup
  {Ask("token", u, {read}, None, None, FALSE, "none") : u \in RequestedUris} \cup
  {Ask("code", AppUri, {openid, read}, c, m, TRUE, a) :
     c \in {None, Challenge}, m \in {None, "plain", "S256", "other"},
     a \in {"none", "valid", "invalid"}}

Consenting == {u1}
ScopeWorlds == {{read}, {}}
=============================================================================
