--------------------------- MODULE MCTokenEndpoints ---------------------------
(***************************************************************************)
(* Small instances of TokenEndpoints.                                      *)
(***************************************************************************)
EXTENDS TokenEndpoints, TLC

CONSTANTS r1, r2, t1, t2, c1, c2, acme, zeta

\* A token whose refresh token outlives it, and one without a refresh token.
IssuedClaims ==
  t1 :> [client |-> c1, openid |-> TRUE, access |-> 2, refresh |-> 3] @@
  t2 :> [client |-> c2, openid |-> FALSE, access |-> 3, refresh |-> 0]

Repo(storage, shared, lookup, hook) ==
  [storage |-> storage, shared |-> shared, lookup |-> lookup, hook |-> hook]

\* Every way to revoke, on shared rows and on copies, with the optional
\* methods and without.
AnyRepository ==
  {Repo("epoch", TRUE, TRUE, FALSE), Repo("flag", FALSE, TRUE, TRUE),
   Repo("delete", FALSE, FALSE, FALSE)}

ClientNames == c1 :> acme @@ c2 :> zeta

Ask(endpoint, client, token, half) ==
  [endpoint |-> endpoint, client |-> client, token |-> token, half |-> half,
   hint |-> "known"]

\* Every endpoint with every half of one token, owned and foreign, a token of
\* the other kind, one that does not verify and a hint nobody knows.
MixedInputs ==
  {Ask("introspect", c2, t1, "access"), Ask("introspect", c2, t1, "refresh"),
   Ask("introspect", c1, t2, "access"), Ask("introspect", c2, t1, None),
   Ask("userinfo", c1, t1, "access"), Ask("userinfo", c1, t1, "refresh"),
   Ask("userinfo", c2, t2, "access"),
   Ask("api", c1, t1, "access"), Ask("api", c1, t1, "refresh"),
   Ask("revoke", c1, t1, "access"), Ask("revoke", c1, t1, "refresh"),
   Ask("revoke", c2, t1, "access"), Ask("revoke", c2, t1, "refresh"),
   Ask("revoke", c2, t2, "access"),
   [Ask("revoke", c1, t1, "access") EXCEPT !.hint = "unknown"],
   [Ask("introspect", c2, t1, "access") EXCEPT !.hint = "unknown"]}

RequestSymmetry == Permutations(Requests)
=============================================================================
