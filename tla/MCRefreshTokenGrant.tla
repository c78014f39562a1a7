------------------------- MODULE MCRefreshTokenGrant -------------------------
(***************************************************************************)
(* Small instances of RefreshTokenGrant.                                   *)
(***************************************************************************)
EXTENDS RefreshTokenGrant, TLC

CONSTANTS r1, r2, t1, k1, c1, c2, u1, s1, s2

Root(origin, client, user, scopes, refresh) ==
  [origin |-> origin, client |-> client, user |-> user, scopes |-> scopes,
   access |-> "live", refresh |-> refresh]

\* A token of an authorization code.
OneRoot == t1 :> Root(k1, c1, u1, {s1, s2}, "live")

Refresh(t, c, scopes) == [token |-> t, client |-> c, scopes |-> scopes]

\* Refreshes of the token, also by the wrong client, and of whatever it was
\* rotated into, with all scopes.
ChainInputs ==
  {Refresh(t1, c1, None), Refresh(t1, c2, None)}
    \cup {Refresh(r, c1, {s1, s2}) : r \in Requests}
=============================================================================
