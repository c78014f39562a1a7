--------------------------- MODULE MCServerDispatch ---------------------------
(***************************************************************************)
(* Small instances of ServerDispatch.                                      *)
(***************************************************************************)
EXTENDS ServerDispatch

CONSTANTS r1, r2, db1, db2, custom, short, long

With(g, ttl, codes) == [grant |-> g, ttl |-> ttl, codes |-> codes]

\* The code grant on either repository, a batch that fails half way, the
\* implicit and a custom grant, and one of the constructor's grants again.
MixedBatches ==
  {<<With("authorization_code", short, db1)>>,
   <<With("authorization_code", long, db2), With(None, long, None), Named("password")>>,
   <<With("implicit", short, None)>>,
   <<With(custom, short, None), With("refresh_token", short, None)>>}

Ask(endpoint, asks, code) == [endpoint |-> endpoint, asks |-> asks, code |-> code]

MixedInputs ==
  {Ask("authorize", "code", None), Ask("authorize", "token", None),
   Ask("token", "authorization_code", r1), Ask("token", "refresh_token", None),
   Ask("token", "implicit", None), Ask("token", custom, None),
   Ask("revoke", "auth_code", None), Ask("introspect", "other", None)}
=============================================================================
