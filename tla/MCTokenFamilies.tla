--------------------------- MODULE MCTokenFamilies ---------------------------
(***************************************************************************)
(* Small instances of TokenFamilies.                                       *)
(***************************************************************************)
EXTENDS TokenFamilies, TLC

CONSTANTS r1, r2, q1, q2, k1, c1, u1, openid, email, cb, s1

Approved ==
  {[client |-> c1, uri |-> cb, user |-> u1, scopes |-> {email},
    challenge |-> [of |-> s1, depth |-> 1], method |-> "S256",
    nonce |-> FALSE, staleAt |-> None, expires |-> 0]}

\* The verifier behind the challenge, and the challenge itself.
Redemption ==
  {[code |-> k1, client |-> c1, uri |-> cb,
    verifier |-> [of |-> s1, depth |-> d]] : d \in 0 .. 1}

\* The hook of a redemption replaces the approved scope by another one.
AddingHook == {{openid}}

\* Refreshes with every scope there is.
Refreshes ==
  {[token |-> t, client |-> c1, scopes |-> {openid, email}] : t \in TokenIds}

RequestSymmetry ==
  {f @@ g : f \in Permutations(Requests), g \in Permutations(Rotations)}
=============================================================================
