------------------------------ MODULE TokenStore ------------------------------
(***************************************************************************)
(* The rows of the consumer's tokenRepository and what its methods do to   *)
(* one row.  The repositories in the tree revoke by setting both expiries  *)
(* to the epoch; the schema in the documentation sets a revoked_at flag    *)
(* that covers the whole row (FlagRevocation).  A refresh token that       *)
(* expired by itself answers isRefreshTokenRevoked as a revoked one does.  *)
(***************************************************************************)
EXTENDS Absence

CONSTANTS TokenIds, Codes, Clients, Users, Scopes,
          FlagRevocation   \* revocation is a flag of the row

TokenRow == [origin  : Codes \cup {None},   \* originatingAuthCodeId
             client  : Clients,
             user    : Users \cup {None},
             scopes  : SUBSET Scopes,
             access  : {"live", "revoked"},
             refresh : {"none", "live", "revoked"}]

\* What issueAccessToken persists: no refresh token yet.
FreshRow(origin, client, user, scopes) ==
  [origin |-> origin, client |-> client, user |-> user, scopes |-> scopes,
   access |-> "live", refresh |-> "none"]

\* Mutants: only the access half is revoked; the refresh column is nulled.
Revoked_AccessOnly(row) == [row EXCEPT !.access = "revoked"]
Revoked_NullsRefresh(row) == [row EXCEPT !.access = "revoked", !.refresh = None]

\* tokenRepository.revoke, and revokeDescendantsOf for each row.
Revoked(row) == [row EXCEPT !.access = "revoked", !.refresh = "revoked"]

\* Mutant: the whole in-memory entity is written back.
WithRefreshToken_WholeRow(row) == [row EXCEPT !.access = "live", !.refresh = "live"]

\* tokenRepository.issueRefreshToken writes the refresh columns of the row,
\* whatever they hold by now; a revoked_at flag outlives that.
WithRefreshToken(row) ==
  [row EXCEPT !.refresh = IF FlagRevocation /\ row.access = "revoked"
                            THEN "revoked" ELSE "live"]

IsDead(row) == row.access = "revoked" /\ row.refresh = "revoked"
=============================================================================
