-------------------------------- MODULE Pkce --------------------------------
(***************************************************************************)
(* PKCE (RFC 7636) as the authorization code grant applies it: the check   *)
(* /authorize makes on a code challenge and the check /token makes on the  *)
(* code verifier.  A string is a secret hashed `depth` times, so SHA-256   *)
(* is injective and never returns its own input.  None is a parameter that *)
(* was not sent or a column that was not stored; a verifier that does not  *)
(* match REGEXP_CODE_VERIFIER is rejected where a missing one is, and is   *)
(* represented by None as well.                                            *)
(***************************************************************************)
EXTENDS Naturals, Absence

CONSTANT Secrets   \* what a client can draw as a code verifier

Methods == {"plain", "S256"}

\* A verifier is a raw string, or a hash somebody saw on the wire; a
\* challenge may in turn be the hash of such a string.
VerifierStrings  == [of : Secrets, depth : 0 .. 1]
ChallengeStrings == [of : Secrets, depth : 0 .. 2]

Hash(s) == [of |-> s.of, depth |-> s.depth + 1]

VerifyCodeChallenge(method, verifier, challenge) ==
  challenge = IF method = "S256" THEN Hash(verifier) ELSE verifier

(***************************************************************************)
(* The gate at /authorize.  A method that was not sent counts as "plain",  *)
(* and requiresS256 bites whenever a challenge is present.                 *)
(***************************************************************************)
AuthorizeAcceptsChallenge(challenge, method, requiresPKCE, requiresS256) ==
  IF challenge = None THEN ~requiresPKCE
  ELSE method = "S256" \/ (method = "plain" /\ ~requiresS256)

(***************************************************************************)
(* The gate at /token.  `signed` and `row` are records with a challenge    *)
(* and a method: the resolved payload's copy and the persisted one.  The   *)
(* payload's challenge wins, both copies must agree when there are two,    *)
(* and the method comes from the copy that supplied the challenge.         *)
(***************************************************************************)
\* Mutant: the stored copy wins.
EnforcedCopy_RowWins(signed, row) == IF row.challenge # None THEN row ELSE signed

EnforcedCopy(signed, row) == IF signed.challenge # None THEN signed ELSE row

\* Mutant: a verifier is checked when there is one.
CodeChallengePasses_WhenSent(signed, row, verifier, requiresPKCE) ==
  LET copy == EnforcedCopy(signed, row)
  IN  verifier # None /\ copy.challenge # None
        => VerifyCodeChallenge(copy.method, verifier, copy.challenge)

CodeChallengePasses(signed, row, verifier, requiresPKCE) ==
  LET copy == EnforcedCopy(signed, row)
  IN  /\ signed.challenge # None /\ row.challenge # None
           => signed.challenge = row.challenge
      /\ IF copy.challenge = None
           THEN ~requiresPKCE
           ELSE /\ verifier # None
                /\ VerifyCodeChallenge(copy.method, verifier, copy.challenge)
=============================================================================
