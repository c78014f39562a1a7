---------------------------- MODULE TokenFamilies ----------------------------
(***************************************************************************)
(* The authorization code grant and the refresh token grant on one         *)
(* tokenRepository.  The tokens of an authorization code -- the one its    *)
(* redemption minted and every rotation of it -- form a family, tied       *)
(* together by originatingAuthCodeId: it is what a replay of the code      *)
(* revokes, and nothing in it may go beyond what the end user approved.    *)
(***************************************************************************)
EXTENDS AuthCodeGrant

CONSTANTS Rotations,      \* refresh requests
          RefreshInputs,  \* the refresh requests that get sent
          Registered      \* scopes the scopeRepository knows

VARIABLES rpc, rform, old, rgranted, rlate,  \* the refresh token grant's
          extinct    \* history: codes whose family was swept while quiet

R == INSTANCE RefreshTokenGrant WITH
       Requests <- Rotations, Inputs <- RefreshInputs, Roots <- <<>>,
       pc <- rpc, form <- rform, granted <- rgranted, late <- rlate

ASSUME FamilyAssumption ==
  /\ Rotations \subseteq TokenIds \ Requests
  /\ RefreshInputs \subseteq R!Form
  /\ None \notin R!Form

rotation == <<rpc, rform, old, rgranted, rlate>>
redeemer == <<stores, pc, request, history>>

FamilyInit ==
  /\ Init
  /\ rpc = [q \in Rotations |-> "idle"]
  /\ rform = [q \in Rotations |-> None]
  /\ old = [q \in Rotations |-> None]
  /\ rgranted = [q \in Rotations |-> {}]
  /\ rlate = {}
  /\ extinct = {}

-----------------------------------------------------------------------------
\* Rotations that passed their check and have yet to store what they mint.
RotatingFrom(k) ==
  {q \in Rotations : /\ rpc[q] \in {"scopes", "revoke", "persist", "issue"}
                     /\ old[q].origin = k}

Quiet(k) == MintingFrom(k) = {} /\ RotatingFrom(k) = {}

\* A replayed code takes its whole family with it.
Replay(r) ==
  /\ RevokeDescendants(r)
  /\ extinct' = IF Quiet(form[r].code) THEN extinct \cup {form[r].code} ELSE extinct
  /\ UNCHANGED rotation

\* A step of a redemption other than the replay sweep.
RedemptionStep(r) ==
  \/ Resolve(r)      \/ CheckRevoked(r)   \/ LoadUser(r)
  \/ FinalizeScopes(r) \/ CheckChallenge(r) \/ PersistToken(r)
  \/ IssueRefreshToken(r) \/ BurnCode(r)  \/ Respond(r) \/ Fail(r)

Redeem ==
  /\ \/ \E k \in Codes, a \in Approvals : PersistCode(k, a)
     \/ \E k \in Codes : DeliverCode(k)
     \/ \E r \in Requests, f \in Inputs : Arrive(r, f)
     \/ \E r \in Requests : RedemptionStep(r)
     \/ \E c \in Clients, k \in Codes : RevokeCode(c, k)
     \/ \E u \in Users : DeleteUser(u)
     \/ Tick
  /\ UNCHANGED <<rotation, extinct>>

\* A token can be refreshed once the request that minted it was answered.
Answered(t) == t \in Requests => pc[t] = "delivered"

Rotate ==
  /\ \/ \E q \in Rotations, f \in RefreshInputs : Answered(f.token) /\ R!Arrive(q, f)
     \/ \E q \in Rotations : R!Step(q) \/ R!Fail(q)
     \/ \E c \in Clients, t \in TokenIds : Answered(t) /\ R!RevokeToken(c, t)
     \/ \E t \in TokenIds : R!Lapse(t)
  /\ UNCHANGED <<redeemer, extinct>>

FamilyNext == (\E r \in Requests : Replay(r)) \/ Redeem \/ Rotate

FamilySpec == FamilyInit /\ [][FamilyNext]_<<vars, rotation, extinct>>

-----------------------------------------------------------------------------
(***************************************************************************)
(* Properties.                                                             *)
(***************************************************************************)

\* Every token of a code, however often rotated, is the approved client's
\* and user's, and its scopes are within those of a token some redemption of
\* the code minted, which go beyond the approval only by what the hook of
\* that redemption added: a rotation adds none, whatever its hook returns.
FamilyWithinApproval ==
  \A t \in TokenIds :
    tokens[t] # None =>
      /\ tokens[t].origin \in Codes
      /\ LET a == approval[tokens[t].origin]
         IN  /\ a # None
             /\ tokens[t].client = a.client
             /\ tokens[t].user \in {a.user, None}
             /\ \E r \in Requests :
                  /\ tokens[r] # None
                  /\ tokens[r].origin = tokens[t].origin
                  /\ tokens[t].scopes \subseteq tokens[r].scopes
                  /\ tokens[r].scopes \subseteq a.scopes \cup AddedByHook(r)

\* A family swept while nobody was minting into it is dead for good: no
\* rotation of one of its tokens starts afterwards.
ExtinctFamilyStaysDead ==
  \A t \in TokenIds :
    tokens[t] # None /\ tokens[t].origin \in extinct => IsDead(tokens[t])

\* Rows whose refresh token is yet to be issued.
Unissued == {r \in Requests : pc[r] = "refresh"} \cup {q \in Rotations : rpc[q] = "issue"}

\* Neither grant writes back a row it read: what either revokes stays so,
\* except that storage without a flag forgets a revocation of a row whose
\* refresh token was yet to be issued.
RevocationSticks ==
  [][\A t \in TokenIds :
       tokens[t] # None =>
         /\ tokens[t].access = "revoked" => tokens'[t].access = "revoked"
         /\ IsDead(tokens[t]) /\ (t \in Unissued => FlagRevocation)
              => IsDead(tokens'[t])]_<<vars, rotation, extinct>>

\* On the one store codes and refresh tokens both keep the promise of a
\* credential that is used once, whichever grant minted the token, and
\* although a replay of the code revokes tokens while they are minted.
RefreshOneUse == INSTANCE OneUseCredential WITH
  Requests    <- Rotations,
  Credentials <- TokenIds,
  spent    <- {t \in TokenIds \ Unissued : /\ tokens[t] # None
                                           /\ tokens[t].refresh = "revoked"},
  holder   <- [q \in Rotations |-> IF old[q] # None THEN rform[q].token ELSE None],
  answered <- {q \in Rotations : rpc[q] = "delivered"}

CredentialsAreOneUse == ImplementsOneUse /\ RefreshOneUse!Spec

\* What "revoke all tokens descended from an authorization code when that
\* code is reused" says, and the code does not keep: once the replay was
\* answered and nobody mints any more, the code has no live token.
ReplayRevokesDescendants ==
  \A r \in Requests :
    pc[r] = "replayed" /\ Quiet(form[r].code) =>
      \A t \in DescendantsOf(form[r].code) : IsDead(tokens[t])
=============================================================================
