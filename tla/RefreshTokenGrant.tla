-------------------------- MODULE RefreshTokenGrant --------------------------
(***************************************************************************)
(* The refresh token grant: respondToAccessTokenRequest presents an old    *)
(* refresh token, revokes it and mints a new access and refresh token for  *)
(* the same grant, possibly with fewer scopes.  Around it run the token    *)
(* revocation endpoint, the sweep of an authorization code's descendants   *)
(* and the clock, all on the rows of one tokenRepository.                  *)
(*                                                                         *)
(* One action per stretch of code between two awaits that touch shared     *)
(* state.  Whether getByRefreshToken returns a copy of the row or the row  *)
(* itself, only its revocation state ever changes and only                 *)
(* isRefreshTokenRevoked looks at that: so the read and the check are one  *)
(* action, at the time of the read for a copy and of the check otherwise.  *)
(***************************************************************************)
EXTENDS FiniteSets, TokenStore

CONSTANTS
  Requests,           \* refresh requests; a request names the token it mints
  Roots,              \* rows other grants stored and handed out, by identifier
  Inputs,             \* the refresh requests that get sent, a set of Forms
  Registered,         \* scopes scopeRepository.getAllByIdentifiers knows
  AuthenticateRevoke

\* scopes is None when the request has no scope parameter.
Form == [token : TokenIds, client : Clients, scopes : (SUBSET Scopes) \cup {None}]

Running == {"validate", "scopes", "revoke", "persist", "issue", "respond"}
Ended   == {"delivered", "rejected", "failed"}

ASSUME ConstantsAssumption ==
  /\ Requests \subseteq TokenIds
  /\ (DOMAIN Roots) \subseteq TokenIds \ Requests
  /\ Roots \in [DOMAIN Roots -> TokenRow]
  /\ Inputs \subseteq Form
  /\ {FlagRevocation, AuthenticateRevoke} \subseteq BOOLEAN
  /\ None \notin TokenRow \cup Form \cup TokenIds

VARIABLES
  tokens,    \* tokenRepository: the persisted rows
  pc,        \* where each refresh is suspended
  form,      \* the parameters of the token request
  old,       \* the row behind the presented refresh token, once validated
  granted,   \* the finalized scopes
  late       \* history: requests that arrived after a rotation of their token

request == <<form, old, granted>>
vars    == <<tokens, pc, request, late>>

Init ==
  /\ tokens = [t \in TokenIds |-> IF t \in DOMAIN Roots THEN Roots[t] ELSE None]
  /\ pc = [r \in Requests |-> "idle"]
  /\ form = [r \in Requests |-> None]
  /\ old = [r \in Requests |-> None]
  /\ granted = [r \in Requests |-> {}]
  /\ late = {}

-----------------------------------------------------------------------------
Goto(r, label) == pc' = [pc EXCEPT ![r] = label]

\* The tokens of a row have reached their client.
HandedOut(t) ==
  /\ tokens[t] # None
  /\ tokens[t].refresh # "none"
  /\ t \in Requests => pc[t] = "delivered"

Rotated(t) == \E q \in Requests : pc[q] = "delivered" /\ form[q].token = t

\* A refresh request arrives; validateClient accepts the client or refuses it.
Arrive(r, f) ==
  /\ pc[r] = "idle"
  /\ HandedOut(f.token)
  /\ form' = [form EXCEPT ![r] = f]
  /\ Goto(r, "validate") \/ Goto(r, "rejected")
  /\ late' = IF Rotated(f.token) THEN late \cup {r} ELSE late
  /\ UNCHANGED <<tokens, old, granted>>

\* Mutant: the row is not asked whether it was revoked.
Usable_SignedOnly(row, client) == row.client = client

\* The presented token is the client's own and neither expired nor revoked.
Usable(row, client) == row.client = client /\ row.refresh = "live"

\* validateOldRefreshToken.
Validate(r) ==
  LET row == tokens[form[r].token]
  IN  /\ pc[r] = "validate"
      /\ \/ /\ Usable(row, form[r].client)
            /\ old' = [old EXCEPT ![r] = row]
            /\ Goto(r, "scopes")
         \/ /\ ~Usable(row, form[r].client)
            /\ Goto(r, "rejected")
            /\ UNCHANGED old
      /\ UNCHANGED <<tokens, form, granted, late>>

RequestedScopes(r) == IF form[r].scopes = None THEN old[r].scopes ELSE form[r].scopes

\* Mutant: the finalized scopes are compared with the requested ones.
WithinOldToken_Requested(r, s) == s \subseteq RequestedScopes(r)

\* No finalized scope beyond the old token's.
WithinOldToken(r, s) == s \subseteq old[r].scopes

\* validateScopes refuses an unregistered scope; the finalize hook may throw
\* or return any set; and a set wider than the old token's is refused.
FinalizeScopes(r) ==
  /\ pc[r] = "scopes"
  /\ \/ /\ RequestedScopes(r) \subseteq Registered
        /\ \E s \in SUBSET Scopes :
             /\ WithinOldToken(r, s)
             /\ granted' = [granted EXCEPT ![r] = s]
        /\ Goto(r, "revoke")
     \/ /\ Goto(r, "rejected")
        /\ UNCHANGED granted
  /\ UNCHANGED <<tokens, form, old, late>>

\* Mutant: the old token survives the rotation.
RevokeOld_Forgotten(r) ==
  /\ pc[r] = "revoke"
  /\ Goto(r, "persist")
  /\ UNCHANGED <<tokens, request, late>>

\* tokenRepository.revoke(oldToken).
RevokeOld(r) ==
  /\ pc[r] = "revoke"
  /\ tokens' = [tokens EXCEPT ![form[r].token] = Revoked(@)]
  /\ Goto(r, "persist")
  /\ UNCHANGED <<request, late>>

NewToken(r) == FreshRow(old[r].origin, form[r].client, old[r].user, granted[r])

\* Mutant: a token without scopes is refused, once the old one is gone.
PersistNew_RefusesEmpty(r) ==
  /\ pc[r] = "persist"
  /\ \/ /\ granted[r] # {}
        /\ tokens' = [tokens EXCEPT ![r] = NewToken(r)]
        /\ Goto(r, "issue")
     \/ /\ granted[r] = {}
        /\ Goto(r, "rejected")
        /\ UNCHANGED tokens
  /\ UNCHANGED <<request, late>>

\* issueAccessToken.
PersistNew(r) ==
  /\ pc[r] = "persist"
  /\ tokens' = [tokens EXCEPT ![r] = NewToken(r)]
  /\ Goto(r, "issue")
  /\ UNCHANGED <<request, late>>

\* issueRefreshToken.
IssueRefresh(r) ==
  /\ pc[r] = "issue"
  /\ tokens' = [tokens EXCEPT ![r] = WithRefreshToken(@)]
  /\ Goto(r, "respond")
  /\ UNCHANGED <<request, late>>

\* extraJwtFields, then the tokens are signed and sent.
Respond(r) ==
  /\ pc[r] = "respond"
  /\ Goto(r, "delivered")
  /\ UNCHANGED <<tokens, request, late>>

\* An await rejects, or the process dies.
Fail(r) ==
  /\ pc[r] \in Running
  /\ Goto(r, "failed")
  /\ UNCHANGED <<tokens, request, late>>

-----------------------------------------------------------------------------
\* The revoke endpoint, with the access or the refresh token of a row.  It
\* answers the same whether or not it revoked, so only a revocation shows.
RevokeToken(c, t) ==
  /\ HandedOut(t)
  /\ AuthenticateRevoke => tokens[t].client = c
  /\ tokens' = [tokens EXCEPT ![t] = Revoked(@)]
  /\ UNCHANGED <<pc, request, late>>

\* revokeDescendantsOf, called when the authorization code is replayed.
SweepFamily(k) ==
  /\ tokens' = [t \in TokenIds |->
                  IF tokens[t] # None /\ tokens[t].origin = k
                    THEN Revoked(tokens[t]) ELSE tokens[t]]
  /\ UNCHANGED <<pc, request, late>>

\* A refresh token passes its expiry.
Lapse(t) ==
  /\ tokens[t] # None
  /\ tokens[t].refresh = "live"
  /\ tokens' = [tokens EXCEPT ![t].refresh = "revoked"]
  /\ UNCHANGED <<pc, request, late>>

Step(r) ==
  \/ Validate(r)   \/ FinalizeScopes(r) \/ RevokeOld(r)
  \/ PersistNew(r) \/ IssueRefresh(r)   \/ Respond(r)

Next ==
  \/ \E r \in Requests, f \in Inputs : Arrive(r, f)
  \/ \E r \in Requests : Step(r) \/ Fail(r)
  \/ \E c \in Clients, t \in TokenIds : RevokeToken(c, t)
  \/ \E k \in Codes : SweepFamily(k)
  \/ \E t \in TokenIds : Lapse(t)

Spec == Init /\ [][Next]_vars

\* The event loop runs every started handler on to its end.
FairSpec == Spec /\ \A r \in Requests : WF_vars(Step(r))

-----------------------------------------------------------------------------
(***************************************************************************)
(* Properties.                                                             *)
(***************************************************************************)

\* Every variable has its type.
TypeOK ==
  /\ tokens \in [TokenIds -> TokenRow \cup {None}]
  /\ pc \in [Requests -> {"idle"} \cup Running \cup Ended]
  /\ form \in [Requests -> Form \cup {None}]
  /\ old \in [Requests -> TokenRow \cup {None}]
  /\ granted \in [Requests -> SUBSET Scopes]
  /\ late \subseteq Requests

\* A rotation keeps the grant it came from: the authorization code, client
\* and user of the token it replaces, and no scope beyond that token's.
RotationKeepsGrant ==
  \A r \in Requests :
    tokens[r] # None =>
      LET parent == tokens[form[r].token]
      IN  /\ tokens[r].origin = parent.origin
          /\ tokens[r].client = parent.client
          /\ tokens[r].user = parent.user
          /\ tokens[r].scopes \subseteq parent.scopes

\* A replaced token is dead, and nothing that runs beside the rotation
\* brings it back.
RotatedTokenIsDead ==
  \A r \in Requests : tokens[r] # None => IsDead(tokens[form[r].token])

\* A refresh that arrives after its token was already rotated mints nothing.
NoLateRotation == \A r \in late : tokens[r] = None

\* No rotation that read a row before it was revoked writes it back: a revoked
\* access token stays revoked, and so does the whole row, except that storage
\* without a flag forgets it for a refresh token yet to be issued.
DeadStaysDead ==
  [][\A t \in TokenIds :
       tokens[t] # None =>
         /\ tokens[t].access = "revoked" => tokens'[t].access = "revoked"
         /\ IsDead(tokens[t]) /\ (t \in Requests /\ pc[t] = "issue" => FlagRevocation)
              => IsDead(tokens'[t])]_vars

\* Nobody is left without a token by a check that came too late: a rotation
\* that revoked the old token hands out the new one in the end, unless it
\* fails.
RevokedIsReplaced ==
  \A r \in Requests : pc[r] = "persist" ~> pc[r] = "failed" \/ HandedOut(r)

\* Rotations keep the promise of a credential that is used once.
OneUse == INSTANCE OneUseCredential WITH
  Credentials <- TokenIds,
  spent    <- {t \in TokenIds : /\ tokens[t] # None
                                /\ tokens[t].refresh = "revoked"
                                /\ t \in Requests => pc[t] # "issue"},
  holder   <- [r \in Requests |-> IF old[r] # None THEN form[r].token ELSE None],
  answered <- {r \in Requests : pc[r] = "delivered"}

ImplementsOneUse == OneUse!Spec
=============================================================================
