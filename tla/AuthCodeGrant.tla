---------------------------- MODULE AuthCodeGrant ----------------------------
(***************************************************************************)
(* The authorization code grant: completeAuthorizationRequest persists a   *)
(* code and hands it to the client, respondToAccessTokenRequest redeems    *)
(* it, and respondToRevokeRequest (token_type_hint=auth_code) revokes it.  *)
(*                                                                         *)
(* The server is one Node.js process, but every `await` on a repository or *)
(* a hook lets other requests run, so a redemption is cut into one action  *)
(* per stretch of code between two awaits that touch shared state.  The    *)
(* shared state is what the consumer's repositories store.  A repository   *)
(* behaves like the two in the tree (test/e2e/_helpers/in_memory and       *)
(* example/): revoking sets an expiry to the epoch, and isRevoked compares *)
(* the expiry with the clock.                                              *)
(*                                                                         *)
(* Every await may also reject, and the process may die at any of them:    *)
(* Fail(r) is either, seen by one request.                                 *)
(***************************************************************************)
EXTENDS Naturals, FiniteSets, Pkce, TokenStore

CONSTANTS
  Requests,         \* redemption requests; a request names the token it mints
  Uris,
  Approvals,        \* what end users approve at /authorize, a set of Claims
  Inputs,           \* the token requests that get sent, a set of Forms
  HookResults,      \* what scopeRepository.finalize may return at /token
  Openid,           \* the name of the openid scope
  CodeTTL,          \* authCodeTTL
  MaxTime,          \* bound: the clock stops here
  OpaqueCodes,      \* options.useOpaqueAuthorizationCodes
  RequiresPKCE, RequiresS256,
  OidcEnabled,      \* options.oidc is set
  AuthenticateRevoke,
  HasRevokeDescendants,  \* the optional hook revokeDescendantsOf exists
  DroppedColumns,   \* auth-code columns the consumer's storage loses
  HydratesExpiry    \* reading a row back returns the stored expiresAt

(***************************************************************************)
(* The claims of a code: the fields of PayloadAuthCode, and equally of the *)
(* persisted OAuthAuthCode.  staleAt is auth_time + max_age, or None when  *)
(* either is missing; expires is expire_time in the payload and expiresAt  *)
(* in the row, where 0 (the epoch) marks a revoked code.                   *)
(***************************************************************************)
Claims == [client    : Clients,
           uri       : Uris,
           user      : Users \cup {None},
           scopes    : SUBSET Scopes,
           challenge : ChallengeStrings \cup {None},
           method    : Methods \cup {None},
           nonce     : BOOLEAN,
           staleAt   : Nat \cup {None},
           expires   : Nat]

Form == [code     : Codes,
         client   : Clients,
         uri      : Uris \cup {None},
         verifier : VerifierStrings \cup {None}]

Minting == {"user", "scopes", "challenge", "persist", "refresh"}
Running == Minting \cup {"resolve", "check", "sweep", "burn", "respond"}
Ended   == {"delivered", "rejected", "replayed", "refused", "failed"}

ASSUME ConstantsAssumption ==
  /\ Requests \subseteq TokenIds
  /\ CodeTTL \in Nat
  /\ MaxTime \in Nat \ {0}
  /\ Approvals \subseteq Claims
  /\ Inputs \subseteq Form
  /\ HookResults \subseteq SUBSET Scopes
  /\ {OpaqueCodes, RequiresPKCE, RequiresS256, OidcEnabled, AuthenticateRevoke,
      HasRevokeDescendants, HydratesExpiry, FlagRevocation} \subseteq BOOLEAN
  /\ DroppedColumns \subseteq {"codeChallenge", "codeChallengeMethod",
                             "nonce", "authTime", "maxAge"}
  /\ None \notin Claims \cup TokenRow \cup Form

VARIABLES
  now,       \* seconds; the epoch is 0
  users,     \* the users that exist
  codes,     \* authCodeRepository: the persisted rows
  approval,  \* the OAuthAuthCode entity completeAuthorizationRequest holds
  wire,      \* expire_time of a code that reached its client, 0 before
  tokens,    \* tokenRepository: the persisted rows
  pc,        \* where each redemption is suspended
  form,      \* the parameters of the token request
  claim,     \* the resolved payload of the presented code
  subject,   \* the user the redemption loaded
  granted,   \* the finalized scopes
  late,      \* history: requests that arrived after a delivery of their code
  swept      \* history: codes swept while nobody was minting from them

stores   == <<codes, approval, wire, users, now>>
request  == <<form, claim, subject, granted>>
history  == <<late, swept>>
vars     == <<stores, tokens, pc, request, history>>

Init ==
  /\ now = 1
  /\ users = Users
  /\ codes = [k \in Codes |-> None]
  /\ approval = [k \in Codes |-> None]
  /\ wire = [k \in Codes |-> 0]
  /\ tokens = [t \in TokenIds |-> None]
  /\ pc = [r \in Requests |-> "idle"]
  /\ form = [r \in Requests |-> None]
  /\ claim = [r \in Requests |-> None]
  /\ subject = [r \in Requests |-> None]
  /\ granted = [r \in Requests |-> {}]
  /\ late = {}
  /\ swept = {}

-----------------------------------------------------------------------------
(***************************************************************************)
(* Issuing a code.                                                         *)
(***************************************************************************)
IsOpenidRequest(scopes) == OidcEnabled /\ Openid \in scopes

\* What the consumer's storage keeps of an entity; a challenge without its
\* method is verified as a plain one.
Stored(c) ==
  [c EXCEPT
    !.challenge = IF "codeChallenge" \in DroppedColumns THEN None ELSE @,
    !.method    = IF {"codeChallenge", "codeChallengeMethod"} \cap DroppedColumns # {}
                    THEN None ELSE @,
    !.nonce     = @ /\ "nonce" \notin DroppedColumns,
    !.staleAt   = IF {"authTime", "maxAge"} \cap DroppedColumns # {}
                    THEN None ELSE @]

\* issueAuthCode: load the user (who may be gone by now), set the expiry and
\* persist the row.
PersistCode(k, a) ==
  /\ codes[k] = None
  /\ AuthorizeAcceptsChallenge(a.challenge, a.method, RequiresPKCE, RequiresS256)
  /\ LET entity == [a EXCEPT !.user    = IF a.user \in users THEN a.user ELSE None,
                             !.nonce   = a.nonce /\ IsOpenidRequest(a.scopes),
                             !.staleAt = IF IsOpenidRequest(a.scopes)
                                           THEN a.staleAt ELSE None,
                             !.expires = now + CodeTTL]
     IN  /\ approval' = [approval EXCEPT ![k] = entity]
         /\ codes' = [codes EXCEPT ![k] = Stored(entity)]
  /\ UNCHANGED <<wire, users, now, tokens, pc, request, history>>

\* Mutant: the storage guard is missing.
SurvivesStorage_Unguarded(k) == TRUE

\* guardAgainstOpaqueNonceLoss re-reads the row it just persisted.
SurvivesStorage(k) ==
  OpaqueCodes /\ IsOpenidRequest(approval[k].scopes) =>
    /\ approval[k].nonce => codes[k].nonce
    /\ approval[k].staleAt # None => "authTime" \notin DroppedColumns

\* The rest of completeAuthorizationRequest: encode the code, with an expiry
\* computed anew, and redirect.
DeliverCode(k) ==
  /\ codes[k] # None
  /\ wire[k] = 0
  /\ SurvivesStorage(k)
  /\ wire' = [wire EXCEPT ![k] = now + CodeTTL]
  /\ UNCHANGED <<codes, approval, users, now, tokens, pc, request, history>>

-----------------------------------------------------------------------------
(***************************************************************************)
(* Redeeming a code: respondToAccessTokenRequest.                          *)
(***************************************************************************)
Goto(r, label) == pc' = [pc EXCEPT ![r] = label]

Delivered(k) == \E q \in Requests : pc[q] = "delivered" /\ form[q].code = k

\* A token request arrives with a code that reached some client, and
\* validateClient accepts or refuses the credentials.
Arrive(r, f) ==
  /\ pc[r] = "idle"
  /\ wire[f.code] # 0
  /\ form' = [form EXCEPT ![r] = f]
  /\ \/ Goto(r, "resolve")
     \/ Goto(r, "rejected")
  /\ late' = IF Delivered(f.code) THEN late \cup {r} ELSE late
  /\ UNCHANGED <<stores, tokens, claim, subject, granted, swept>>

\* The row as the repository returns it.
HydratedRow(k) ==
  [codes[k] EXCEPT !.expires = IF HydratesExpiry THEN @ ELSE now]

\* The signed payload of a JWT code, or the payload an opaque code is
\* rebuilt into from its row.
ResolvedPayload(k) ==
  IF OpaqueCodes THEN HydratedRow(k)
                 ELSE [approval[k] EXCEPT !.expires = wire[k]]

Resolve(r) ==
  /\ pc[r] = "resolve"
  /\ claim' = [claim EXCEPT ![r] = ResolvedPayload(form[r].code)]
  /\ Goto(r, "check")
  /\ UNCHANGED <<stores, tokens, form, subject, granted, history>>

\* Mutant: the signed expiry is taken for the revocation state.
IsRevoked_BySignedExpiry(k) == now > wire[k]

IsRevoked(k) == now > HydratedRow(k).expires

\* Mutant: guardAgainstStaleAuthentication is not called.
Admissible_IgnoresMaxAge(r) ==
  /\ now <= claim[r].expires
  /\ claim[r].client = form[r].client
  /\ claim[r].uri = form[r].uri

\* validateAuthorizationCode after the revocation check, then
\* guardAgainstStaleAuthentication; no await between the tests.
Admissible(r) ==
  /\ now <= claim[r].expires
  /\ claim[r].client = form[r].client
  /\ claim[r].uri = form[r].uri
  /\ IsOpenidRequest(claim[r].scopes) /\ claim[r].staleAt # None
       => claim[r].staleAt >= now

CheckRevoked(r) ==
  /\ pc[r] = "check"
  /\ \/ /\ IsRevoked(form[r].code)
        /\ Goto(r, IF HasRevokeDescendants THEN "sweep" ELSE "rejected")
     \/ /\ ~IsRevoked(form[r].code)
        /\ Goto(r, IF Admissible(r) THEN "user" ELSE "rejected")
  /\ UNCHANGED <<stores, tokens, request, history>>

DescendantsOf(k) == {t \in TokenIds : tokens[t] # None /\ tokens[t].origin = k}

MintingFrom(k) == {q \in Requests : pc[q] \in Minting /\ form[q].code = k}

\* tokenRepository.revokeDescendantsOf, then "expired or revoked".
RevokeDescendants(r) ==
  LET k == form[r].code
  IN  /\ pc[r] = "sweep"
      /\ tokens' = [t \in TokenIds |-> IF t \in DescendantsOf(k)
                                         THEN Revoked(tokens[t]) ELSE tokens[t]]
      /\ swept' = IF MintingFrom(k) = {} THEN swept \cup {k} ELSE swept
      /\ Goto(r, "replayed")
      /\ UNCHANGED <<stores, request, late>>

LoadUser(r) ==
  /\ pc[r] = "user"
  /\ subject' = [subject EXCEPT
                   ![r] = IF claim[r].user \in users THEN claim[r].user ELSE None]
  /\ Goto(r, "scopes")
  /\ UNCHANGED <<stores, tokens, form, claim, granted, history>>

\* validateScopes and the application's finalize hook.  The hook throws or
\* returns what it likes, scopes that were not asked for included, and what
\* it returns goes unchecked.
FinalizeScopes(r) ==
  /\ pc[r] = "scopes"
  /\ \/ /\ \E s \in HookResults : granted' = [granted EXCEPT ![r] = s]
        /\ Goto(r, "challenge")
     \/ /\ Goto(r, "rejected")
        /\ UNCHANGED granted
  /\ UNCHANGED <<stores, tokens, form, claim, subject, history>>

\* The scopes a redemption has from its hook and not from its code.
AddedByHook(r) == granted[r] \ claim[r].scopes

NewToken(r) == FreshRow(form[r].code, form[r].client, subject[r], granted[r])

\* Mutant: the token is persisted before the code challenge is checked.
CheckChallenge_AfterPersist(r) ==
  /\ pc[r] = "challenge"
  /\ tokens' = [tokens EXCEPT ![r] = NewToken(r)]
  /\ Goto(r, IF CodeChallengePasses(claim[r], codes[form[r].code],
                                    form[r].verifier, RequiresPKCE)
               THEN "persist" ELSE "rejected")
  /\ UNCHANGED <<stores, request, history>>

CheckChallenge(r) ==
  /\ pc[r] = "challenge"
  /\ Goto(r, IF CodeChallengePasses(claim[r], codes[form[r].code],
                                    form[r].verifier, RequiresPKCE)
               THEN "persist" ELSE "rejected")
  /\ UNCHANGED <<stores, tokens, request, history>>

\* issueAccessToken: the row is persisted without a refresh token.
PersistToken(r) ==
  /\ pc[r] = "persist"
  /\ tokens' = [tokens EXCEPT ![r] = NewToken(r)]
  /\ Goto(r, "refresh")
  /\ UNCHANGED <<stores, request, history>>

IssueRefreshToken(r) ==
  /\ pc[r] = "refresh"
  /\ tokens' = [tokens EXCEPT ![r] = WithRefreshToken(@)]
  /\ Goto(r, "burn")
  /\ UNCHANGED <<stores, request, history>>

Burn(k) == codes' = [codes EXCEPT ![k].expires = 0]

\* Mutant: the code is not revoked.
BurnCode_Forgotten(r) ==
  /\ pc[r] = "burn"
  /\ Goto(r, "respond")
  /\ UNCHANGED <<stores, tokens, request, history>>

\* authCodeRepository.revoke.
BurnCode(r) ==
  /\ pc[r] = "burn"
  /\ Burn(form[r].code)
  /\ Goto(r, "respond")
  /\ UNCHANGED <<approval, wire, users, now, tokens, request, history>>

\* Encode the tokens and, for an openid grant, the ID token: that refuses a
\* code whose user is gone and a getIdTokenClaims hook that throws.
Respond(r) ==
  /\ pc[r] = "respond"
  /\ \/ /\ IsOpenidRequest(granted[r]) => subject[r] # None
        /\ Goto(r, "delivered")
     \/ /\ IsOpenidRequest(granted[r])
        /\ Goto(r, "refused")
  /\ UNCHANGED <<stores, tokens, request, history>>

\* An await rejects, or the process dies.
Fail(r) ==
  /\ pc[r] \in Running
  /\ Goto(r, "failed")
  /\ UNCHANGED <<stores, tokens, request, history>>

-----------------------------------------------------------------------------
\* The revoke endpoint with token_type_hint=auth_code.  An authenticated
\* client revokes its own code; without authentication whoever names the
\* code does.  Repository errors are swallowed and change nothing.
RevokeCode(c, k) ==
  /\ wire[k] # 0
  /\ AuthenticateRevoke => approval[k].client = c
  /\ Burn(k)
  /\ UNCHANGED <<approval, wire, users, now, tokens, pc, request, history>>

DeleteUser(u) ==
  /\ u \in users
  /\ users' = users \ {u}
  /\ UNCHANGED <<codes, approval, wire, now, tokens, pc, request, history>>

Tick ==
  /\ now < MaxTime
  /\ now' = now + 1
  /\ UNCHANGED <<codes, approval, wire, users, tokens, pc, request, history>>

Step(r) ==
  \/ Resolve(r)        \/ CheckRevoked(r)   \/ RevokeDescendants(r)
  \/ LoadUser(r)       \/ FinalizeScopes(r) \/ CheckChallenge(r)
  \/ PersistToken(r)   \/ IssueRefreshToken(r)
  \/ BurnCode(r)       \/ Respond(r)

Next ==
  \/ \E k \in Codes, a \in Approvals : PersistCode(k, a)
  \/ \E k \in Codes : DeliverCode(k)
  \/ \E r \in Requests, f \in Inputs : Arrive(r, f)
  \/ \E r \in Requests : Step(r) \/ Fail(r)
  \/ \E c \in Clients, k \in Codes : RevokeCode(c, k)
  \/ \E u \in Users : DeleteUser(u)
  \/ Tick

Spec == Init /\ [][Next]_vars

\* The event loop runs every started handler on to its end.
FairSpec == Spec /\ \A r \in Requests : WF_vars(Step(r))

-----------------------------------------------------------------------------
(***************************************************************************)
(* Properties.                                                             *)
(***************************************************************************)

\* Every variable has its type.
TypeOK ==
  /\ now \in 1 .. MaxTime
  /\ users \subseteq Users
  /\ codes \in [Codes -> Claims \cup {None}]
  /\ approval \in [Codes -> Claims \cup {None}]
  /\ wire \in [Codes -> Nat]
  /\ tokens \in [TokenIds -> TokenRow \cup {None}]
  /\ pc \in [Requests -> {"idle"} \cup Running \cup Ended]
  /\ form \in [Requests -> Form \cup {None}]
  /\ claim \in [Requests -> Claims \cup {None}]
  /\ subject \in [Requests -> Users \cup {None}]
  /\ granted \in [Requests -> SUBSET Scopes]
  /\ late \subseteq Requests
  /\ swept \subseteq Codes

\* The token a redemption minted is bound to what the end user approved: the
\* client, redirect URI and user of the code, no scope beyond it but those
\* the application's own hook added at this redemption, and a verifier that
\* proves the challenge sent to /authorize, although the checks run on claims
\* that went over the wire or through storage.
BoundToApproval(r) ==
  LET a == approval[form[r].code]
      t == tokens[r]
  IN  /\ a # None
      /\ t.origin = form[r].code
      /\ t.client = a.client /\ form[r].client = a.client
      /\ form[r].uri = a.uri
      /\ t.user \in {a.user, None}
      /\ t.scopes \subseteq a.scopes \cup AddedByHook(r)
      /\ a.challenge # None =>
           /\ form[r].verifier # None
           /\ VerifyCodeChallenge(a.method, form[r].verifier, a.challenge)

TokenBoundToApproval ==
  \A r \in Requests : tokens[r] # None => BoundToApproval(r)

\* A client holds tokens only once the code behind them is spent.
Spent(k) == codes[k] # None /\ codes[k].expires = 0

DeliveredCodeIsSpent ==
  \A r \in Requests : pc[r] \in {"delivered", "refused"} => Spent(form[r].code)

\* Whatever else is in flight, a redemption that arrives after its code was
\* already exchanged mints nothing.
NoLateRedemption == \A r \in late : tokens[r] = None

\* No error answer leaves a token beside a code that can still be redeemed.
\* The checks up to the code challenge turn a redemption away before its token
\* is stored; the two that come after it, on the user and the hook behind the
\* ID token, do so once the code is burned.
ErrorsAreAllOrNothing ==
  \A r \in Requests :
    /\ pc[r] \in {"rejected", "sweep", "replayed"} => tokens[r] = None
    /\ pc[r] = "refused" => tokens[r] # None /\ Spent(form[r].code)

\* Once a replay swept the descendants of a code while no redemption of it
\* was minting, that code never again has a live token.
SweepIsFinal ==
  \A t \in TokenIds :
    tokens[t] # None /\ tokens[t].origin \in swept => IsDead(tokens[t])

\* The nonce of an openid request to /authorize is the one its ID token carries
\* (a request for other scopes leaves its nonce behind at /authorize), even when
\* the code's payload is rebuilt from a row that lost the column.
NonceSurvives ==
  \A r \in Requests :
    pc[r] = "delivered" /\ IsOpenidRequest(granted[r]) =>
      claim[r].nonce = approval[form[r].code].nonce

\* A revoked access token is never valid again, although rows are written
\* by redemptions that read them earlier.
AccessRevocationSticks ==
  [][\A t \in TokenIds :
       tokens[t] # None /\ tokens[t].access = "revoked" =>
         tokens'[t].access = "revoked"]_vars

\* A code that minted a token is spent in the end, unless its request fails.
MintedCodeIsSpent ==
  \A r \in Requests :
    tokens[r] # None ~> \/ pc[r] = "failed"
                        \/ form[r] # None /\ Spent(form[r].code)

\* Redemptions keep the promise of a credential that is used once.
Holding == Minting \cup {"burn", "respond", "delivered", "refused"}

OneUse == INSTANCE OneUseCredential WITH
  Credentials <- Codes,
  spent    <- {k \in Codes : Spent(k)},
  holder   <- [r \in Requests |-> IF pc[r] \in Holding THEN form[r].code ELSE None],
  answered <- {r \in Requests : pc[r] = "delivered"}

ImplementsOneUse == OneUse!Spec

\* What the documentation says of overlapping redemptions, and the code does
\* not keep: an authorization code is exchanged for tokens at most once.
AtMostOneDelivery ==
  \A q, r \in Requests :
    pc[q] = "delivered" /\ pc[r] = "delivered" /\ form[q].code = form[r].code
      => q = r

\* A redemption is admitted only while the authentication behind its code is
\* as recent as the client's max_age asked.
FreshWhenAdmitted ==
  [][\A r \in Requests :
       LET staleAt == approval[form[r].code].staleAt
       IN  pc[r] = "check" /\ pc'[r] = "user" /\ staleAt # None
             => staleAt >= now]_vars
=============================================================================
