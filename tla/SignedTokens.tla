---------------------------- MODULE SignedTokens ----------------------------
(***************************************************************************)
(* One JwtService signs four kinds of JWT -- authorization codes, access,  *)
(* refresh and ID tokens -- and the application's hooks add claims to two  *)
(* of them.  Every reader is handed whatever JWT there is.  Between two    *)
(* requests the process may restart with another key or other options, and *)
(* the application may edit the options it passed.  Lifetimes are          *)
(* Expiries'; rows are never revoked here (TokenEndpoints does that).      *)
(***************************************************************************)
EXTENDS Naturals, FiniteSets, Absence

CONSTANTS
  Grants,            \* what is granted: each is issued one set of tokens
  Clients, Users, Keys, Nonces,
  KeyNames,          \* key identifiers an application may choose itself
  Scopes, Openid,
  Settings,          \* what the constructor may be called with
  Metadata,          \* discovery metadata the application may supply
  AccessHooks,       \* what jwt.extraTokenFields may return
  IdHooks,           \* what oidc.getIdTokenClaims may return
  Profiles,          \* what oidc.getUserClaims may return
  MaxStarts          \* bound: starts of the process

\* Objects are functions from names to values; a later one wins.
Spread(a, b) ==
  [n \in (DOMAIN a) \cup (DOMAIN b) |-> IF n \in DOMAIN b THEN b[n] ELSE a[n]]

\* What JSON keeps of an object: an undefined value goes.
Json(a) == [n \in {m \in DOMAIN a : a[m] # None} |-> a[n]]

Algorithms == {"HS256", "RS256"}
Kinds == {"code", "access", "refresh", "id"}

\* The secret string or the key the service is made from.
KeyOption == [form : {"secret", "private", "public", "ec"}, key : Keys,
              kid : KeyNames \cup {None}]
Service   == [alg : Algorithms, key : Keys, kid : Keys \cup KeyNames \cup {None}]

\* An issuer URL, as far as the guard looks at it.
Issuer == [scheme : {"https", "http", "other"}, loopback : BOOLEAN, bare : BOOLEAN]

Setting == [key : KeyOption, issuer : Issuer \cup {None}, oidc : BOOLEAN,
            metadata : Metadata]

Row == [client : Clients, user : Users \cup {None}, scopes : SUBSET Scopes,
        nonce : Nonces \cup {None}]

ASSUME ConstantsAssumption ==
  /\ Settings \subseteq Setting
  /\ MaxStarts \in Nat
  /\ Openid \in Scopes
  /\ Keys \cap KeyNames = {}
  /\ None \notin Users \cup Clients \cup Nonces \cup Keys \cup KeyNames \cup Grants \cup Issuer
  /\ None \notin Row /\ None \notin Kinds \X Grants /\ None # "at+jwt"

\* The hooks leave the names that tell a code or a refresh token apart to the
\* library, and guess no identifier of a row.
ASSUME HooksAssumption ==
  /\ \A hook \in AccessHooks \cup IdHooks :
       {"auth_code_id", "refresh_token_id"} \cap DOMAIN hook = {}
  /\ \A hook \in IdHooks : "jti" \in DOMAIN hook => hook["jti"] \notin Kinds \X Grants

VARIABLES
  server,    \* the running server: its service, options and start, or None
  starts,
  row,       \* what each grant came to: client, user, scopes and nonce
  signed,    \* every JWT there is, each with its header and claims
  cached     \* the key set a relying party holds

vars == <<server, starts, row, signed, cached>>

Init ==
  /\ server = None
  /\ starts = 0
  /\ row = [g \in Grants |-> None]
  /\ signed = {}
  /\ cached = {}

-----------------------------------------------------------------------------
\* Mutant: the key identifier is configured once and survives the key.
NewService_FixedKid(option) ==
  CASE option.form = "secret"  -> [alg |-> "HS256", key |-> option.key, kid |-> None]
    [] option.form = "private" -> [alg |-> "RS256", key |-> option.key,
                                   kid |-> CHOOSE k \in Keys : TRUE]
    [] OTHER                   -> None

\* The JwtService constructor: the kid is the application's, or the thumbprint
\* of the public key, a name for the key.  A public key, or one that is not
\* RSA, is refused.
NewService(option) ==
  CASE option.form = "secret"  -> [alg |-> "HS256", key |-> option.key, kid |-> None]
    [] option.form = "private" -> [alg |-> "RS256", key |-> option.key,
                                   kid |-> IF option.kid # None THEN option.kid ELSE option.key]
    [] OTHER                   -> None

\* getKeySet, {} where it throws.
KeySet(service) ==
  IF service.alg = "RS256" THEN {[kid |-> service.kid, key |-> service.key]} ELSE {}

IssuerIsValid(issuer) ==
  /\ issuer # None
  /\ issuer.bare
  /\ issuer.scheme = "https" \/ (issuer.scheme = "http" /\ issuer.loopback)

Protected == {"issuer", "jwks_uri", "id_token_signing_alg_values_supported"}

\* The guards of the constructors.
MayStart(s) ==
  /\ NewService(s.key) # None
  /\ s.oidc => /\ IssuerIsValid(s.issuer)
               /\ KeySet(NewService(s.key)) # {}
               /\ DOMAIN s.metadata \cap Protected = {}

\* buildOidcDiscoveryDocument: the entries nobody may override come last.
Document(s) ==
  Spread(s.metadata, [issuer |-> s.issuer, jwks_uri |-> "jwks",
                      id_token_signing_alg_values_supported |-> "RS256"])

\* The process starts, or starts again, with these options.
Construct(s) ==
  /\ starts < MaxStarts
  /\ starts' = starts + 1
  /\ server' = IF MayStart(s)
                 THEN [service |-> NewService(s.key), issuer |-> s.issuer, oidc |-> s.oidc,
                       metadata |-> s.metadata, start |-> starts']
                 ELSE None
  /\ UNCHANGED <<row, signed, cached>>

\* options.oidc is the application's own object, and it may edit it.
EditMetadata(metadata) ==
  /\ server # None /\ server.oidc
  /\ server' = [server EXCEPT !.metadata = metadata]
  /\ UNCHANGED <<starts, row, signed, cached>>

-----------------------------------------------------------------------------
\* A JWT, with the kind it is signed as, and whose it is.
Sign(kind, g, typ, claims) ==
  [kind |-> kind, of |-> g, start |-> server.start, typ |-> typ,
   alg |-> server.service.alg, key |-> server.service.key, kid |-> server.service.kid,
   claims |-> Json(claims)]

\* JwtService.verify: the algorithm is pinned.
VerifiedBy(service, j) == j.alg = service.alg /\ j.key = service.key

Id(kind, g) == <<kind, g>>

\* A code's payload is signed as a string, which gives it no typ.
CodeOf(g) ==
  Sign("code", g, None,
       [client_id |-> row'[g].client, auth_code_id |-> Id("code", g),
        scopes |-> row'[g].scopes, user_id |-> row'[g].user, nonce |-> row'[g].nonce])

\* encryptAccessToken over extraJwtFields: audience and issuer, the hook's
\* fields, then what the library asserts control of, undefined or not.
AccessClaims(g, aud, hook) ==
  Spread(Spread([aud |-> aud, iss |-> server.issuer], hook),
         [cid |-> row'[g].client, scope |-> row'[g].scopes, sub |-> row'[g].user,
          jti |-> Id("access", g)])

AccessOf(g, aud, hook) ==
  Sign("access", g, IF server.oidc THEN "at+jwt" ELSE "JWT", AccessClaims(g, aud, hook))

RefreshOf(g) ==
  Sign("refresh", g, "JWT",
       [client_id |-> row'[g].client, access_token_id |-> Id("access", g),
        refresh_token_id |-> Id("refresh", g), scope |-> row'[g].scopes,
        user_id |-> row'[g].user])

ProtocolClaimNames == {"iss", "sub", "aud", "exp", "iat", "at_hash", "nonce", "auth_time"}

\* Mutant: the protocol claims go on top, and nothing is stripped.
MergeIdTokenClaims_NoStrip(protocol, custom) == Spread(custom, protocol)

MergeIdTokenClaims(protocol, custom) ==
  Spread([n \in (DOMAIN custom) \ ProtocolClaimNames |-> custom[n]], protocol)

\* issueIdToken: the access token is named by its hash.
IdTokenOf(g, hook) ==
  Sign("id", g, "JWT",
       MergeIdTokenClaims(
         Json([iss |-> server.issuer, sub |-> row'[g].user, aud |-> row'[g].client,
               at_hash |-> Id("access", g), nonce |-> row'[g].nonce]), hook))

\* An authorization code, signed.
IssueCode(g, c, u, scopes, nonce) ==
  /\ server # None
  /\ row[g] = None
  /\ row' = [row EXCEPT ![g] = [client |-> c, user |-> u, scopes |-> scopes, nonce |-> nonce]]
  /\ signed' = signed \cup {CodeOf(g)}
  /\ UNCHANGED <<server, starts, cached>>

\* shouldIssueIdToken.
WantsIdToken(g) == server.oidc /\ Openid \in row[g].scopes

\* JwtAuthCodeEncoder.resolve.
ResolvesCode(j) ==
  VerifiedBy(server.service, j) /\ {"auth_code_id", "client_id", "scopes"} \subseteq DOMAIN j.claims

\* A code becomes tokens.  Where an ID token is due and the user is gone,
\* none of them is sent.
Redeem(g, aud, hook, idHook) ==
  /\ server # None
  /\ \E j \in signed : j.of = g /\ ResolvesCode(j)
  /\ ~\E j \in signed : j.of = g /\ j.kind = "access"
  /\ \E u \in {row[g].user, None} :
       /\ ~(u = None /\ WantsIdToken(g))
       /\ row' = [row EXCEPT ![g].user = u]
  /\ signed' = signed \cup {AccessOf(g, aud, hook), RefreshOf(g)}
                      \cup (IF WantsIdToken(g) THEN {IdTokenOf(g, idHook)} ELSE {})
  /\ UNCHANGED <<server, starts, cached>>

\* The client credentials grant: a token without a user.
IssueToClient(g, c, scopes, aud, hook) ==
  /\ server # None
  /\ row[g] = None
  /\ row' = [row EXCEPT ![g] = [client |-> c, user |-> None, scopes |-> scopes, nonce |-> None]]
  /\ signed' = signed \cup {AccessOf(g, aud, hook)}
  /\ UNCHANGED <<server, starts, cached>>

\* A relying party reads the JWKS endpoint, now or in an hour.
ReadKeySet ==
  /\ server # None
  /\ KeySet(server.service) # {}
  /\ cached' = KeySet(server.service)
  /\ UNCHANGED <<server, starts, row, signed>>

-----------------------------------------------------------------------------
(* The readers: what each would make of a JWT now. *)

\* Mutant: the verifier looks at the algorithm and not at the type.
VerifiesAccess_AnyTyp(j) ==
  /\ j.alg = "RS256"
  /\ VerifiedBy(server.service, j)
  /\ "iss" \in DOMAIN j.claims /\ j.claims.iss = server.issuer

\* AccessTokenVerifier.verify.
VerifiesAccess(j) ==
  /\ j.typ = "at+jwt" /\ j.alg = "RS256"
  /\ VerifiedBy(server.service, j)
  /\ "iss" \in DOMAIN j.claims /\ j.claims.iss = server.issuer

\* handleUserInfoRequest answers with claims.
ServesUserInfo(j) ==
  /\ server.oidc
  /\ VerifiesAccess(j)
  /\ "scope" \in DOMAIN j.claims /\ Openid \in j.claims.scope
  /\ "sub" \in DOMAIN j.claims

\* OIDC_SCOPE_CLAIMS.
ScopeClaims(scope) ==
  CASE scope = "profile" -> {"name", "family_name", "given_name", "middle_name", "nickname",
                             "preferred_username", "profile", "picture", "website", "gender",
                             "birthdate", "zoneinfo", "locale", "updated_at"}
    [] scope = "email"   -> {"email", "email_verified"}
    [] scope = "address" -> {"address"}
    [] scope = "phone"   -> {"phone_number", "phone_number_verified"}
    [] OTHER             -> {}

\* `sub` is the caller's to add.
FilterOidcClaimsByScope(claims, scopes) ==
  LET allowed == UNION {ScopeClaims(scope) : scope \in scopes}
  IN  [n \in (DOMAIN claims) \cap allowed |-> claims[n]]

UserInfoBody(j, profile) ==
  Spread(FilterOidcClaimsByScope(profile, j.claims.scope), [sub |-> j.claims.sub])

\* A refresh request gets as far as the row.
ResolvesRefresh(j) == VerifiedBy(server.service, j) /\ "refresh_token_id" \in DOMAIN j.claims

\* tokenFromRequest: the payload's shape tells the half, and its id the row.
IntrospectedRow(j) ==
  LET half == IF ~VerifiedBy(server.service, j) THEN None
              ELSE IF "jti" \in DOMAIN j.claims THEN "access"
              ELSE IF "refresh_token_id" \in DOMAIN j.claims THEN "refresh" ELSE None
      id   == IF half = "access" THEN j.claims.jti ELSE j.claims.refresh_token_id
      hits == IF half = None THEN {} ELSE {g \in Grants : row[g] # None /\ id = Id(half, g)}
  IN  IF hits = {} THEN None ELSE row[CHOOSE g \in hits : TRUE]

\* Mutant: the claims are echoed over what the server knows.
IntrospectionBody_EchoLast(j) ==
  LET r == IntrospectedRow(j)
  IN  IF r = None THEN [active |-> FALSE]
      ELSE Spread([active |-> TRUE, scope |-> r.scopes, client_id |-> r.client], j.claims)

IntrospectionBody(j) ==
  LET r == IntrospectedRow(j)
  IN  IF r = None THEN [active |-> FALSE]
      ELSE Spread(j.claims, [active |-> TRUE, scope |-> r.scopes, client_id |-> r.client])

\* A relying party verifies with the keys it holds, and reads the key set
\* again when it finds an unknown kid.
RelyingPartyVerifies(j) ==
  LET known == \E k \in cached : k.kid = j.kid
  IN  [kid |-> j.kid, key |-> j.key] \in (IF known THEN cached ELSE KeySet(server.service))

-----------------------------------------------------------------------------
Next ==
  \/ \E s \in Settings : Construct(s)
  \/ \E md \in Metadata : EditMetadata(md)
  \/ \E g \in Grants, c \in Clients, u \in Users, scopes \in SUBSET Scopes,
        nonce \in Nonces \cup {None} : IssueCode(g, c, u, scopes, nonce)
  \/ \E g \in Grants, aud \in Clients \cup {None}, hook \in AccessHooks, idHook \in IdHooks :
       Redeem(g, aud, hook, idHook)
  \/ \E g \in Grants, c \in Clients, scopes \in SUBSET Scopes, aud \in Clients \cup {None},
        hook \in AccessHooks : IssueToClient(g, c, scopes, aud, hook)
  \/ ReadKeySet

Spec == Init /\ [][Next]_vars

-----------------------------------------------------------------------------
(***************************************************************************)
(* Properties.                                                             *)
(***************************************************************************)

\* Every variable has its type, and a token is of a grant that was made.
TypeOK ==
  /\ starts \in 0 .. MaxStarts
  /\ server # None =>
       /\ server.service \in Service
       /\ server.issuer \in Issuer \cup {None}
       /\ server.metadata \in Metadata
       /\ server.start \in 1 .. starts
  /\ row \in [Grants -> Row \cup {None}]
  /\ \A j \in signed :
       /\ j.kind \in Kinds /\ row[j.of] # None
       /\ j.alg \in Algorithms /\ j.key \in Keys
       /\ j.start \in 1 .. starts
  /\ cached \subseteq [kid : Keys \cup KeyNames, key : Keys]

\* One key signs four kinds of JWT, and no reader takes one for another,
\* whatever claims the application adds (the names that tell a code or a
\* refresh token apart are left to the library).
EachReaderItsKind ==
  server # None => \A j \in signed :
    /\ ServesUserInfo(j) => j.kind = "access"
    /\ ResolvesCode(j) => j.kind = "code"
    /\ ResolvesRefresh(j) => j.kind = "refresh"
    /\ IntrospectedRow(j) # None => j.kind \in {"access", "refresh"}

\* Nobody is spoken for who did not approve: what UserInfo and introspection
\* say of a token is its own user, and nobody for a client's own token,
\* although hooks may name another.
HooksKeepTheUser ==
  server # None => \A j \in signed :
    /\ ServesUserInfo(j) => \A p \in Profiles : UserInfoBody(j, p).sub = row[j.of].user
    /\ IntrospectedRow(j) # None /\ "sub" \in DOMAIN j.claims =>
         j.claims.sub = row[j.of].user

\* An active introspection reports the client and the scopes of the row,
\* whatever the hook wrote into the token.
IntrospectionReportsTheRow ==
  server # None => \A j \in signed :
    IntrospectedRow(j) # None =>
      /\ IntrospectionBody(j).client_id = row[j.of].client
      /\ IntrospectionBody(j).scope = row[j.of].scopes

\* UserInfo tells no claim that no granted scope stands for.
UserInfoWithinScopes ==
  server # None => \A j \in signed : ServesUserInfo(j) =>
    \A p \in Profiles :
      DOMAIN UserInfoBody(j, p) \subseteq
        {"sub"} \cup (UNION {ScopeClaims(scope) : scope \in row[j.of].scopes})

\* Both readers of access tokens tell what the server granted, and nothing
\* that a hook put beside it.
ReadersTellTheGrant ==
  HooksKeepTheUser /\ IntrospectionReportsTheRow /\ UserInfoWithinScopes

\* An ID token tells of the authorization it comes from and of the access
\* token it is sent with; it has a nonce if and only if the authorization
\* request had one, hook or no hook.
IdTokenTellsWhatHappened ==
  \A j \in signed : j.kind = "id" =>
    /\ j.claims.sub = row[j.of].user
    /\ j.claims.aud = row[j.of].client
    /\ \E a \in signed : a.kind = "access" /\ a.claims.jti = j.claims.at_hash
                          /\ a.start = j.start
    /\ row[j.of].nonce = IF "nonce" \in DOMAIN j.claims THEN j.claims.nonce ELSE None

\* The discovery document tells the truth about every ID token this process
\* signed, however the application edits the metadata it passed.
DiscoveryTellsTheTruth ==
  server # None /\ server.oidc => \A j \in signed :
    j.kind = "id" /\ j.start = server.start =>
      /\ Document(server).issuer = j.claims.iss
      /\ Document(server).id_token_signing_alg_values_supported = j.alg

\* A relying party finds the key of every ID token this process signed, in a
\* key set it read before the key was replaced as well as without one, unless
\* the application gave the new key the name of the old one.
KeysAreFound ==
  server # None => \A j \in signed :
    j.kind = "id" /\ j.start = server.start =>
      \/ RelyingPartyVerifies(j)
      \/ j.kid \in KeyNames /\ \E k \in cached : k.kid = j.kid /\ k.key # j.key

\* A relying party that follows the discovery document can verify every ID
\* token this process signed.
IdTokensCanBeVerified == DiscoveryTellsTheTruth /\ KeysAreFound
=============================================================================
