-------------------------- MODULE SignedTokensProofs --------------------------
(***************************************************************************)
(* Proofs about the JWTs of one service, for any number of grants, clients,*)
(* users, keys and starts, whatever the hooks and the profiles hold.       *)
(***************************************************************************)
EXTENDS SignedTokens, TLAPS

-----------------------------------------------------------------------------
(***************************************************************************)
(* What the operations on objects return, and the claims of a fresh JWT.   *)
(***************************************************************************)
LEMMA SpreadAt ==
  ASSUME NEW a, NEW b
  PROVE  /\ DOMAIN Spread(a, b) = (DOMAIN a) \cup (DOMAIN b)
         /\ \A n \in DOMAIN b : Spread(a, b)[n] = b[n]
         /\ \A n \in (DOMAIN a) \ (DOMAIN b) : Spread(a, b)[n] = a[n]
  BY DEF Spread

LEMMA JsonAt ==
  ASSUME NEW a
  PROVE  /\ \A n : n \in DOMAIN Json(a) <=> n \in DOMAIN a /\ a[n] # None
         /\ \A n \in DOMAIN Json(a) : Json(a)[n] = a[n]
  BY DEF Json

\* The header of a JWT is the running service's.
SignedNow(j, kind, g) ==
  /\ j.kind = kind /\ j.of = g /\ j.start = server.start
  /\ j.alg = server.service.alg /\ j.key = server.service.key /\ j.kid = server.service.kid

LEMMA CodeClaims ==
  ASSUME NEW g
  PROVE  /\ SignedNow(CodeOf(g), "code", g) /\ CodeOf(g).typ = None
         /\ DOMAIN CodeOf(g).claims \subseteq
              {"client_id", "auth_code_id", "scopes", "user_id", "nonce"}
  BY JsonAt DEF CodeOf, Sign, SignedNow

LEMMA RefreshClaims ==
  ASSUME NEW g
  PROVE  /\ SignedNow(RefreshOf(g), "refresh", g) /\ RefreshOf(g).typ = "JWT"
         /\ DOMAIN RefreshOf(g).claims \subseteq
              {"client_id", "access_token_id", "refresh_token_id", "scope", "user_id"}
         /\ "refresh_token_id" \in DOMAIN RefreshOf(g).claims =>
              RefreshOf(g).claims.refresh_token_id = Id("refresh", g)
  BY JsonAt DEF RefreshOf, Sign, SignedNow

LEMMA AccessClaimsAre ==
  ASSUME NEW g \in Grants, NEW aud, NEW hook
  PROVE  LET a == AccessOf(g, aud, hook)
         IN  /\ SignedNow(a, "access", g)
             /\ DOMAIN a.claims \subseteq
                  {"aud", "iss", "cid", "scope", "sub", "jti"} \cup DOMAIN hook
             /\ "jti" \in DOMAIN a.claims /\ a.claims.jti = Id("access", g)
             /\ "sub" \in DOMAIN a.claims => a.claims.sub = row'[g].user
             /\ "scope" \in DOMAIN a.claims => a.claims.scope = row'[g].scopes
<1>. DEFINE claims == AccessClaims(g, aud, hook)
<1>. DEFINE first == Spread([aud |-> aud, iss |-> server.issuer], hook)
            last == [cid |-> row'[g].client, scope |-> row'[g].scopes, sub |-> row'[g].user,
                     jti |-> Id("access", g)]
<1>1. /\ DOMAIN claims = {"aud", "iss", "cid", "scope", "sub", "jti"} \cup DOMAIN hook
      /\ claims["jti"] = Id("access", g)
      /\ claims["sub"] = row'[g].user /\ claims["scope"] = row'[g].scopes
  <2>1. DOMAIN first = {"aud", "iss"} \cup DOMAIN hook
    <3>1. DOMAIN [aud |-> aud, iss |-> server.issuer] = {"aud", "iss"}
      OBVIOUS
    <3>2. DOMAIN first = (DOMAIN [aud |-> aud, iss |-> server.issuer]) \cup (DOMAIN hook)
      BY SpreadAt, Zenon
    <3>. QED  BY <3>1, <3>2
  <2>2. DOMAIN last = {"cid", "scope", "sub", "jti"} /\ last["jti"] = Id("access", g)
        /\ last["sub"] = row'[g].user /\ last["scope"] = row'[g].scopes
    OBVIOUS
  <2>3. claims = Spread(first, last)
    BY DEF AccessClaims
  <2>. HIDE DEF first, last, claims
  <2>4. DOMAIN Spread(first, last) = (DOMAIN first) \cup (DOMAIN last)
    BY SpreadAt
  <2>5. \A n \in DOMAIN last : Spread(first, last)[n] = last[n]
    BY SpreadAt
  <2>. QED  BY <2>1, <2>2, <2>3, <2>4, <2>5
<1>2. Id("access", g) # None
  BY ConstantsAssumption DEF Id, Kinds
<1>. HIDE DEF claims
<1>3. /\ DOMAIN Json(claims) \subseteq DOMAIN claims /\ "jti" \in DOMAIN Json(claims)
      /\ \A n \in DOMAIN Json(claims) : Json(claims)[n] = claims[n]
  BY <1>1, <1>2, JsonAt
<1>4. SignedNow(AccessOf(g, aud, hook), "access", g) /\ AccessOf(g, aud, hook).claims = Json(claims)
  BY DEF AccessOf, Sign, SignedNow, claims
<1>. QED  BY <1>1, <1>3, <1>4

\* The protocol claims of an ID token survive the hook, and the hook adds
\* none of them.
LEMMA IdTokenClaimsAre ==
  ASSUME NEW g \in Grants, NEW hook
  PROVE  LET t == IdTokenOf(g, hook)
             told == [iss |-> server.issuer, sub |-> row'[g].user, aud |-> row'[g].client,
                      at_hash |-> Id("access", g), nonce |-> row'[g].nonce]
         IN  /\ SignedNow(t, "id", g) /\ t.typ = "JWT"
             /\ DOMAIN t.claims \subseteq ProtocolClaimNames \cup DOMAIN hook
             /\ \A n \in {"iss", "sub", "aud", "at_hash", "nonce"} :
                  /\ n \in DOMAIN t.claims <=> told[n] # None
                  /\ n \in DOMAIN t.claims => t.claims[n] = told[n]
             /\ "jti" \in DOMAIN t.claims => "jti" \in DOMAIN hook /\ t.claims["jti"] = hook["jti"]
<1>. DEFINE names == {"iss", "sub", "aud", "at_hash", "nonce"}
            told == [iss |-> server.issuer, sub |-> row'[g].user, aud |-> row'[g].client,
                     at_hash |-> Id("access", g), nonce |-> row'[g].nonce]
            custom == [n \in (DOMAIN hook) \ ProtocolClaimNames |-> hook[n]]
            merged == MergeIdTokenClaims(Json(told), hook)
<1>1. DOMAIN told = names
  OBVIOUS
<1>2. /\ DOMAIN custom = (DOMAIN hook) \ ProtocolClaimNames
      /\ \A n \in DOMAIN custom : custom[n] = hook[n]
  OBVIOUS
<1>3. merged = Spread(custom, Json(told))
  BY DEF MergeIdTokenClaims
<1>4. SignedNow(IdTokenOf(g, hook), "id", g) /\ IdTokenOf(g, hook).typ = "JWT"
      /\ IdTokenOf(g, hook).claims = Json(merged)
  BY DEF IdTokenOf, Sign, SignedNow
<1>5. names \subseteq ProtocolClaimNames /\ "jti" \notin ProtocolClaimNames
  BY DEF ProtocolClaimNames
<1>. HIDE DEF names, told, custom, merged
<1>6. /\ \A n : n \in DOMAIN Json(told) <=> n \in names /\ told[n] # None
      /\ \A n \in DOMAIN Json(told) : Json(told)[n] = told[n]
  BY <1>1, JsonAt
<1>7. /\ DOMAIN merged = (DOMAIN custom) \cup (DOMAIN Json(told))
      /\ \A n \in DOMAIN Json(told) : merged[n] = told[n]
      /\ \A n \in (DOMAIN custom) \ (DOMAIN Json(told)) : merged[n] = custom[n]
  <2>1. \A n \in DOMAIN Json(told) : Spread(custom, Json(told))[n] = Json(told)[n]
    BY SpreadAt
  <2>2. \A n \in (DOMAIN custom) \ (DOMAIN Json(told)) :
          Spread(custom, Json(told))[n] = custom[n]
    BY SpreadAt
  <2>3. DOMAIN Spread(custom, Json(told)) = (DOMAIN custom) \cup (DOMAIN Json(told))
    BY SpreadAt
  <2>. QED  BY <1>3, <1>6, <2>1, <2>2, <2>3
<1>8. /\ \A n : n \in DOMAIN Json(merged) <=> n \in DOMAIN merged /\ merged[n] # None
      /\ \A n \in DOMAIN Json(merged) : Json(merged)[n] = merged[n]
  BY JsonAt
<1>9. DOMAIN Json(merged) \subseteq ProtocolClaimNames \cup DOMAIN hook
  BY <1>2, <1>5, <1>6, <1>7, <1>8
<1>10. ASSUME NEW n \in names
       PROVE  /\ n \in DOMAIN Json(merged) <=> told[n] # None
              /\ n \in DOMAIN Json(merged) => Json(merged)[n] = told[n]
  BY <1>2, <1>5, <1>6, <1>7, <1>8
<1>11. "jti" \in DOMAIN Json(merged) => "jti" \in DOMAIN hook /\ Json(merged)["jti"] = hook["jti"]
  BY <1>2, <1>5, <1>6, <1>7, <1>8
<1>. QED  BY <1>4, <1>9, <1>10, <1>11 DEF names, told

-----------------------------------------------------------------------------
(***************************************************************************)
(* Shape: the type invariant, strengthened by what the constructor checked *)
(* of the running server and by one fact about the grants: whoever holds a *)
(* token that is not a code was given an access token with it, and a grant *)
(* with an access token is never redeemed again.                           *)
(***************************************************************************)
HasAccess(g) == \E a \in signed : a.of = g /\ a.kind = "access"

ServerShape ==
  server # None =>
    /\ server \in [service : Service, issuer : Issuer \cup {None}, oidc : BOOLEAN,
                   metadata : Metadata, start : 1 .. starts]
    /\ server.oidc => server.issuer # None /\ server.service.alg = "RS256"
    /\ server.service.alg = "RS256" =>
         server.service.kid \in KeyNames \cup {server.service.key}

JwtShape(j) ==
  /\ j.of \in Grants
  /\ j.typ = "at+jwt" => j.kind = "access"
  /\ j.kind # "code" => HasAccess(j.of)

Shape ==
  /\ TypeOK
  /\ ServerShape
  /\ \A j \in signed : JwtShape(j)
  /\ \A k \in cached : k.kid \in KeyNames \cup {k.key}

LEMMA InitShape == Init => Shape
  BY ConstantsAssumption DEF Init, Shape, TypeOK, ServerShape

\* What the constructor makes of its options is a service, and its key is
\* named after itself unless the application chose the name.
LEMMA NewServiceShape ==
  ASSUME NEW s \in Setting, MayStart(s)
  PROVE  /\ NewService(s.key) \in Service
         /\ s.oidc => s.issuer # None /\ NewService(s.key).alg = "RS256"
         /\ NewService(s.key).alg = "RS256" =>
              NewService(s.key).kid \in KeyNames \cup {NewService(s.key).key}
<1>1. s.key \in KeyOption /\ NewService(s.key) # None
  BY DEF Setting, MayStart
<1>2. CASE s.key.form = "secret"
  <2>1. NewService(s.key) = [alg |-> "HS256", key |-> s.key.key, kid |-> None]
    BY <1>2 DEF NewService
  <2>. QED  BY <1>1, <2>1 DEF KeyOption, Service, Algorithms, MayStart, KeySet, IssuerIsValid
<1>3. CASE s.key.form = "private"
  <2>1. NewService(s.key) = [alg |-> "RS256", key |-> s.key.key,
                             kid |-> IF s.key.kid # None THEN s.key.kid ELSE s.key.key]
    BY <1>3 DEF NewService
  <2>. QED  BY <1>1, <2>1 DEF KeyOption, Service, Algorithms, MayStart, IssuerIsValid
<1>4. CASE s.key.form \notin {"secret", "private"}
  BY <1>1, <1>4 DEF NewService
<1>. QED  BY <1>2, <1>3, <1>4

\* The actions that sign nothing.
LEMMA ConstructShape ==
  ASSUME Shape, NEW s \in Settings, Construct(s)
  PROVE  Shape'
<1>1. s \in Setting
  BY ConstantsAssumption
<1>2. starts \in Nat /\ starts' \in 1 .. MaxStarts /\ starts' = starts + 1
  BY ConstantsAssumption DEF Shape, TypeOK, Construct
<1>3. ServerShape' /\ (server' # None => server'.metadata \in Metadata)
  <2>1. CASE MayStart(s)
    <3>1. server' = [service |-> NewService(s.key), issuer |-> s.issuer, oidc |-> s.oidc,
                     metadata |-> s.metadata, start |-> starts']
      BY <2>1 DEF Construct
    <3>. QED  BY <1>1, <1>2, <2>1, <3>1, NewServiceShape DEF ServerShape, Setting
  <2>2. CASE ~MayStart(s)
    BY <2>2 DEF Construct, ServerShape
  <2>. QED  BY <2>1, <2>2
<1>4. TypeOK'
  BY <1>2, <1>3 DEF Shape, TypeOK, ServerShape, Construct
<1>. QED  BY <1>3, <1>4 DEF Shape, JwtShape, HasAccess, Construct

LEMMA EditShape ==
  ASSUME Shape, NEW metadata \in Metadata, EditMetadata(metadata)
  PROVE  Shape'
<1>1. /\ server # None
      /\ server \in [service : Service, issuer : Issuer \cup {None}, oidc : BOOLEAN,
                     metadata : Metadata, start : 1 .. starts]
  BY DEF Shape, ServerShape, EditMetadata
<1>2. server' = [server EXCEPT !.metadata = metadata] /\ starts' = starts
  BY DEF EditMetadata
<1>3. ServerShape'
  BY <1>1, <1>2 DEF Shape, ServerShape
<1>4. TypeOK'
  BY <1>1, <1>2 DEF Shape, TypeOK, EditMetadata
<1>. QED  BY <1>3, <1>4 DEF Shape, JwtShape, HasAccess, EditMetadata

LEMMA ReadKeySetShape ==
  ASSUME Shape, ReadKeySet
  PROVE  Shape'
<1>1. /\ server.service \in Service /\ server.service.alg = "RS256"
      /\ cached' = {[kid |-> server.service.kid, key |-> server.service.key]}
      /\ server.service.kid \in KeyNames \cup {server.service.key}
  BY DEF Shape, TypeOK, ServerShape, ReadKeySet, KeySet
<1>2. cached' \subseteq [kid : Keys \cup KeyNames, key : Keys]
      /\ \A k \in cached' : k.kid \in KeyNames \cup {k.key}
  BY <1>1 DEF Service
<1>. QED  BY <1>2 DEF Shape, TypeOK, ServerShape, JwtShape, HasAccess, ReadKeySet

-----------------------------------------------------------------------------
(***************************************************************************)
(* A step that signs: whose grant it is of, and what it signs for it.      *)
(***************************************************************************)
Fresh(j, g) ==
  \/ j = CodeOf(g)
  \/ \E aud \in Clients \cup {None}, hook \in AccessHooks : j = AccessOf(g, aud, hook)
  \/ j = RefreshOf(g)
  \/ server.oidc /\ row'[g].user # None /\ \E hook \in IdHooks : j = IdTokenOf(g, hook)

Signing(g) ==
  /\ server # None
  /\ UNCHANGED <<server, starts, cached>>
  /\ ~HasAccess(g)
  /\ row' \in [Grants -> Row \cup {None}] /\ row'[g] # None
  /\ \A h \in Grants \ {g} : row'[h] = row[h]
  /\ signed \subseteq signed'
  /\ \A j \in signed' \ signed : Fresh(j, g)
  /\ \A j \in signed' \ signed : j.kind # "code" =>
       \E a \in signed' : \E aud \in Clients \cup {None}, hook \in AccessHooks :
         a = AccessOf(g, aud, hook)

\* A code, and a token for the client itself, are of a grant that was not
\* made before: no token of its is signed yet.
LEMMA IssueSigns ==
  ASSUME Shape, NEW g \in Grants, NEW c \in Clients, NEW scopes \in SUBSET Scopes
  PROVE  /\ \A u \in Users, nonce \in Nonces \cup {None} :
              IssueCode(g, c, u, scopes, nonce) => Signing(g)
         /\ \A aud \in Clients \cup {None}, hook \in AccessHooks :
              IssueToClient(g, c, scopes, aud, hook) => Signing(g)
<1>1. row[g] = None => ~HasAccess(g)
  BY DEF Shape, TypeOK, HasAccess
<1>2. \A u \in Users \cup {None}, nonce \in Nonces \cup {None} :
        LET r == [client |-> c, user |-> u, scopes |-> scopes, nonce |-> nonce]
        IN  r \in Row /\ r # None
  BY ConstantsAssumption DEF Row
<1>3. row \in [Grants -> Row \cup {None}]
  BY DEF Shape, TypeOK
<1>4. ASSUME NEW u \in Users, NEW nonce \in Nonces \cup {None},
             IssueCode(g, c, u, scopes, nonce)
      PROVE  Signing(g)
  <2>1. row' \in [Grants -> Row \cup {None}] /\ row'[g] # None
        /\ \A h \in Grants \ {g} : row'[h] = row[h]
    BY <1>2, <1>3, <1>4 DEF IssueCode
  <2>2. CodeOf(g).kind = "code"
    BY CodeClaims DEF SignedNow
  <2>. QED  BY <1>1, <1>4, <2>1, <2>2 DEF IssueCode, Signing, Fresh
<1>5. ASSUME NEW aud \in Clients \cup {None}, NEW hook \in AccessHooks,
             IssueToClient(g, c, scopes, aud, hook)
      PROVE  Signing(g)
  <2>1. row' \in [Grants -> Row \cup {None}] /\ row'[g] # None
        /\ \A h \in Grants \ {g} : row'[h] = row[h]
    BY <1>2, <1>3, <1>5 DEF IssueToClient
  <2>2. signed' = signed \cup {AccessOf(g, aud, hook)}
    BY <1>5 DEF IssueToClient
  <2>3. \A j \in signed' \ signed : j = AccessOf(g, aud, hook) /\ Fresh(j, g)
    BY <2>2 DEF Fresh
  <2>. QED  BY <1>1, <1>5, <2>1, <2>2, <2>3 DEF IssueToClient, Signing
<1>. QED  BY <1>4, <1>5

LEMMA RedeemSigns ==
  ASSUME Shape, NEW g \in Grants, NEW aud \in Clients \cup {None}, NEW hook \in AccessHooks,
         NEW idHook \in IdHooks, Redeem(g, aud, hook, idHook)
  PROVE  Signing(g)
<1>1. row \in [Grants -> Row \cup {None}] /\ row[g] # None
  BY DEF Shape, TypeOK, Redeem
<1>2. PICK u \in {row[g].user, None} :
        /\ ~(u = None /\ WantsIdToken(g))
        /\ row' = [row EXCEPT ![g].user = u]
  BY DEF Redeem
<1>3. [row[g] EXCEPT !.user = u] \in Row
  BY <1>1 DEF Row
<1>4. /\ row' \in [Grants -> Row \cup {None}] /\ row'[g] # None /\ row'[g].user = u
      /\ \A h \in Grants \ {g} : row'[h] = row[h]
  <2>1. row' = [row EXCEPT ![g] = [row[g] EXCEPT !.user = u]]
    BY <1>1, <1>2
  <2>2. [row[g] EXCEPT !.user = u].user = u
    BY <1>1 DEF Row
  <2>. QED  BY <1>1, <1>3, <2>1, <2>2, ConstantsAssumption
<1>5. signed' = signed \cup {AccessOf(g, aud, hook), RefreshOf(g)}
                       \cup (IF WantsIdToken(g) THEN {IdTokenOf(g, idHook)} ELSE {})
  BY DEF Redeem
<1>6. ASSUME NEW j \in signed' \ signed
      PROVE  Fresh(j, g)
  <2>1. CASE j \in {AccessOf(g, aud, hook), RefreshOf(g)}
    BY <2>1 DEF Fresh
  <2>2. CASE WantsIdToken(g) /\ j = IdTokenOf(g, idHook)
    BY <1>2, <1>4, <2>2 DEF Fresh, WantsIdToken
  <2>. QED  BY <1>5, <1>6, <2>1, <2>2
<1>7. AccessOf(g, aud, hook) \in signed' /\ signed \subseteq signed'
  BY <1>5
<1>. QED  BY <1>4, <1>6, <1>7 DEF Signing, Redeem, HasAccess

\* The actions that sign nothing leave the grants and their tokens.
Quiet == UNCHANGED <<row, signed>>

LEMMA NextSigns ==
  ASSUME Shape, Next
  PROVE  \/ Quiet
         \/ \E g \in Grants : Signing(g)
<1>1. CASE \E s \in Settings : Construct(s)
  BY <1>1 DEF Construct, Quiet
<1>2. CASE \E md \in Metadata : EditMetadata(md)
  BY <1>2 DEF EditMetadata, Quiet
<1>3. CASE \E g \in Grants, c \in Clients, u \in Users, scopes \in SUBSET Scopes,
              nonce \in Nonces \cup {None} : IssueCode(g, c, u, scopes, nonce)
  BY <1>3, IssueSigns
<1>4. CASE \E g \in Grants, aud \in Clients \cup {None}, hook \in AccessHooks,
              idHook \in IdHooks : Redeem(g, aud, hook, idHook)
  BY <1>4, RedeemSigns
<1>5. CASE \E g \in Grants, c \in Clients, scopes \in SUBSET Scopes,
              aud \in Clients \cup {None}, hook \in AccessHooks :
              IssueToClient(g, c, scopes, aud, hook)
  BY <1>5, IssueSigns
<1>6. CASE ReadKeySet
  BY <1>6 DEF ReadKeySet, Quiet
<1>. QED  BY <1>1, <1>2, <1>3, <1>4, <1>5, <1>6 DEF Next

LEMMA SigningShape ==
  ASSUME Shape, NEW g \in Grants, Signing(g)
  PROVE  Shape'
<1>1. /\ server # None /\ server' = server /\ starts' = starts
      /\ server.service \in Service /\ server.start \in 1 .. starts
  BY DEF Signing, Shape, TypeOK
<1>2. ServerShape'
  BY <1>1 DEF Shape, ServerShape
<1>3. ASSUME NEW j \in signed'
      PROVE  j.kind \in Kinds /\ row'[j.of] # None /\ j.alg \in Algorithms /\ j.key \in Keys
             /\ j.start \in 1 .. starts' /\ JwtShape(j)'
  <2>1. CASE j \in signed
    <3>1. j.kind \in Kinds /\ row[j.of] # None /\ j.alg \in Algorithms /\ j.key \in Keys
          /\ j.start \in 1 .. starts' /\ JwtShape(j)
      BY <1>1, <2>1 DEF Shape, TypeOK
    <3>2. row'[j.of] # None /\ (HasAccess(j.of) => HasAccess(j.of)')
      BY <3>1 DEF Signing, JwtShape, HasAccess
    <3>. QED  BY <3>1, <3>2 DEF JwtShape
  <2>2. CASE j \in signed' \ signed
    <3>1. Fresh(j, g) /\ (j.kind # "code" => HasAccess(g)')
      <4>1. \A aud, hook : AccessOf(g, aud, hook).kind = "access" /\ AccessOf(g, aud, hook).of = g
        BY AccessClaimsAre DEF SignedNow
      <4>. QED  BY <2>2, <4>1 DEF Signing, HasAccess
    <3>2. \E kind \in Kinds : SignedNow(j, kind, g) /\ (kind # "access" => j.typ # "at+jwt")
      <4>1. CASE j = CodeOf(g)
        <5>1. CodeOf(g).typ # "at+jwt"
          BY CodeClaims, ConstantsAssumption
        <5>. QED  BY <4>1, <5>1, CodeClaims DEF Kinds
      <4>2. CASE \E aud, hook : j = AccessOf(g, aud, hook)
        BY <4>2, AccessClaimsAre DEF Kinds
      <4>3. CASE j = RefreshOf(g)
        BY <4>3, RefreshClaims DEF Kinds
      <4>4. CASE \E hook : j = IdTokenOf(g, hook)
        BY <4>4, IdTokenClaimsAre DEF Kinds
      <4>. QED  BY <3>1, <4>1, <4>2, <4>3, <4>4 DEF Fresh
    <3>3. row'[g] # None
      BY DEF Signing
    <3>. QED  BY <1>1, <3>1, <3>2, <3>3 DEF SignedNow, Service, JwtShape
  <2>. QED  BY <2>1, <2>2
<1>4. cached' = cached /\ row' \in [Grants -> Row \cup {None}]
  BY DEF Signing
<1>5. TypeOK'
  BY <1>1, <1>3, <1>4 DEF Shape, TypeOK
<1>. QED  BY <1>2, <1>3, <1>4, <1>5 DEF Shape

LEMMA NextShape == Shape /\ [Next]_vars => Shape'
<1>. SUFFICES ASSUME Shape, [Next]_vars  PROVE Shape'
  OBVIOUS
<1>1. CASE UNCHANGED vars
  BY <1>1 DEF vars, Shape, TypeOK, ServerShape, JwtShape, HasAccess
<1>2. CASE Next
  <2>1. CASE \E s \in Settings : Construct(s)
    BY <2>1, ConstructShape
  <2>2. CASE \E md \in Metadata : EditMetadata(md)
    BY <2>2, EditShape
  <2>3. CASE ReadKeySet
    BY <2>3, ReadKeySetShape
  <2>4. CASE \E g \in Grants : Signing(g)
    BY <2>4, SigningShape
  <2>5. \/ \E s \in Settings : Construct(s)
        \/ \E md \in Metadata : EditMetadata(md)
        \/ ReadKeySet
        \/ \E g \in Grants : Signing(g)
    BY <1>2, IssueSigns, RedeemSigns DEF Next
  <2>. QED  BY <2>1, <2>2, <2>3, <2>4, <2>5
<1>. QED  BY <1>1, <1>2

\* Every state has the shape: the running service is one the constructor
\* accepts with these options, and a grant's other tokens come with or after
\* its access token.
THEOREM SignedTokensTypeCorrect == Spec => []Shape
<1>. QED  BY InitShape, NextShape, PTL DEF Spec

-----------------------------------------------------------------------------
(***************************************************************************)
(* What the claims of each JWT say.  A step disturbs this for no old JWT:  *)
(* the row of a grant changes only at its redemption, when there is only   *)
(* its code, and a code repeats nothing that the readers look at.          *)
(***************************************************************************)
CodeTold(j) == {"jti", "refresh_token_id"} \cap DOMAIN j.claims = {}

AccessTold(j) ==
  /\ "jti" \in DOMAIN j.claims /\ j.claims.jti = Id("access", j.of)
  /\ "sub" \in DOMAIN j.claims => j.claims.sub = row[j.of].user
  /\ "scope" \in DOMAIN j.claims => j.claims.scope = row[j.of].scopes

RefreshTold(j) ==
  /\ {"jti", "sub", "auth_code_id"} \cap DOMAIN j.claims = {}
  /\ "refresh_token_id" \in DOMAIN j.claims =>
       j.claims.refresh_token_id = Id("refresh", j.of)

IdTold(j) ==
  /\ j.claims.sub = row[j.of].user /\ j.claims.aud = row[j.of].client
  /\ \E a \in signed : a.kind = "access" /\ a.claims.jti = j.claims.at_hash
                        /\ a.start = j.start
  /\ row[j.of].nonce = IF "nonce" \in DOMAIN j.claims THEN j.claims.nonce ELSE None

JwtTold(j) ==
  /\ j.kind = "code" => CodeTold(j)
  /\ j.kind = "access" => AccessTold(j)
  /\ j.kind = "refresh" => RefreshTold(j)
  /\ j.kind = "id" => IdTold(j)

Told == \A j \in signed : JwtTold(j)

LEMMA FreshTold ==
  ASSUME Shape, NEW g \in Grants, Signing(g), NEW j \in signed' \ signed
  PROVE  JwtTold(j)'
<1>1. /\ Fresh(j, g) /\ row'[g] \in Row /\ server' = server
      /\ j.kind # "code" =>
           \E a \in signed' : \E aud \in Clients \cup {None}, hook \in AccessHooks :
             a = AccessOf(g, aud, hook)
  BY DEF Signing
<1>2. CASE j = CodeOf(g)
  <2>1. j.kind = "code" /\ CodeTold(j)'
    BY <1>2, CodeClaims DEF SignedNow, CodeTold
  <2>. QED  BY <2>1 DEF JwtTold
<1>3. CASE \E aud \in Clients \cup {None}, hook \in AccessHooks : j = AccessOf(g, aud, hook)
  <2>1. j.kind = "access" /\ AccessTold(j)'
    BY <1>3, AccessClaimsAre DEF SignedNow, AccessTold
  <2>. QED  BY <2>1 DEF JwtTold
<1>4. CASE j = RefreshOf(g)
  <2>1. j.kind = "refresh" /\ RefreshTold(j)'
    BY <1>4, RefreshClaims DEF SignedNow, RefreshTold
  <2>. QED  BY <2>1 DEF JwtTold
<1>5. ASSUME row'[g].user # None, NEW hook \in IdHooks, j = IdTokenOf(g, hook)
      PROVE  JwtTold(j)'
  <2>1. SignedNow(j, "id", g)
    BY <1>5, IdTokenClaimsAre
  <2>2. Id("access", g) # None /\ row'[g].client # None
    BY <1>1, ConstantsAssumption DEF Id, Kinds, Row
  <2>3. /\ j.claims.sub = row'[g].user /\ j.claims.aud = row'[g].client
        /\ j.claims.at_hash = Id("access", g)
    BY <1>5, <2>2, IdTokenClaimsAre
  <2>4. row'[g].nonce = IF "nonce" \in DOMAIN j.claims THEN j.claims.nonce ELSE None
    BY <1>5, IdTokenClaimsAre
  <2>5. \E a \in signed' : a.kind = "access" /\ a.claims.jti = Id("access", g)
                            /\ a.start = server.start
    BY <1>1, <2>1, AccessClaimsAre DEF SignedNow
  <2>6. IdTold(j)'
    BY <2>1, <2>3, <2>4, <2>5 DEF IdTold, SignedNow
  <2>. QED  BY <2>1, <2>6 DEF JwtTold, SignedNow
<1>. QED  BY <1>1, <1>2, <1>3, <1>4, <1>5 DEF Fresh

LEMMA SigningTold ==
  ASSUME Shape, Told, NEW g \in Grants, Signing(g)
  PROVE  Told'
<1>1. ASSUME NEW j \in signed
      PROVE  JwtTold(j)'
  <2>1. JwtTold(j) /\ j.of \in Grants /\ (j.kind # "code" => HasAccess(j.of))
    BY <1>1 DEF Told, Shape, JwtShape
  <2>2. j.kind # "code" => row'[j.of] = row[j.of]
    BY <2>1 DEF Signing
  <2>3. j.kind = "id" => \E a \in signed' :
          a.kind = "access" /\ a.claims.jti = j.claims.at_hash /\ a.start = j.start
    BY <2>1 DEF JwtTold, IdTold, Signing
  <2>. QED  BY <2>1, <2>2, <2>3 DEF JwtTold, CodeTold, AccessTold, RefreshTold, IdTold
<1>. QED  BY <1>1, FreshTold DEF Told

LEMMA NextTold == Shape /\ Told /\ [Next]_vars => Told'
<1>. SUFFICES ASSUME Shape, Told, [Next]_vars  PROVE Told'
  OBVIOUS
<1>1. CASE Quiet
  BY <1>1 DEF Quiet, Told, JwtTold, CodeTold, AccessTold, RefreshTold, IdTold
<1>2. CASE \E g \in Grants : Signing(g)
  BY <1>2, SigningTold
<1>. QED  BY <1>1, <1>2, NextSigns DEF vars, Quiet

\* An ID token tells of the authorization it comes from and of the access
\* token it is sent with, and of the nonce of the request, whatever the hook
\* adds to it.
THEOREM IdTokensTellWhatHappened == Spec => []IdTokenTellsWhatHappened
<1>1. Init => Told
  BY DEF Init, Told
<1>2. Told => IdTokenTellsWhatHappened
  BY DEF Told, JwtTold, IdTold, IdTokenTellsWhatHappened
<1>. QED  BY <1>1, <1>2, NextTold, SignedTokensTypeCorrect, PTL DEF Spec

-----------------------------------------------------------------------------
(***************************************************************************)
(* The names that tell the kinds apart: a hook adds none of them, and the  *)
(* identifier an ID token carries is no row's.                             *)
(***************************************************************************)
JwtApart(j) ==
  /\ j.kind # "code" => "auth_code_id" \notin DOMAIN j.claims
  /\ j.kind # "refresh" => "refresh_token_id" \notin DOMAIN j.claims
  /\ j.kind = "id" /\ "jti" \in DOMAIN j.claims => j.claims["jti"] \notin Kinds \X Grants

Apart == \A j \in signed : JwtApart(j)

LEMMA FreshApart ==
  ASSUME NEW g \in Grants, NEW j, Fresh(j, g)
  PROVE  JwtApart(j)
<1>1. CASE j = CodeOf(g)
  BY <1>1, CodeClaims DEF SignedNow, JwtApart
<1>2. CASE \E aud \in Clients \cup {None}, hook \in AccessHooks : j = AccessOf(g, aud, hook)
  <2>1. PICK aud \in Clients \cup {None}, hook \in AccessHooks : j = AccessOf(g, aud, hook)
    BY <1>2
  <2>2. {"auth_code_id", "refresh_token_id"} \cap DOMAIN hook = {}
    BY HooksAssumption
  <2>3. j.kind = "access" /\ DOMAIN j.claims \subseteq
          {"aud", "iss", "cid", "scope", "sub", "jti"} \cup DOMAIN hook
    BY <2>1, AccessClaimsAre DEF SignedNow
  <2>. QED  BY <2>2, <2>3 DEF JwtApart
<1>3. CASE j = RefreshOf(g)
  BY <1>3, RefreshClaims DEF SignedNow, JwtApart
<1>4. CASE \E hook \in IdHooks : j = IdTokenOf(g, hook)
  <2>1. PICK hook \in IdHooks : j = IdTokenOf(g, hook)
    BY <1>4
  <2>2. /\ {"auth_code_id", "refresh_token_id"} \cap DOMAIN hook = {}
        /\ "jti" \in DOMAIN hook => hook["jti"] \notin Kinds \X Grants
    BY HooksAssumption
  <2>3. /\ j.kind = "id" /\ DOMAIN j.claims \subseteq ProtocolClaimNames \cup DOMAIN hook
        /\ "jti" \in DOMAIN j.claims => "jti" \in DOMAIN hook /\ j.claims["jti"] = hook["jti"]
    BY <2>1, IdTokenClaimsAre DEF SignedNow
  <2>. QED  BY <2>2, <2>3 DEF JwtApart, ProtocolClaimNames
<1>. QED  BY <1>1, <1>2, <1>3, <1>4 DEF Fresh

LEMMA NextApart == Shape /\ Apart /\ [Next]_vars => Apart'
<1>1. ASSUME Shape, Apart, Next  PROVE Apart'
  BY <1>1, NextSigns, FreshApart DEF Apart, Quiet, Signing
<1>. QED  BY <1>1 DEF Apart, vars

\* Introspection finds the row a token was issued with, or none.
LEMMA IntrospectedRowIs ==
  ASSUME Shape, Told, Apart, NEW j \in signed, IntrospectedRow(j) # None
  PROVE  j.kind \in {"access", "refresh"} /\ IntrospectedRow(j) = row[j.of]
<1>. DEFINE half == IF ~VerifiedBy(server.service, j) THEN None
                    ELSE IF "jti" \in DOMAIN j.claims THEN "access"
                    ELSE IF "refresh_token_id" \in DOMAIN j.claims THEN "refresh" ELSE None
            id   == IF half = "access" THEN j.claims.jti ELSE j.claims.refresh_token_id
            hits == IF half = None THEN {}
                    ELSE {g \in Grants : row[g] # None /\ id = Id(half, g)}
<1>1. hits # {} /\ half # None /\ IntrospectedRow(j) = row[CHOOSE g \in hits : TRUE]
  BY DEF IntrospectedRow
<1>2. j.kind \in Kinds /\ j.of \in Grants /\ JwtTold(j) /\ JwtApart(j)
  BY DEF Shape, TypeOK, JwtShape, Told, Apart
<1>3. half \in {"access", "refresh"}
  BY <1>1
<1>4. PICK g \in hits : IntrospectedRow(j) = row[g]
  BY <1>1
<1>5. g \in Grants /\ id = Id(half, g)
  BY <1>1, <1>4
<1>6. CASE half = "access"
  <2>1. "jti" \in DOMAIN j.claims /\ id = j.claims.jti
    BY <1>1, <1>6
  <2>. HIDE DEF half, id, hits
  <2>2. j.kind # "id"
    BY <1>2, <1>5, <1>6, <2>1 DEF JwtApart, Id, Kinds
  <2>3. j.kind = "access"
    BY <1>2, <2>1, <2>2 DEF JwtTold, CodeTold, RefreshTold, Kinds
  <2>4. g = j.of
    BY <1>2, <1>5, <1>6, <2>1, <2>3 DEF JwtTold, AccessTold, Id
  <2>. QED  BY <1>4, <2>3, <2>4
<1>7. CASE half = "refresh"
  <2>1. "jti" \notin DOMAIN j.claims /\ "refresh_token_id" \in DOMAIN j.claims
        /\ id = j.claims.refresh_token_id
    BY <1>1, <1>7
  <2>. HIDE DEF half, id, hits
  <2>2. j.kind = "refresh"
    BY <1>2, <2>1 DEF JwtApart
  <2>3. g = j.of
    BY <1>2, <1>5, <1>7, <2>1, <2>2 DEF JwtTold, RefreshTold, Id
  <2>. QED  BY <1>4, <2>2, <2>3
<1>. QED  BY <1>3, <1>6, <1>7

LEMMA ApartReaders ==
  ASSUME Shape, Told, Apart
  PROVE  EachReaderItsKind
<1>1. ASSUME NEW j \in signed
      PROVE  /\ ServesUserInfo(j) => j.kind = "access"
             /\ ResolvesCode(j) => j.kind = "code"
             /\ ResolvesRefresh(j) => j.kind = "refresh"
  BY <1>1 DEF Shape, JwtShape, Apart, JwtApart, ServesUserInfo, VerifiesAccess, ResolvesCode,
              ResolvesRefresh
<1>. QED  BY <1>1, IntrospectedRowIs DEF EachReaderItsKind

\* No reader takes one kind of JWT for another, whatever the hooks add
\* beside the names that are the library's.
THEOREM EachReaderTakesItsKind == Spec => []EachReaderItsKind
<1>1. Init => Told /\ Apart
  BY DEF Init, Told, Apart
<1>. QED  BY <1>1, NextTold, NextApart, ApartReaders, SignedTokensTypeCorrect, PTL DEF Spec

LEMMA UserInfoTells ==
  ASSUME Shape, Told, NEW j \in signed, ServesUserInfo(j), NEW p
  PROVE  /\ UserInfoBody(j, p).sub = row[j.of].user
         /\ DOMAIN UserInfoBody(j, p) \subseteq
              {"sub"} \cup (UNION {ScopeClaims(scope) : scope \in row[j.of].scopes})
<1>1. j.claims.sub = row[j.of].user /\ j.claims.scope = row[j.of].scopes
  BY DEF ServesUserInfo, VerifiesAccess, Shape, JwtShape, Told, JwtTold, AccessTold
<1>. DEFINE claims == FilterOidcClaimsByScope(p, j.claims.scope)
            sub == [sub |-> j.claims.sub]
<1>2. DOMAIN claims \subseteq UNION {ScopeClaims(scope) : scope \in j.claims.scope}
  BY DEF FilterOidcClaimsByScope
<1>3. DOMAIN sub = {"sub"} /\ sub["sub"] = j.claims.sub
  OBVIOUS
<1>4. UserInfoBody(j, p) = Spread(claims, sub)
  BY DEF UserInfoBody
<1>. HIDE DEF claims, sub
<1>5. /\ DOMAIN Spread(claims, sub) = (DOMAIN claims) \cup (DOMAIN sub)
      /\ \A n \in DOMAIN sub : Spread(claims, sub)[n] = sub[n]
  BY SpreadAt
<1>6. UserInfoBody(j, p).sub = row[j.of].user
  BY <1>1, <1>3, <1>4, <1>5
<1>. QED  BY <1>1, <1>2, <1>3, <1>4, <1>5, <1>6

LEMMA IntrospectionTells ==
  ASSUME Shape, Told, Apart, NEW j \in signed, IntrospectedRow(j) # None
  PROVE  /\ IntrospectionBody(j).client_id = row[j.of].client
         /\ IntrospectionBody(j).scope = row[j.of].scopes
         /\ "sub" \in DOMAIN j.claims => j.claims.sub = row[j.of].user
<1>1. j.kind \in {"access", "refresh"} /\ IntrospectedRow(j) = row[j.of]
  BY IntrospectedRowIs
<1>. DEFINE known == [active |-> TRUE, scope |-> row[j.of].scopes, client_id |-> row[j.of].client]
<1>2. IntrospectionBody(j) = Spread(j.claims, known)
  BY <1>1 DEF IntrospectionBody
<1>3. DOMAIN known = {"active", "scope", "client_id"}
      /\ known["client_id"] = row[j.of].client /\ known["scope"] = row[j.of].scopes
  OBVIOUS
<1>. HIDE DEF known
<1>4. \A n \in DOMAIN known : Spread(j.claims, known)[n] = known[n]
  BY SpreadAt
<1>5. "sub" \in DOMAIN j.claims => j.claims.sub = row[j.of].user
  BY <1>1 DEF Told, JwtTold, AccessTold, RefreshTold
<1>. QED  BY <1>2, <1>3, <1>4, <1>5

\* UserInfo and introspection tell what the server granted, and nothing that
\* a hook or a profile put beside it.
THEOREM ReadersTellWhatWasGranted == Spec => []ReadersTellTheGrant
<1>1. Init => Told /\ Apart
  BY DEF Init, Told, Apart
<1>2. Shape /\ Told /\ Apart => ReadersTellTheGrant
  <2>1. Shape /\ Told /\ Apart => HooksKeepTheUser
    BY UserInfoTells, IntrospectionTells DEF HooksKeepTheUser
  <2>2. Shape /\ Told /\ Apart => IntrospectionReportsTheRow
    BY IntrospectionTells DEF IntrospectionReportsTheRow
  <2>3. Shape /\ Told => UserInfoWithinScopes
    BY UserInfoTells DEF UserInfoWithinScopes
  <2>. QED  BY <2>1, <2>2, <2>3 DEF ReadersTellTheGrant
<1>. QED  BY <1>1, <1>2, NextTold, NextApart, SignedTokensTypeCorrect, PTL DEF Spec

-----------------------------------------------------------------------------
(***************************************************************************)
(* An ID token of this process carries the running service's algorithm,    *)
(* key and issuer: the options are replaced at a start only, and a start   *)
(* has a number of its own.                                                *)
(***************************************************************************)
Current(j) ==
  /\ server.oidc
  /\ j.alg = server.service.alg /\ j.key = server.service.key /\ j.kid = server.service.kid
  /\ j.claims.iss = server.issuer

SignedCurrently ==
  server # None => \A j \in signed : j.kind = "id" /\ j.start = server.start => Current(j)

LEMMA SigningCurrent ==
  ASSUME Shape, SignedCurrently, NEW g \in Grants, Signing(g)
  PROVE  SignedCurrently'
<1>1. server' = server /\ server # None
  BY DEF Signing
<1>2. ASSUME NEW j \in signed' \ signed, j.kind = "id"
      PROVE  Current(j)
  <2>1. Fresh(j, g)
    BY <1>2 DEF Signing
  <2>2. \E hook \in IdHooks : server.oidc /\ j = IdTokenOf(g, hook)
    BY <1>2, <2>1, CodeClaims, AccessClaimsAre, RefreshClaims DEF Fresh, SignedNow
  <2>3. server.issuer # None
    BY <1>1, <2>2 DEF Shape, ServerShape
  <2>. QED  BY <2>2, <2>3, IdTokenClaimsAre DEF Current, SignedNow
<1>3. ASSUME NEW j \in signed, j.kind = "id", j.start = server.start
      PROVE  Current(j)
  BY <1>1, <1>3 DEF SignedCurrently
<1>. QED  BY <1>1, <1>2, <1>3 DEF SignedCurrently, Current

LEMMA NextCurrent == Shape /\ SignedCurrently /\ [Next]_vars => SignedCurrently'
<1>. SUFFICES ASSUME Shape, SignedCurrently, [Next]_vars  PROVE SignedCurrently'
  OBVIOUS
<1>1. ASSUME NEW s \in Settings, Construct(s)
      PROVE  SignedCurrently'
  <2>1. /\ starts \in Nat /\ starts' = starts + 1 /\ signed' = signed
        /\ server' # None => server'.start = starts'
    BY <1>1, ConstantsAssumption DEF Shape, TypeOK, Construct
  <2>2. \A j \in signed : j.start \in 1 .. starts
    BY DEF Shape, TypeOK
  <2>. QED  BY <2>1, <2>2 DEF SignedCurrently
<1>2. ASSUME NEW md \in Metadata, EditMetadata(md)
      PROVE  SignedCurrently'
  <2>1. /\ server' = [server EXCEPT !.metadata = md] /\ signed' = signed /\ server # None
        /\ server \in [service : Service, issuer : Issuer \cup {None}, oidc : BOOLEAN,
                       metadata : Metadata, start : 1 .. starts]
    BY <1>2 DEF EditMetadata, Shape, ServerShape
  <2>2. server'.start = server.start /\ server'.oidc = server.oidc
        /\ server'.service = server.service /\ server'.issuer = server.issuer
    BY <2>1
  <2>. QED  BY <2>1, <2>2 DEF SignedCurrently, Current
<1>3. CASE ReadKeySet
  BY <1>3 DEF ReadKeySet, SignedCurrently, Current
<1>4. CASE \E g \in Grants : Signing(g)
  BY <1>4, SigningCurrent
<1>5. CASE UNCHANGED vars
  BY <1>5 DEF vars, SignedCurrently, Current
<1>. QED  BY <1>1, <1>2, <1>3, <1>4, <1>5, IssueSigns, RedeemSigns DEF Next

LEMMA CurrentIsVerified ==
  ASSUME Shape, SignedCurrently
  PROVE  IdTokensCanBeVerified
<1>1. ASSUME server # None, NEW j \in signed, j.kind = "id", j.start = server.start
      PROVE  /\ Document(server).issuer = j.claims.iss
             /\ Document(server).id_token_signing_alg_values_supported = j.alg
             /\ \/ RelyingPartyVerifies(j)
                \/ j.kid \in KeyNames /\ \E k \in cached : k.kid = j.kid /\ k.key # j.key
  <2>1. /\ Current(j) /\ server.service.alg = "RS256"
        /\ j.kid \in KeyNames \cup {j.key}
    BY <1>1 DEF SignedCurrently, Current, Shape, ServerShape
  <2>2. [kid |-> j.kid, key |-> j.key] \in KeySet(server.service)
    BY <2>1 DEF Current, KeySet
  <2>3. \/ RelyingPartyVerifies(j)
        \/ j.kid \in KeyNames /\ \E k \in cached : k.kid = j.kid /\ k.key # j.key
    <3>1. ASSUME NEW k \in cached, k.kid = j.kid
          PROVE  \/ [kid |-> j.kid, key |-> j.key] \in cached
                 \/ j.kid \in KeyNames /\ k.key # j.key
      <4>1. k = [kid |-> k.kid, key |-> k.key] /\ k.kid \in KeyNames \cup {k.key}
        BY DEF Shape, TypeOK
      <4>. QED  BY <2>1, <3>1, <4>1
    <3>2. CASE \E k \in cached : k.kid = j.kid
      BY <3>1, <3>2 DEF RelyingPartyVerifies
    <3>3. CASE ~\E k \in cached : k.kid = j.kid
      BY <2>2, <3>3 DEF RelyingPartyVerifies
    <3>. QED  BY <3>2, <3>3
  <2>4. /\ Document(server).issuer = server.issuer
        /\ Document(server).id_token_signing_alg_values_supported = "RS256"
    <3>. DEFINE fixed == [issuer |-> server.issuer, jwks_uri |-> "jwks",
                          id_token_signing_alg_values_supported |-> "RS256"]
    <3>1. DOMAIN fixed = Protected /\ fixed["issuer"] = server.issuer
          /\ fixed["id_token_signing_alg_values_supported"] = "RS256"
      BY DEF Protected
    <3>2. Document(server) = Spread(server.metadata, fixed)
      BY DEF Document
    <3>. HIDE DEF fixed
    <3>3. \A n \in DOMAIN fixed : Spread(server.metadata, fixed)[n] = fixed[n]
      BY SpreadAt
    <3>. QED  BY <3>1, <3>2, <3>3 DEF Protected
  <2>. QED  BY <2>1, <2>3, <2>4 DEF Current
<1>2. DiscoveryTellsTheTruth
  BY <1>1 DEF DiscoveryTellsTheTruth
<1>3. KeysAreFound
  BY <1>1 DEF KeysAreFound
<1>. QED  BY <1>2, <1>3 DEF IdTokensCanBeVerified

\* A relying party that follows the discovery document can verify every ID
\* token of the running process, however the application edits the metadata
\* and whenever the relying party read the keys, unless the application gave
\* a new key the name of an old one.
THEOREM IdTokensAreVerifiable == Spec => []IdTokensCanBeVerified
<1>1. Init => SignedCurrently
  BY DEF Init, SignedCurrently
<1>. QED  BY <1>1, NextCurrent, CurrentIsVerified, SignedTokensTypeCorrect, PTL DEF Spec
=============================================================================
