------------------------ MODULE AuthorizeEndpointProofs ------------------------
(***************************************************************************)
(* Proofs about /authorize, for any number of requests and clients, every  *)
(* registration a client may be given in mid-session, all redirect URIs    *)
(* and every setting of the PKCE and OIDC options.                         *)
(***************************************************************************)
EXTENDS AuthorizeEndpoint, FiniteSetTheorems, TLAPS

USE DEF Goto

-----------------------------------------------------------------------------
(***************************************************************************)
(* Redirect URIs.                                                          *)
(***************************************************************************)

\* A redirect URI validateRedirectUri accepts leads to a registered place:
\* the URL itself or, on a loopback host and over http, another port of it.
LEMMA MatchesSamePlace ==
  ASSUME NEW requested \in UriString, NEW uri \in UriString,
         requested.url # None, RedirectUriMatches(requested, uri)
  PROVE  SamePlace(requested, uri)
<1>1. CASE uri.url = None
  BY <1>1 DEF RedirectUriMatches, SamePlace
<1>2. CASE uri.url # None
  <2>1. requested.url \in Url /\ uri.url \in Url
    BY <1>2 DEF UriString
  <2>2. CASE IsLoopback(uri) /\ requested.url.host = uri.url.host
    <3>1. Href(AnyPort(requested)) = Href(AnyPort(uri))
      BY <1>2, <2>2 DEF RedirectUriMatches
    <3>2. /\ AnyPort(requested).url = [requested.url EXCEPT !.port = DefaultPort]
          /\ AnyPort(requested).fragment = requested.fragment
          /\ AnyPort(uri).url = [uri.url EXCEPT !.port = DefaultPort]
          /\ AnyPort(uri).fragment = uri.fragment
      BY DEF AnyPort, UriString
    <3>3. /\ [requested.url EXCEPT !.port = DefaultPort]
               = [uri.url EXCEPT !.port = DefaultPort]
          /\ requested.fragment = uri.fragment
      BY <3>1, <3>2 DEF Href
    <3>4. /\ requested.url.scheme = uri.url.scheme /\ requested.url.host = uri.url.host
          /\ requested.url.path = uri.url.path
      BY <2>1, <3>3 DEF Url
    <3>5. requested.url = [uri.url EXCEPT !.port = requested.url.port]
      BY <2>1, <3>4 DEF Url
    <3>6. requested.url.port \in Ports /\ requested.url.scheme = "http"
          /\ requested.url.host \in LoopbackHostnames
      BY <2>1, <2>2, <3>4 DEF Url, IsLoopback
    <3>. QED  BY <1>2, <3>3, <3>5, <3>6 DEF SamePlace
  <2>3. CASE ~(IsLoopback(uri) /\ requested.url.host = uri.url.host)
    <3>1. requested.url = uri.url /\ requested.fragment = uri.fragment
      BY <1>2, <2>3 DEF RedirectUriMatches, Href
    <3>2. requested.url = [uri.url EXCEPT !.port = uri.url.port]
          /\ uri.url.port \in Ports
      BY <2>1, <3>1 DEF Url
    <3>. QED  BY <1>2, <3>1, <3>2 DEF SamePlace
  <2>. QED  BY <2>2, <2>3
<1>. QED  BY <1>1, <1>2

\* A string that was registered is a place of its own.
LEMMA SelfPlace == \A uri : SamePlace(uri, uri)
  BY DEF SamePlace

\* A client registered with one URI has a default, and it is that one.
LEMMA OneUriIsTheFirst ==
  ASSUME NEW reg \in Registrations, Cardinality(reg.uris) = 1
  PROVE  reg.first \in reg.uris
<1>1. reg.uris # {} => reg.first \in reg.uris
  BY ConstantsAssumption DEF ConstantsAssumption
<1>2. reg.uris # {}
  BY FS_EmptySet
<1>. QED  BY <1>1, <1>2

\* Where the request is sent back to is a place of the client that was looked up.
LEMMA AcceptedUriIsRegistered ==
  ASSUME NEW f \in Form, NEW reg \in Registrations,
         IF f.uri = None THEN Cardinality(reg.uris) = 1 ELSE IsAcceptable(f.uri, reg.uris)
  PROVE  LET target == IF f.uri = None THEN reg.first ELSE f.uri
         IN  target \in UriString /\ \E uri \in reg.uris : SamePlace(target, uri)
<1>1. reg.uris \subseteq UriString
  BY ConstantsAssumption DEF ConstantsAssumption, Registration
<1>2. CASE f.uri = None
  BY <1>1, <1>2, OneUriIsTheFirst, SelfPlace
<1>3. CASE f.uri # None
  <2>1. f.uri \in UriString /\ f.uri.url # None
    BY <1>3 DEF Form, IsAcceptable
  <2>2. PICK uri \in reg.uris : RedirectUriMatches(f.uri, uri)
    BY <1>3 DEF IsAcceptable
  <2>3. SamePlace(f.uri, uri)
    BY <1>1, <2>1, <2>2, MatchesSamePlace
  <2>. QED  BY <1>3, <2>1, <2>2, <2>3
<1>. QED  BY <1>2, <1>3

-----------------------------------------------------------------------------
(***************************************************************************)
(* What a request has established by the time it stands where it stands.   *)
(* Its client, once looked up, was registered with the place it will be    *)
(* sent to; its session carries a challenge the server takes; and what is  *)
(* minted for it repeats the session it was approved in.                   *)
(***************************************************************************)
Completed == {"load", "persist", "redirect", "redirected"}
InSession == {"session", "complete"} \cup Completed
Looked    == {"scopes", "finalize"} \cup InSession

Arrived(r) ==
  IF pc[r] = "idle" THEN form[r] = None
  ELSE form[r] \in Inputs /\ registration[form[r].client].uris \subseteq registered[r]

ClientOk(r) ==
  /\ pc[r] \in Looked => client[r] # None
  /\ client[r] # None => /\ pc[r] \notin {"idle", "lookup"}
                         /\ client[r].uris \subseteq registered[r]
                         /\ MayUseGrant(r, client[r])
                         /\ UriIsAccepted(r, client[r])

SessionOk(r) ==
  /\ pc[r] \in InSession => session[r] # None
  /\ session[r] # None =>
       /\ pc[r] \notin {"idle", "lookup", "scopes", "finalize"}
       /\ client[r] # None
       /\ session[r].uri = RedirectUriOf(r)
       /\ GrantOf(r) = "authorization_code" =>
            /\ AuthorizeAcceptsChallenge(session[r].challenge, session[r].method,
                                         RequiresPKCE, RequiresS256)
            /\ session[r].challenge = None <=> session[r].method = None
       /\ session[r].maxAge =>
            GrantOf(r) = "authorization_code" /\ IsOpenIdScopeRequest(session[r].scopes)
  /\ pc[r] \in Completed => IsApproved(r) /\ KnowsAuthTime(r)

\* The code grant stores for the user of the session, or for nobody once that
\* user is gone.
SubjectOk(r) ==
  /\ subject[r] # None => /\ pc[r] \in {"persist", "redirect", "redirected", "failed"}
                          /\ session[r] # None /\ subject[r] = session[r].user
  /\ pc[r] = "persist" /\ form[r].response = "code" /\ subject[r] = None
       => session[r].user \notin users

MintedOk(r) ==
  /\ minted[r] # None =>
       /\ pc[r] \in {"redirect", "redirected", "failed"}
       /\ session[r] # None /\ IsApproved(r) /\ KnowsAuthTime(r)
       /\ minted[r].what = form[r].response
       /\ minted[r].what = "code" => minted[r].scopes = session[r].scopes
       /\ minted[r].user \in {session[r].user, None}
       /\ minted[r].user = None => minted[r].what = "code" /\ session[r].user \notin users
       /\ minted[r].challenge = session[r].challenge /\ minted[r].method = session[r].method
       /\ minted[r].maxAge = session[r].maxAge /\ minted[r].authTime = session[r].authTime
  /\ location[r] # None => /\ pc[r] = "redirected"
                           /\ session[r] # None /\ location[r] = session[r].uri

RequestOk(r) ==
  Arrived(r) /\ ClientOk(r) /\ SessionOk(r) /\ SubjectOk(r) /\ MintedOk(r)

Inv == TypeOK /\ \A r \in Requests : RequestOk(r)

LEMMA InitInv == Init => Inv
<1>. SUFFICES ASSUME Init PROVE Inv
  OBVIOUS
<1>1. TypeOK
  BY DEF Init, TypeOK
<1>2. ASSUME NEW r \in Requests PROVE RequestOk(r)
  BY DEF Init, RequestOk, Arrived, ClientOk, SessionOk, SubjectOk, MintedOk,
         Completed, InSession, Looked
<1>. QED  BY <1>1, <1>2 DEF Inv

LEMMA InputIsForm == Inputs \subseteq Form /\ None \notin Inputs
  BY ConstantsAssumption DEF ConstantsAssumption

LEMMA RegistrationType ==
  /\ None \notin Registrations
  /\ \A reg \in Registrations : reg.uris \subseteq UriString
  BY ConstantsAssumption DEF ConstantsAssumption, Registration

\* A request that is left alone stands as it stood.
LEMMA Untouched ==
  ASSUME NEW q \in Requests, RequestOk(q),
         pc'[q] = pc[q], form'[q] = form[q], client'[q] = client[q],
         session'[q] = session[q], subject'[q] = subject[q], minted'[q] = minted[q],
         location'[q] = location[q], users' \subseteq users,
         registered[q] \subseteq registered'[q],
         pc[q] # "idle" => registration'[form[q].client].uris \subseteq registered'[q]
  PROVE  RequestOk(q)'
  BY DEF RequestOk, Arrived, ClientOk, SessionOk, SubjectOk, MintedOk, MayUseGrant, UriIsAccepted,
         GrantOf, RedirectUriOf, IsApproved, KnowsAuthTime

LEMMA ArriveInv ==
  ASSUME Inv, NEW r \in Requests, NEW f \in Inputs, Arrive(r, f)
  PROVE  Inv'
<1>. USE DEF Inv, TypeOK
<1>1. f \in Form /\ registration[f.client] \in Registrations
      /\ registration[f.client].uris \subseteq UriString
  BY InputIsForm, RegistrationType DEF Form
<1>2. TypeOK'
  BY <1>1 DEF Arrive, Working
<1>3. RequestOk(r)'
  <2>1. /\ client[r] = None /\ session[r] = None /\ subject[r] = None
        /\ minted[r] = None /\ location[r] = None
    BY DEF Arrive, RequestOk, ClientOk, SessionOk, SubjectOk, MintedOk
  <2>2. pc'[r] = "lookup" /\ form'[r] = f /\ registered'[r] = registration[f.client].uris
        /\ UNCHANGED <<registration, users, client, session, subject, minted, location>>
    BY DEF Arrive
  <2>3. Arrived(r)'
    BY <1>1, <2>2 DEF Arrived
  <2>4. ClientOk(r)' /\ SessionOk(r)' /\ SubjectOk(r)' /\ MintedOk(r)'
    BY <2>1, <2>2 DEF ClientOk, SessionOk, SubjectOk, MintedOk, Completed, InSession, Looked
  <2>. QED  BY <2>3, <2>4 DEF RequestOk
<1>4. ASSUME NEW q \in Requests \ {r} PROVE RequestOk(q)'
  BY <1>4, Untouched DEF Arrive, RequestOk, Arrived
<1>. QED  BY <1>2, <1>3, <1>4

LEMMA LookupClientInv ==
  ASSUME Inv, NEW r \in Requests, LookupClient(r)
  PROVE  Inv'
<1>. USE DEF Inv, TypeOK
<1>0. RequestOk(r) /\ form[r] \in Form /\ registration[form[r].client] \in Registrations
  BY InputIsForm DEF LookupClient, RequestOk, Arrived, Form
<1>1. TypeOK'
  BY <1>0 DEF LookupClient, Working, Rejections
<1>2. RequestOk(r)'
  <2>1. /\ pc[r] = "lookup" /\ pc'[r] \in {"scopes", "unauthorized_client", "invalid_redirect_uri"}
        /\ UNCHANGED <<registration, users, form, session, subject, minted, location, registered>>
    BY DEF LookupClient
  <2>2. pc'[r] = "scopes" =>
          LET reg == registration[form[r].client]
          IN  client'[r] = reg /\ MayUseGrant(r, reg) /\ UriIsAccepted(r, reg)
    BY DEF LookupClient
  <2>3. pc'[r] # "scopes" => client'[r] = client[r]
    BY DEF LookupClient
  <2>4. /\ client[r] = None /\ session[r] = None /\ subject[r] = None
        /\ minted[r] = None /\ location[r] = None
    BY <1>0, <2>1 DEF RequestOk, ClientOk, SessionOk, SubjectOk, MintedOk
  <2>5. Arrived(r)'
    BY <1>0, <2>1 DEF RequestOk, Arrived
  <2>6. ClientOk(r)'
    <3>1. registration[form[r].client].uris \subseteq registered[r]
      BY <1>0, <2>1 DEF RequestOk, Arrived
    <3>2. CASE pc'[r] = "scopes"
      BY <1>0, <2>1, <2>2, <3>1, <3>2, RegistrationType
         DEF ClientOk, Looked, MayUseGrant, UriIsAccepted, GrantOf
    <3>3. CASE pc'[r] # "scopes"
      BY <2>1, <2>3, <2>4, <3>3 DEF ClientOk, Looked, InSession, Completed
    <3>. QED  BY <3>2, <3>3
  <2>7. SessionOk(r)' /\ SubjectOk(r)' /\ MintedOk(r)'
    BY <2>1, <2>4 DEF SessionOk, SubjectOk, MintedOk, InSession, Completed
  <2>. QED  BY <2>5, <2>6, <2>7 DEF RequestOk
<1>3. ASSUME NEW q \in Requests \ {r} PROVE RequestOk(q)'
  BY <1>3, Untouched DEF LookupClient, RequestOk, Arrived
<1>. QED  BY <1>1, <1>2, <1>3

LEMMA ValidateScopesInv ==
  ASSUME Inv, NEW r \in Requests, ValidateScopes(r)
  PROVE  Inv'
<1>. USE DEF Inv, TypeOK
<1>1. TypeOK'
  BY DEF ValidateScopes, Working, Rejections
<1>2. RequestOk(r)'
  BY DEF ValidateScopes, RequestOk, Arrived, ClientOk, SessionOk, SubjectOk, MintedOk, Completed,
         InSession, Looked, MayUseGrant, UriIsAccepted, GrantOf
<1>3. ASSUME NEW q \in Requests \ {r} PROVE RequestOk(q)'
  BY <1>3, Untouched DEF ValidateScopes, RequestOk, Arrived
<1>. QED  BY <1>1, <1>2, <1>3

\* The AuthorizationRequest is one, goes where it may and is bound to a
\* challenge the server takes.
LEMMA SessionOfType ==
  ASSUME Inv, NEW r \in Requests, NEW scopes \in SUBSET Scopes, pc[r] = "finalize",
         ChallengeIsAccepted(r, scopes)
  PROVE  SessionOf(r, scopes) \in Session
<1>1. /\ form[r] \in Form /\ client[r] \in Registrations
      /\ UriIsAccepted(r, client[r])
  BY InputIsForm DEF Inv, TypeOK, RequestOk, Arrived, ClientOk, Looked
<1>2. RedirectUriOf(r) \in UriString
  BY <1>1, AcceptedUriIsRegistered DEF UriIsAccepted, RedirectUriOf
<1>3. GrantOf(r) = "authorization_code" =>
        /\ form[r].challenge \in ChallengeStrings \cup {None}
        /\ MethodOf(form[r]) \in Methods \cup {None}
  BY <1>1 DEF ChallengeIsAccepted, AuthorizeAcceptsChallenge, MethodOf, Methods, Form
<1>. QED  BY <1>1, <1>2, <1>3 DEF SessionOf, Session, Form

LEMMA FinalizeScopesInv ==
  ASSUME Inv, NEW r \in Requests, FinalizeScopes(r)
  PROVE  Inv'
<1>. USE DEF Inv, TypeOK
<1>0. /\ pc[r] = "finalize" /\ RequestOk(r)
      /\ UNCHANGED <<registration, known, users, form, client, subject, minted, location, registered>>
  BY DEF FinalizeScopes
<1>1. ASSUME NEW q \in Requests \ {r} PROVE RequestOk(q)'
  <2>1. pc'[q] = pc[q] /\ session'[q] = session[q]
    BY <1>1 DEF FinalizeScopes
  <2>. QED  BY <1>0, <1>1, <2>1, Untouched DEF RequestOk, Arrived
<1>2. CASE pc' = [pc EXCEPT ![r] = "invalid_challenge"] /\ UNCHANGED session
  BY <1>0, <1>1, <1>2 DEF Working, Rejections, RequestOk, Arrived, ClientOk, SessionOk,
         SubjectOk, MintedOk, Completed, InSession, Looked, MayUseGrant, UriIsAccepted, GrantOf
<1>3. CASE pc' = [pc EXCEPT ![r] = "invalid_method"] /\ UNCHANGED session
  BY <1>0, <1>1, <1>3 DEF Working, Rejections, RequestOk, Arrived, ClientOk, SessionOk,
         SubjectOk, MintedOk, Completed, InSession, Looked, MayUseGrant, UriIsAccepted, GrantOf
<1>4. CASE pc' = [pc EXCEPT ![r] = "invalid_max_age"] /\ UNCHANGED session
  BY <1>0, <1>1, <1>4 DEF Working, Rejections, RequestOk, Arrived, ClientOk, SessionOk,
         SubjectOk, MintedOk, Completed, InSession, Looked, MayUseGrant, UriIsAccepted, GrantOf
<1>5. ASSUME NEW scopes \in SUBSET Scopes, ChallengeIsAccepted(r, scopes),
             session' = [session EXCEPT ![r] = SessionOf(r, scopes)],
             pc' = [pc EXCEPT ![r] = "session"]
      PROVE  Inv'
  <2>1. SessionOf(r, scopes) \in Session
    BY <1>0, <1>5, SessionOfType
  <2>2. TypeOK'
    BY <1>0, <1>5, <2>1
  <2>3. ClientOk(r) /\ client[r] # None
    BY <1>0 DEF RequestOk, ClientOk, Looked
  <2>4. /\ session'[r] # None /\ session'[r].uri = RedirectUriOf(r)
        /\ GrantOf(r) = "authorization_code" =>
             /\ AuthorizeAcceptsChallenge(session'[r].challenge, session'[r].method,
                                          RequiresPKCE, RequiresS256)
             /\ session'[r].challenge = None <=> session'[r].method = None
        /\ session'[r].maxAge =>
             GrantOf(r) = "authorization_code" /\ IsOpenIdScopeRequest(session'[r].scopes)
    <3>1. session'[r] = SessionOf(r, scopes) /\ SessionOf(r, scopes) # None
      BY <1>5, <2>1, ConstantsAssumption DEF ConstantsAssumption
    <3>2. GrantOf(r) = "authorization_code" /\ form[r].challenge # None => MethodOf(form[r]) # None
      BY ConstantsAssumption DEF ConstantsAssumption, MethodOf, Methods
    <3>3. form[r].challenge = None => MethodOf(form[r]) = None
      BY DEF MethodOf
    <3>. QED  BY <1>5, <3>1, <3>2, <3>3 DEF SessionOf, ChallengeIsAccepted
  <2>5. subject[r] = None /\ minted[r] = None /\ location[r] = None
    BY <1>0 DEF RequestOk, SubjectOk, MintedOk
  <2>6. RequestOk(r)'
    <3>1. Arrived(r)' /\ ClientOk(r)'
      BY <1>0, <1>5, <2>3 DEF RequestOk, Arrived, ClientOk, MayUseGrant, UriIsAccepted, GrantOf
    <3>2. SessionOk(r)'
      BY <1>0, <1>5, <2>3, <2>4 DEF SessionOk, Completed, GrantOf, RedirectUriOf
    <3>3. SubjectOk(r)' /\ MintedOk(r)'
      BY <1>0, <1>5, <2>5 DEF SubjectOk, MintedOk
    <3>. QED  BY <3>1, <3>2, <3>3 DEF RequestOk
  <2>. QED  BY <1>1, <2>2, <2>6
<1>. QED  BY <1>2, <1>3, <1>4, <1>5 DEF FinalizeScopes

LEMMA ConsentInv ==
  ASSUME Inv, NEW r \in Requests, NEW user \in Users \cup {None},
         NEW approved \in BOOLEAN, NEW authTime \in BOOLEAN,
         Consent(r, user, approved, authTime)
  PROVE  Inv'
<1>. USE DEF Inv, TypeOK
<1>0. /\ pc[r] = "session" /\ pc' = [pc EXCEPT ![r] = "complete"] /\ RequestOk(r)
      /\ session[r] \in Session
      /\ UNCHANGED <<registration, known, users, form, client, subject, minted, location, registered>>
  BY DEF Consent, RequestOk, SessionOk, InSession
<1>1. /\ session' \in [Requests -> Session \cup {None}]
      /\ session'[r] \in Session /\ session'[r] # None
      /\ \A q \in Requests \ {r} : session'[q] = session[q]
      /\ session'[r].uri = session[r].uri /\ session'[r].challenge = session[r].challenge
      /\ session'[r].method = session[r].method /\ session'[r].maxAge = session[r].maxAge
      /\ session'[r].scopes = session[r].scopes
  <2>. DEFINE new == [session[r] EXCEPT !.user = user, !.approved = approved,
                                        !.authTime = authTime]
  <2>1. session' = [session EXCEPT ![r] = new]
    BY DEF Consent
  <2>2. /\ new \in Session /\ new.uri = session[r].uri /\ new.challenge = session[r].challenge
        /\ new.method = session[r].method /\ new.maxAge = session[r].maxAge
        /\ new.scopes = session[r].scopes
    BY <1>0 DEF Session
  <2>3. new # None
    BY <2>2, ConstantsAssumption DEF ConstantsAssumption
  <2>. HIDE DEF new
  <2>. QED  BY <2>1, <2>2, <2>3
<1>2. TypeOK'
  BY <1>0, <1>1
<1>3. RequestOk(r)'
  <2>1. subject[r] = None /\ minted[r] = None /\ location[r] = None /\ session[r] # None
    BY <1>0 DEF RequestOk, SubjectOk, MintedOk, SessionOk, InSession
  <2>2. Arrived(r)' /\ ClientOk(r)' /\ SubjectOk(r)' /\ MintedOk(r)'
    BY <1>0, <2>1 DEF RequestOk, Arrived, ClientOk, SubjectOk, MintedOk, Looked, InSession, Completed,
                      MayUseGrant, UriIsAccepted, GrantOf
  <2>3. SessionOk(r)'
    BY <1>0, <1>1, <2>1 DEF RequestOk, SessionOk, InSession, Completed, RedirectUriOf, GrantOf
  <2>. QED  BY <2>2, <2>3 DEF RequestOk
<1>4. ASSUME NEW q \in Requests \ {r} PROVE RequestOk(q)'
  BY <1>0, <1>1, <1>4, Untouched DEF RequestOk, Arrived
<1>. QED  BY <1>2, <1>3, <1>4

LEMMA CompleteInv ==
  ASSUME Inv, NEW r \in Requests, Complete(r)
  PROVE  Inv'
<1>. USE DEF Inv, TypeOK
<1>0. /\ pc[r] = "complete" /\ RequestOk(r)
      /\ pc' = [pc EXCEPT ![r] = IF ~IsApproved(r) THEN "not_approved"
                                 ELSE IF ~KnowsAuthTime(r) THEN "no_auth_time"
                                 ELSE IF GrantOf(r) = "authorization_code" THEN "load"
                                 ELSE "persist"]
      /\ UNCHANGED <<registration, known, users, form, client, session, subject, minted, location,
                     registered>>
  BY DEF Complete
<1>1. TypeOK'
  BY <1>0 DEF Working, Rejections
<1>2. RequestOk(r)'
  <2>1. subject[r] = None /\ minted[r] = None /\ location[r] = None
    BY <1>0 DEF RequestOk, SubjectOk, MintedOk
  <2>2. Arrived(r)' /\ ClientOk(r)' /\ SubjectOk(r)' /\ MintedOk(r)'
    BY <1>0, <2>1 DEF RequestOk, Arrived, ClientOk, SubjectOk, MintedOk, Looked, InSession, Completed,
                      MayUseGrant, UriIsAccepted, GrantOf
  <2>3. SessionOk(r)'
    BY <1>0 DEF RequestOk, SessionOk, InSession, Completed, RedirectUriOf, GrantOf, IsApproved,
                KnowsAuthTime
  <2>. QED  BY <2>2, <2>3 DEF RequestOk
<1>3. ASSUME NEW q \in Requests \ {r} PROVE RequestOk(q)'
  BY <1>0, <1>3, Untouched DEF RequestOk, Arrived
<1>. QED  BY <1>1, <1>2, <1>3

LEMMA LoadUserInv ==
  ASSUME Inv, NEW r \in Requests, LoadUser(r)
  PROVE  Inv'
<1>. USE DEF Inv, TypeOK
<1>0. /\ pc[r] = "load" /\ pc' = [pc EXCEPT ![r] = "persist"] /\ RequestOk(r)
      /\ subject' = [subject EXCEPT ![r] = IF session[r].user \in users THEN session[r].user
                                                                      ELSE None]
      /\ UNCHANGED <<registration, known, users, form, client, session, minted, location,
                     registered>>
  BY DEF LoadUser
<1>1. session[r] # None /\ minted[r] = None /\ location[r] = None
  BY <1>0 DEF RequestOk, SessionOk, MintedOk, InSession, Completed
<1>2. TypeOK'
  BY <1>0 DEF Working
<1>3. RequestOk(r)'
  <2>1. Arrived(r)' /\ ClientOk(r)' /\ MintedOk(r)'
    BY <1>0, <1>1 DEF RequestOk, Arrived, ClientOk, MintedOk, Looked, InSession, Completed,
                      MayUseGrant, UriIsAccepted, GrantOf
  <2>2. SessionOk(r)'
    BY <1>0 DEF RequestOk, SessionOk, InSession, Completed, RedirectUriOf, GrantOf, IsApproved,
                KnowsAuthTime
  <2>3. SubjectOk(r)'
    BY <1>0, <1>1, ConstantsAssumption DEF ConstantsAssumption, SubjectOk
  <2>. QED  BY <2>1, <2>2, <2>3 DEF RequestOk
<1>4. ASSUME NEW q \in Requests \ {r} PROVE RequestOk(q)'
  BY <1>0, <1>4, Untouched DEF RequestOk, Arrived
<1>. QED  BY <1>2, <1>3, <1>4

\* The implicit grant mints for the user of the session; the code grant for
\* that user or, when the account is gone, for nobody.
LEMMA PersistInv ==
  ASSUME Inv, NEW r \in Requests, PersistCode(r) \/ PersistToken(r)
  PROVE  Inv'
<1>. USE DEF Inv, TypeOK
<1>1. PICK scopes \in SUBSET Scopes :
        LET user == IF form[r].response = "code" THEN subject[r] ELSE session[r].user
        IN  /\ minted' = [minted EXCEPT ![r] = MintedFor(r, form[r].response, user, scopes)]
            /\ form[r].response = "code" => scopes = session[r].scopes
  <2>1. session[r] \in Session
    BY DEF PersistCode, PersistToken, RequestOk, SessionOk, InSession, Completed
  <2>. QED  BY <2>1 DEF PersistCode, PersistToken, CodeScopes, Session
<1>2. /\ pc[r] = "persist" /\ pc' = [pc EXCEPT ![r] = "redirect"] /\ RequestOk(r)
      /\ UNCHANGED <<registration, known, users, form, client, session, subject, location, registered>>
  BY DEF PersistCode, PersistToken
<1>3. session[r] \in Session /\ session[r] # None /\ IsApproved(r) /\ KnowsAuthTime(r)
      /\ form[r] \in Form /\ location[r] = None
  BY <1>2, InputIsForm, ConstantsAssumption
     DEF ConstantsAssumption, RequestOk, SessionOk, MintedOk, InSession, Completed, Arrived
<1>. DEFINE user == IF form[r].response = "code" THEN subject[r] ELSE session[r].user
<1>4. MintedFor(r, form[r].response, user, scopes) \in Minted
  BY <1>3 DEF MintedFor, Minted, Session, Form, IsApproved
<1>5. TypeOK'
  BY <1>1, <1>2, <1>4 DEF Working
<1>6. RequestOk(r)'
  <2>1. Arrived(r)' /\ ClientOk(r)'
    BY <1>2 DEF RequestOk, Arrived, ClientOk, Looked, InSession, Completed, MayUseGrant,
                UriIsAccepted, GrantOf
  <2>2. SessionOk(r)'
    BY <1>2 DEF RequestOk, SessionOk, InSession, Completed, RedirectUriOf, GrantOf, IsApproved,
                KnowsAuthTime
  <2>3. SubjectOk(r)'
    BY <1>2 DEF RequestOk, SubjectOk
  <2>4. /\ user \in {session[r].user, None}
        /\ user = None => form[r].response = "code" /\ session[r].user \notin users
    BY <1>2, <1>3 DEF RequestOk, SubjectOk, IsApproved, Form
  <2>5. MintedOk(r)'
    BY <1>1, <1>2, <1>3, <2>4 DEF MintedOk, MintedFor, IsApproved, KnowsAuthTime, GrantOf
  <2>. QED  BY <2>1, <2>2, <2>3, <2>5 DEF RequestOk
<1>7. ASSUME NEW q \in Requests \ {r} PROVE RequestOk(q)'
  BY <1>1, <1>2, <1>7, Untouched DEF RequestOk, Arrived
<1>. QED  BY <1>5, <1>6, <1>7

LEMMA RedirectInv ==
  ASSUME Inv, NEW r \in Requests, Redirect(r)
  PROVE  Inv'
<1>. USE DEF Inv, TypeOK
<1>0. /\ pc[r] = "redirect" /\ pc' = [pc EXCEPT ![r] = "redirected"] /\ RequestOk(r)
      /\ location' = [location EXCEPT ![r] = session[r].uri]
      /\ UNCHANGED <<registration, known, users, form, client, session, subject, minted, registered>>
  BY DEF Redirect
<1>1. session[r] \in Session /\ session[r] # None
  BY <1>0, ConstantsAssumption
     DEF ConstantsAssumption, RequestOk, SessionOk, InSession, Completed
<1>2. TypeOK'
  BY <1>0, <1>1 DEF Session
<1>3. RequestOk(r)'
  <2>1. Arrived(r)' /\ ClientOk(r)'
    BY <1>0 DEF RequestOk, Arrived, ClientOk, Looked, InSession, Completed, MayUseGrant,
                UriIsAccepted, GrantOf
  <2>2. SessionOk(r)'
    BY <1>0 DEF RequestOk, SessionOk, InSession, Completed, RedirectUriOf, GrantOf, IsApproved,
                KnowsAuthTime
  <2>3. SubjectOk(r)' /\ MintedOk(r)'
    BY <1>0, <1>1 DEF RequestOk, SubjectOk, MintedOk, IsApproved, KnowsAuthTime, GrantOf
  <2>. QED  BY <2>1, <2>2, <2>3 DEF RequestOk
<1>4. ASSUME NEW q \in Requests \ {r} PROVE RequestOk(q)'
  BY <1>0, <1>4, Untouched DEF RequestOk, Arrived
<1>. QED  BY <1>2, <1>3, <1>4

LEMMA FailInv ==
  ASSUME Inv, NEW r \in Requests, Fail(r)
  PROVE  Inv'
<1>. USE DEF Inv, TypeOK
<1>0. /\ pc[r] \in Working /\ RequestOk(r)
      /\ pc' = [pc EXCEPT ![r] = IF pc[r] = "lookup" THEN "invalid_client" ELSE "failed"]
      /\ UNCHANGED <<registration, known, users, form, client, session, subject, minted, location,
                     registered>>
  BY DEF Fail
<1>1. TypeOK'
  BY <1>0 DEF Rejections
<1>2. RequestOk(r)'
  <2>1. Arrived(r)' /\ ClientOk(r)'
    BY <1>0 DEF RequestOk, Arrived, ClientOk, Looked, InSession, Completed, MayUseGrant,
                UriIsAccepted, GrantOf, Working
  <2>2. SessionOk(r)'
    BY <1>0 DEF RequestOk, SessionOk, ClientOk, InSession, Completed, RedirectUriOf, GrantOf,
                Working
  <2>3. SubjectOk(r)' /\ MintedOk(r)'
    BY <1>0 DEF RequestOk, SubjectOk, MintedOk, IsApproved, KnowsAuthTime, GrantOf, Working
  <2>. QED  BY <2>1, <2>2, <2>3 DEF RequestOk
<1>3. ASSUME NEW q \in Requests \ {r} PROVE RequestOk(q)'
  BY <1>0, <1>3, Untouched DEF RequestOk, Arrived
<1>. QED  BY <1>1, <1>2, <1>3

LEMMA ReregisterInv ==
  ASSUME Inv, NEW c \in Clients, NEW reg \in Registrations, Reregister(c, reg)
  PROVE  Inv'
<1>. USE DEF Inv, TypeOK
<1>1. reg.uris \subseteq UriString
  BY RegistrationType
<1>2. TypeOK'
  BY <1>1 DEF Reregister
<1>3. ASSUME NEW q \in Requests PROVE RequestOk(q)'
  <2>1. registered[q] \subseteq registered'[q]
    BY DEF Reregister
  <2>2. pc[q] # "idle" => registration'[form[q].client].uris \subseteq registered'[q]
    <3>1. SUFFICES ASSUME pc[q] # "idle"
                   PROVE  registration'[form[q].client].uris \subseteq registered'[q]
      OBVIOUS
    <3>2. form[q] \in Form /\ form[q] # None /\ form[q].client \in Clients
          /\ registration[form[q].client].uris \subseteq registered[q]
      BY <3>1, InputIsForm DEF RequestOk, Arrived, Form
    <3>3. CASE form[q].client = c
      BY <3>2, <3>3 DEF Reregister
    <3>4. CASE form[q].client # c
      BY <2>1, <3>2, <3>4 DEF Reregister
    <3>. QED  BY <3>3, <3>4
  <2>. QED  BY <2>1, <2>2, Untouched DEF Reregister
<1>. QED  BY <1>2, <1>3

LEMMA NextInv == Inv /\ [Next]_vars => Inv'
<1>. SUFFICES ASSUME Inv, [Next]_vars PROVE Inv'
  OBVIOUS
<1>1. CASE \E r \in Requests, f \in Inputs : Arrive(r, f)
  BY <1>1, ArriveInv
<1>2. CASE \E r \in Requests : Step(r) \/ Fail(r)
  BY <1>2, LookupClientInv, ValidateScopesInv, FinalizeScopesInv, CompleteInv, LoadUserInv,
     PersistInv, RedirectInv, FailInv DEF Step
<1>3. CASE \E r \in Requests, u \in users \cup {None}, approved, authTime \in BOOLEAN :
             Consent(r, u, approved, authTime)
  BY <1>3, ConsentInv DEF Inv, TypeOK
<1>4. CASE \E c \in Clients, reg \in Registrations : Reregister(c, reg)
  BY <1>4, ReregisterInv
<1>5. CASE (\E scopes \in ScopeRegistries : ChangeScopes(scopes)) \/ UNCHANGED vars
  <2>1. /\ UNCHANGED <<registration, users, pc, form, client, session, subject, minted, location,
                     registered>>
        /\ known' \in ScopeRegistries
    BY <1>5 DEF ChangeScopes, vars, Inv, TypeOK
  <2>2. TypeOK'
    BY <2>1 DEF Inv, TypeOK
  <2>3. ASSUME NEW q \in Requests PROVE RequestOk(q)'
    BY <2>1, Untouched DEF Inv, RequestOk, Arrived
  <2>. QED  BY <2>2, <2>3 DEF Inv
<1>6. CASE \E u \in users : DeleteUser(u)
  <2>1. /\ UNCHANGED <<registration, known, pc, form, client, session, subject, minted, location,
                       registered>>
        /\ users' \subseteq users
    BY <1>6 DEF DeleteUser
  <2>2. TypeOK'
    BY <2>1 DEF Inv, TypeOK
  <2>3. ASSUME NEW q \in Requests PROVE RequestOk(q)'
    BY <2>1, Untouched DEF Inv, RequestOk, Arrived
  <2>. QED  BY <2>2, <2>3 DEF Inv
<1>. QED  BY <1>1, <1>2, <1>3, <1>4, <1>5, <1>6 DEF Next

\* Every variable keeps its type, and each request and session has what the
\* checks behind it established.
THEOREM InvInvariant == Spec => []Inv
  BY InitInv, NextInv, PTL DEF Spec

-----------------------------------------------------------------------------
\* A browser is sent with a code or a token only to a place its client has
\* been registered with since the request arrived, and with a token only for
\* a client that held the implicit grant: whoever changes the registration
\* while the user decides.
THEOREM FrontChannelGuarded == Spec => []FrontChannelIsGuarded
<1>1. ASSUME Inv PROVE FrontChannelIsGuarded
  <2>1. ASSUME NEW r \in Requests, location[r] # None
        PROVE  \E uri \in registered[r] : SamePlace(location[r], uri)
    <3>1. /\ pc[r] # "idle" /\ session[r] # None /\ location[r] = RedirectUriOf(r)
          /\ client[r] # None /\ client[r] \in Registrations
          /\ client[r].uris \subseteq registered[r] /\ UriIsAccepted(r, client[r])
      BY <1>1, <2>1 DEF Inv, TypeOK, RequestOk, MintedOk, SessionOk, ClientOk
    <3>2. form[r] \in Form
      BY <1>1, <3>1, InputIsForm DEF Inv, RequestOk, Arrived
    <3>. QED  BY <3>1, <3>2, AcceptedUriIsRegistered DEF UriIsAccepted, RedirectUriOf
  <2>2. ASSUME NEW r \in Requests, minted[r] # None, minted[r].what = "token"
        PROVE  "implicit" \in client[r].grants
    BY <1>1, <2>2 DEF Inv, RequestOk, MintedOk, SessionOk, ClientOk, MayUseGrant, GrantOf
  <2>. QED  BY <2>1, <2>2 DEF FrontChannelIsGuarded, DeliveredWhereRegistered,
                              ImplicitIsForItsClients
<1>. QED  BY <1>1, InvInvariant, PTL

\* Whatever the finalize hook answers and the registry says: what is minted
\* was approved by the user it names, a code has the scopes they saw, and it
\* names nobody only when that account was closed before it was stored.
THEOREM ConsentKept == Spec => []ConsentIsKept
<1>1. Inv => ConsentIsKept
  BY DEF Inv, RequestOk, MintedOk, IsApproved, ConsentIsKept
<1>. QED  BY <1>1, InvInvariant, PTL

\* A code in storage has the challenge the options demand, with its method,
\* and the authentication time its max_age will be measured from.
THEOREM CodesAreJudgeable == Spec => []CodesCanBeJudged
<1>1. ASSUME Inv, NEW r \in Requests, minted[r] # None
      PROVE  /\ minted[r].what = "code" =>
                  /\ RequiresPKCE => minted[r].challenge # None
                  /\ minted[r].challenge = None <=> minted[r].method = None
                  /\ RequiresS256 /\ minted[r].challenge # None => minted[r].method = "S256"
             /\ minted[r].maxAge => minted[r].authTime
  <2>1. MintedOk(r) /\ SessionOk(r)
    BY <1>1 DEF Inv, RequestOk
  <2>2. minted[r].what = "code" => GrantOf(r) = "authorization_code"
    BY <1>1, <2>1 DEF MintedOk, GrantOf
  <2>3. minted[r].what = "code" =>
          AuthorizeAcceptsChallenge(minted[r].challenge, minted[r].method, RequiresPKCE, RequiresS256)
          /\ (minted[r].challenge = None <=> minted[r].method = None)
    BY <1>1, <2>1, <2>2 DEF MintedOk, SessionOk
  <2>4. minted[r].maxAge => minted[r].authTime
    BY <1>1, <2>1 DEF MintedOk, SessionOk, KnowsAuthTime
  <2>. QED  BY <2>3, <2>4 DEF AuthorizeAcceptsChallenge
<1>2. Inv => CodesCanBeJudged
  BY <1>1 DEF CodesCanBeJudged, CodesAreBound, FreshnessIsDecidable
<1>. QED  BY <1>2, InvInvariant, PTL
=============================================================================
