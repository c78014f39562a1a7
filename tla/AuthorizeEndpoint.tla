-------------------------- MODULE AuthorizeEndpoint --------------------------
(***************************************************************************)
(* /authorize, for the authorization code and the implicit grant:          *)
(* validateAuthorizationRequest, the session in which the application      *)
(* authenticates the end user and asks for consent, and                    *)
(* completeAuthorizationRequest.  Both halves await repositories, and      *)
(* between them minutes may pass: the client may be registered anew, lose  *)
(* its grants, the scope registry may change, or the user may be deleted,  *)
(* whom the code grant looks up once more before it stores a code.         *)
(***************************************************************************)
EXTENDS Naturals, FiniteSets, ScopeRules, RedirectUris, Pkce

CONSTANTS
  Requests, Clients, Users,
  Inputs,            \* authorization requests that get sent, a set of Forms
  Registrations,     \* what a client may be registered as
  ScopeRegistries,   \* what the scope repository may know
  RequiresPKCE, RequiresS256

\* redirectUris, the first of which is the default, and allowedGrants.
Registration == [uris : SUBSET UriString, first : UriString \cup {None},
                 grants : SUBSET {"authorization_code", "implicit"}]

\* max_age is missing, a non-negative integer, or something else.
Form == [response : {"code", "token"}, client : Clients,
         uri : UriString \cup {None}, scopes : SUBSET Scopes,
         challenge : ChallengeStrings \cup {None},
         method : Methods \cup {None, "other"},
         nonce : BOOLEAN, maxAge : {"none", "valid", "invalid"}]

\* An AuthorizationRequest.
Session == [uri : UriString, scopes : SUBSET Scopes,
            challenge : ChallengeStrings \cup {None}, method : Methods \cup {None},
            nonce : BOOLEAN, maxAge : BOOLEAN, authTime : BOOLEAN,
            user : Users \cup {None}, approved : BOOLEAN]

\* What completing it stores: a code or an access token.
Minted == [what : {"code", "token"}, client : Clients, user : Users \cup {None},
           scopes : SUBSET Scopes, challenge : ChallengeStrings \cup {None},
           method : Methods \cup {None}, nonce : BOOLEAN, maxAge : BOOLEAN,
           authTime : BOOLEAN]

Working == {"lookup", "scopes", "finalize", "load", "persist", "redirect"}
Rejections == {"invalid_client", "unauthorized_client", "invalid_redirect_uri",
               "invalid_scope", "invalid_challenge", "invalid_method",
               "invalid_max_age", "not_approved", "no_auth_time", "failed"}

ASSUME ConstantsAssumption ==
  /\ Inputs \subseteq Form
  /\ Registrations \subseteq Registration
  /\ \A g \in Registrations : IF g.uris = {} THEN g.first = None ELSE g.first \in g.uris
  /\ ScopeRegistries \subseteq SUBSET Scopes
  /\ {RequiresPKCE, RequiresS256} \subseteq BOOLEAN
  /\ None \notin Form \cup Session \cup Minted \cup Registration
                   \cup UriString \cup Users \cup Methods

VARIABLES
  registration,   \* clientRepository
  known,          \* scopeRepository
  users,          \* userRepository: the users there still are
  pc, form,       \* where each request is, and its parameters
  client,         \* the registration it read
  session,        \* its AuthorizationRequest
  subject,        \* the user a code is about to be stored for
  minted,         \* what it stored
  location,       \* where the browser was sent with a code or token
  registered      \* history: the URIs its client had since it arrived

vars == <<registration, known, users, pc, form, client, session, subject, minted, location,
          registered>>

Init ==
  /\ registration \in [Clients -> Registrations]
  /\ known \in ScopeRegistries
  /\ users = Users
  /\ pc = [r \in Requests |-> "idle"]
  /\ form = [r \in Requests |-> None]
  /\ client = [r \in Requests |-> None]
  /\ session = [r \in Requests |-> None]
  /\ subject = [r \in Requests |-> None]
  /\ minted = [r \in Requests |-> None]
  /\ location = [r \in Requests |-> None]
  /\ registered = [r \in Requests |-> {}]

-----------------------------------------------------------------------------
Goto(r, label) == pc' = [pc EXCEPT ![r] = label]

GrantOf(r) == IF form[r].response = "code" THEN "authorization_code" ELSE "implicit"

Arrive(r, f) ==
  /\ pc[r] = "idle"
  /\ form' = [form EXCEPT ![r] = f]
  /\ registered' = [registered EXCEPT ![r] = registration[f.client].uris]
  /\ Goto(r, "lookup")
  /\ UNCHANGED <<registration, known, users, client, session, subject, minted, location>>

\* Only the implicit grant asks; a code's client is asked at /token.
MayUseGrant(r, reg) == GrantOf(r) = "implicit" => "implicit" \in reg.grants

\* getRedirectUri: a request without one needs a client with exactly one.
UriIsAccepted(r, reg) ==
  IF form[r].uri = None THEN Cardinality(reg.uris) = 1
                        ELSE IsAcceptable(form[r].uri, reg.uris)

\* getByIdentifier, and what is judged from the client at once.
LookupClient(r) ==
  LET reg == registration[form[r].client]
  IN  /\ pc[r] = "lookup"
      /\ \/ /\ MayUseGrant(r, reg) /\ UriIsAccepted(r, reg)
            /\ client' = [client EXCEPT ![r] = reg]
            /\ Goto(r, "scopes")
         \/ /\ ~MayUseGrant(r, reg) \/ ~UriIsAccepted(r, reg)
            /\ Goto(r, IF MayUseGrant(r, reg) THEN "invalid_redirect_uri"
                                              ELSE "unauthorized_client")
            /\ UNCHANGED client
      /\ UNCHANGED <<registration, known, users, form, session, subject, minted, location,
                     registered>>

ValidateScopes(r) ==
  /\ pc[r] = "scopes"
  /\ Goto(r, IF ScopesAreValid(form[r].scopes, known, GrantOf(r))
               THEN "finalize" ELSE "invalid_scope")
  /\ UNCHANGED <<registration, known, users, form, client, session, subject, minted, location,
                 registered>>

\* The method a challenge counts with; a challenge without one is plain.
MethodOf(f) ==
  IF f.challenge = None THEN None
  ELSE IF f.method = None THEN "plain" ELSE f.method

\* Mutant: a client that sends no challenge goes without PKCE.
ChallengeIsAccepted_WhenSent(r, scopes) ==
  form[r].challenge # None =>
    AuthorizeAcceptsChallenge(form[r].challenge, MethodOf(form[r]), RequiresPKCE, RequiresS256)

ChallengeIsAccepted(r, scopes) ==
  GrantOf(r) = "authorization_code" =>
    AuthorizeAcceptsChallenge(form[r].challenge, MethodOf(form[r]), RequiresPKCE, RequiresS256)

MaxAgeIsAccepted(r, scopes) ==
  GrantOf(r) = "authorization_code" /\ IsOpenIdScopeRequest(scopes)
    => form[r].maxAge # "invalid"

RedirectUriOf(r) == IF form[r].uri = None THEN client[r].first ELSE form[r].uri

\* The AuthorizationRequest; OIDC parameters count for openid requests only,
\* PKCE ones for the authorization code grant.
SessionOf(r, scopes) ==
  LET oidc == GrantOf(r) = "authorization_code" /\ IsOpenIdScopeRequest(scopes)
      code == GrantOf(r) = "authorization_code"
  IN  [uri |-> RedirectUriOf(r),
       scopes |-> scopes,
       challenge |-> IF code THEN form[r].challenge ELSE None,
       method |-> IF code THEN MethodOf(form[r]) ELSE None,
       nonce |-> oidc /\ form[r].nonce,
       maxAge |-> oidc /\ form[r].maxAge = "valid",
       authTime |-> FALSE, user |-> None, approved |-> FALSE]

\* The finalize hook may return any scopes; the rest follows in one stretch.
FinalizeScopes(r) ==
  /\ pc[r] = "finalize"
  /\ \E scopes \in SUBSET Scopes :
       CASE ~ChallengeIsAccepted(r, scopes) ->
              /\ Goto(r, IF form[r].challenge = None THEN "invalid_challenge"
                                                     ELSE "invalid_method")
              /\ UNCHANGED session
         [] ~MaxAgeIsAccepted(r, scopes) /\ ChallengeIsAccepted(r, scopes) ->
              /\ Goto(r, "invalid_max_age")
              /\ UNCHANGED session
         [] OTHER ->
              /\ session' = [session EXCEPT ![r] = SessionOf(r, scopes)]
              /\ Goto(r, "session")
  /\ UNCHANGED <<registration, known, users, form, client, subject, minted, location, registered>>

-----------------------------------------------------------------------------
\* The application logs the user in and takes the answer of the consent form.
Consent(r, user, approved, authTime) ==
  /\ pc[r] = "session"
  /\ session' = [session EXCEPT ![r].user = user, ![r].approved = approved,
                                ![r].authTime = authTime]
  /\ Goto(r, "complete")
  /\ UNCHANGED <<registration, known, users, form, client, subject, minted, location, registered>>

KnowsAuthTime(r) ==
  GrantOf(r) = "authorization_code" /\ IsOpenIdScopeRequest(session[r].scopes)
    /\ session[r].maxAge => session[r].authTime

IsApproved(r) == session[r].user # None /\ session[r].approved

\* The checks of completeAuthorizationRequest.
Complete(r) ==
  /\ pc[r] = "complete"
  /\ Goto(r, IF ~IsApproved(r) THEN "not_approved"
             ELSE IF ~KnowsAuthTime(r) THEN "no_auth_time"
             ELSE IF GrantOf(r) = "authorization_code" THEN "load" ELSE "persist")
  /\ UNCHANGED <<registration, known, users, form, client, session, subject, minted, location,
                 registered>>

\* issueAuthCode asks getUserByCredentials for the user it knows the id of,
\* and goes on without one when nobody has it any more.
LoadUser(r) ==
  /\ pc[r] = "load"
  /\ subject' = [subject EXCEPT ![r] = IF session[r].user \in users THEN session[r].user
                                                                  ELSE None]
  /\ Goto(r, "persist")
  /\ UNCHANGED <<registration, known, users, form, client, session, minted, location, registered>>

MintedFor(r, what, user, scopes) ==
  [what |-> what, client |-> form[r].client, user |-> user,
   scopes |-> scopes, challenge |-> session[r].challenge, method |-> session[r].method,
   nonce |-> session[r].nonce, maxAge |-> session[r].maxAge,
   authTime |-> session[r].authTime]

\* Mutant: the code takes the scopes that were asked for.
CodeScopes_AsAsked(r) == form[r].scopes

CodeScopes(r) == session[r].scopes

\* issueAuthCode stores the code for the user it found, if any.
PersistCode(r) ==
  /\ pc[r] = "persist" /\ form[r].response = "code"
  /\ minted' = [minted EXCEPT ![r] = MintedFor(r, "code", subject[r], CodeScopes(r))]
  /\ Goto(r, "redirect")
  /\ UNCHANGED <<registration, known, users, form, client, session, subject, location, registered>>

\* finalize, asked once more, now with the user of the session, whom nobody
\* looks up again; then issueAccessToken.
PersistToken(r) ==
  /\ pc[r] = "persist" /\ form[r].response = "token"
  /\ \E scopes \in SUBSET Scopes :
       minted' = [minted EXCEPT ![r] = MintedFor(r, "token", session[r].user, scopes)]
  /\ Goto(r, "redirect")
  /\ UNCHANGED <<registration, known, users, form, client, session, subject, location, registered>>

Redirect(r) ==
  /\ pc[r] = "redirect"
  /\ location' = [location EXCEPT ![r] = session[r].uri]
  /\ Goto(r, "redirected")
  /\ UNCHANGED <<registration, known, users, form, client, session, subject, minted, registered>>

\* An await rejects: an unknown client, a hook that throws, storage.
Fail(r) ==
  /\ pc[r] \in Working
  /\ Goto(r, IF pc[r] = "lookup" THEN "invalid_client" ELSE "failed")
  /\ UNCHANGED <<registration, known, users, form, client, session, subject, minted, location,
                 registered>>

-----------------------------------------------------------------------------
\* The owner of the server changes a client.
Reregister(c, reg) ==
  /\ registration' = [registration EXCEPT ![c] = reg]
  /\ registered' = [r \in Requests |->
                      IF form[r] # None /\ form[r].client = c
                        THEN registered[r] \cup reg.uris ELSE registered[r]]
  /\ UNCHANGED <<known, users, pc, form, client, session, subject, minted, location>>

\* The scopes known to scopeRepository change.
ChangeScopes(scopes) ==
  /\ known' = scopes
  /\ UNCHANGED <<registration, users, pc, form, client, session, subject, minted, location,
                 registered>>

\* An account is closed.
DeleteUser(u) ==
  /\ users' = users \ {u}
  /\ UNCHANGED <<registration, known, pc, form, client, session, subject, minted, location,
                 registered>>

Step(r) ==
  \/ LookupClient(r) \/ ValidateScopes(r) \/ FinalizeScopes(r)
  \/ Complete(r) \/ LoadUser(r) \/ PersistCode(r) \/ PersistToken(r) \/ Redirect(r)

Next ==
  \/ \E r \in Requests, f \in Inputs : Arrive(r, f)
  \/ \E r \in Requests : Step(r) \/ Fail(r)
  \/ \E r \in Requests, u \in users \cup {None}, approved, authTime \in BOOLEAN :
       Consent(r, u, approved, authTime)
  \/ \E c \in Clients, reg \in Registrations : Reregister(c, reg)
  \/ \E scopes \in ScopeRegistries : ChangeScopes(scopes)
  \/ \E u \in users : DeleteUser(u)

Spec == Init /\ [][Next]_vars

-----------------------------------------------------------------------------
(***************************************************************************)
(* Properties.                                                             *)
(***************************************************************************)

\* Every variable has its type.
TypeOK ==
  /\ registration \in [Clients -> Registrations]
  /\ known \in ScopeRegistries
  /\ users \subseteq Users
  /\ pc \in [Requests -> {"idle", "session", "complete", "redirected"}
                            \cup Working \cup Rejections]
  /\ form \in [Requests -> Inputs \cup {None}]
  /\ client \in [Requests -> Registrations \cup {None}]
  /\ session \in [Requests -> Session \cup {None}]
  /\ subject \in [Requests -> Users \cup {None}]
  /\ minted \in [Requests -> Minted \cup {None}]
  /\ location \in [Requests -> UriString \cup {None}]
  /\ registered \in [Requests -> SUBSET UriString]

\* A browser carries a code or token only to a place its client registered:
\* the very URL, or for a loopback one another port of it, and one that was
\* registered when the request arrived or since.
DeliveredWhereRegistered ==
  \A r \in Requests : location[r] # None =>
    \E uri \in registered[r] : SamePlace(location[r], uri)

\* Only clients that held the implicit grant when their request was looked up
\* get a token through the browser: enabling the grant for one of them does
\* not enable it for all.
ImplicitIsForItsClients ==
  \A r \in Requests :
    minted[r] # None /\ minted[r].what = "token" => "implicit" \in client[r].grants

\* What a browser carries goes where it may, for a client that may have it,
\* although the registration is read once and may change in mid-session.
FrontChannelIsGuarded == DeliveredWhereRegistered /\ ImplicitIsForItsClients

\* Nothing is stored for a user other than the one who approved.  A code
\* carries just the scopes the consent form showed, whatever the hook and the
\* registry did, and is stored for nobody only if the account it was approved
\* from has been closed since; a token always names its user.
ConsentIsKept ==
  \A r \in Requests : minted[r] # None =>
    /\ session[r].approved /\ session[r].user # None
    /\ minted[r].user \in {session[r].user, None}
    /\ minted[r].user = None => minted[r].what = "code" /\ session[r].user \notin users
    /\ minted[r].what = "code" => minted[r].scopes = session[r].scopes

\* Under requiresPKCE every code is bound to a challenge of a method the
\* server takes, so nobody redeems a code without a verifier.
CodesAreBound ==
  \A r \in Requests : minted[r] # None /\ minted[r].what = "code" =>
    /\ RequiresPKCE => minted[r].challenge # None
    /\ minted[r].challenge = None <=> minted[r].method = None
    /\ RequiresS256 /\ minted[r].challenge # None => minted[r].method = "S256"

\* A code that will be judged by max_age has the time to judge it from; the
\* two come from different parties, at different moments.
FreshnessIsDecidable ==
  \A r \in Requests : minted[r] # None /\ minted[r].maxAge => minted[r].authTime

\* What /token will judge a code by is settled when the code is stored: its
\* challenge, and the time of the authentication behind it.
CodesCanBeJudged == CodesAreBound /\ FreshnessIsDecidable
=============================================================================
