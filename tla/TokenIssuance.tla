---------------------------- MODULE TokenIssuance ----------------------------
(***************************************************************************)
(* What the grants of /token share: client authentication from the body    *)
(* and the Basic header, which introspection and revocation need as well,  *)
(* the recognition of scopes, and who a token is issued to.  The grants run beside each other while clients and scopes   *)
(* are registered anew.  The races on one code or one refresh token are    *)
(* AuthCodeGrant's and RefreshTokenGrant's; here a redemption only brings  *)
(* the scopes of its code along, and a refresh presents a token that an    *)
(* earlier request was issued.                                             *)
(***************************************************************************)
EXTENDS Naturals, Sequences, FiniteSets, Absence, ScopeRules

CONSTANTS
  Requests, Clients, Users, Secrets,
  HeadOf,            \* a secret up to its first colon
  Inputs,            \* requests that get sent, a set of Forms
  Registrations,     \* what a client may be registered as
  ScopeRegistries,   \* what the scope repository may know
  IntrospectionRequiresConfidentialClient

Grants == {"client_credentials", "password", "token_exchange",
           "authorization_code", "refresh_token"}

Registration == [secret : Secrets \cup {None}, grants : SUBSET Grants]

Basic == [id : Clients, secret : Secrets]

\* What a client authenticates for besides a grant: to introspect a token, to
\* revoke one, and to revoke an authorization code (token_type_hint=auth_code).
\* authenticateIntrospect and authenticateRevoke are on, as by default.
Purposes == {"introspect", "revoke", "revoke_code"}

\* `grant` is the grant or the purpose, `token` the request whose refresh token
\* is presented.
Form == [grant : Grants \cup Purposes,
         id : Clients \cup {None}, secret : Secrets \cup {None},
         basic : Basic \cup {None},
         scopes : (SUBSET Scopes) \cup {None}, token : Requests \cup {None}]

Row == [client : Clients, user : Users \cup {None}, scopes : SUBSET Scopes,
        refreshable : BOOLEAN, alive : BOOLEAN]

\* The awaits of each handler, in order, after the client's.  What introspection
\* and revocation do then is TokenEndpoints'.
Route(grant) ==
  CASE grant = "client_credentials" -> <<"scopes", "finalize", "persist">>
    [] grant = "token_exchange"     -> <<"scopes", "exchange", "finalize", "persist">>
    [] grant = "refresh_token"      -> <<"old", "scopes", "finalize", "revoke", "persist", "refresh">>
    [] grant \in Purposes           -> << >>
    [] OTHER                        -> <<"user", "scopes", "finalize", "persist", "refresh">>

Stages == {"client", "valid", "user", "exchange", "old", "scopes", "finalize",
           "revoke", "persist", "refresh"}

\* Where a request has nothing left to do.
Rest == {<<"idle">>, << >>, <<"failed">>, <<"invalid_client">>, <<"invalid_grant">>,
         <<"invalid_scope">>, <<"invalid_token">>}

ASSUME ConstantsAssumption ==
  /\ HeadOf \in [Secrets -> Secrets]
  /\ Inputs \subseteq Form
  /\ \A f \in Inputs : /\ f.id # None \/ f.basic # None
                       /\ f.grant = "refresh_token" <=> f.token # None
  /\ Registrations \subseteq Registration
  /\ ScopeRegistries \subseteq SUBSET Scopes
  /\ IntrospectionRequiresConfidentialClient \in BOOLEAN
  /\ None \notin Row \cup Form \cup Registration \cup Users \cup Requests
                   \cup Secrets \cup Clients \cup Basic

VARIABLES
  registration,   \* clientRepository
  known,          \* scopeRepository
  row,            \* tokenRepository: the token each request was issued
  left,           \* the awaits each request has before it, or how it ended
  form,           \* its parameters
  account,        \* the client it read
  subject,        \* its user
  granted,        \* its scopes
  entitled,       \* history: its credentials were good since it arrived
  steady,         \* history: ... and its client did not change since
  everKnown,      \* history: scopes that were ever registered
  added,          \* history: scopes the finalize hook put in unasked
  origin          \* history: the request that began the line of a token

vars == <<registration, known, row, left, form, account, subject, granted,
          entitled, steady, everKnown, added, origin>>
request == <<form, account, subject, granted>>
world   == <<registration, known, everKnown>>
history == <<entitled, steady>>
lineage == <<added, origin>>

Init ==
  /\ registration \in [Clients -> Registrations]
  /\ known \in ScopeRegistries
  /\ row = [r \in Requests |-> None]
  /\ left = [r \in Requests |-> <<"idle">>]
  /\ form = [r \in Requests |-> None]
  /\ account = [r \in Requests |-> None]
  /\ subject = [r \in Requests |-> None]
  /\ granted = [r \in Requests |-> {}]
  /\ entitled = {}
  /\ steady = {}
  /\ everKnown = known
  /\ added = [r \in Requests |-> {}]
  /\ origin = [r \in Requests |-> None]

-----------------------------------------------------------------------------
Await(r, stage) == left[r] # << >> /\ left[r][1] = stage
Continue(r) == left' = [left EXCEPT ![r] = Tail(@)]
End(r, how) == left' = [left EXCEPT ![r] = <<how>>]

\* getClientCredentials: the body first, the Basic header where the body has
\* nothing, and of the header's secret what stands before its next colon.
ClientId(f) == IF f.id # None THEN f.id ELSE f.basic.id

ClientSecret(f) ==
  IF f.secret # None THEN f.secret
  ELSE IF f.basic # None THEN HeadOf[f.basic.secret] ELSE None

\* The secrets a request can be said to bring: what the code drops of the
\* header's is neither held against it nor counted in its favour.
SentSecrets(f) ==
  IF f.secret # None THEN {f.secret}
  ELSE IF f.basic # None THEN {f.basic.secret, HeadOf[f.basic.secret]} ELSE {}

\* What a client must be registered for.  A code is revoked by clients of its
\* grant; for revoking or introspecting a token any grant will do, and
\* introspection may be kept to confidential clients.
IsRegisteredFor(reg, grant) ==
  CASE grant = "revoke_code" -> "authorization_code" \in reg.grants
    [] grant = "revoke"      -> reg.grants # {}
    [] grant = "introspect"  ->
         /\ reg.grants # {}
         /\ IntrospectionRequiresConfidentialClient => reg.secret # None
    [] OTHER                 -> grant \in reg.grants

\* The credentials are good: the client's secret was sent, if it has one, and
\* the client is registered for what it wants.
Good(f, regs) ==
  LET reg == regs[ClientId(f)]
  IN  /\ reg.secret = None \/ reg.secret \in SentSecrets(f)
      /\ IsRegisteredFor(reg, f.grant)

Arrive(r, f) ==
  /\ left[r] = <<"idle">>
  /\ f.token # None => row[f.token] # None
  /\ form' = [form EXCEPT ![r] = f]
  /\ left' = [left EXCEPT ![r] = <<"client", "valid">> \o Route(f.grant)]
  /\ entitled' = IF Good(f, registration) THEN entitled \cup {r} ELSE entitled
  /\ steady' = steady \cup {r}
  /\ UNCHANGED <<world, row, account, subject, granted, lineage>>

\* getByIdentifier; a confidential client must have sent some secret.
LookupClient(r) ==
  LET reg == registration[ClientId(form[r])]
  IN  /\ Await(r, "client")
      /\ \/ /\ reg.secret = None \/ ClientSecret(form[r]) # None
            /\ account' = [account EXCEPT ![r] = reg]
            /\ Continue(r)
         \/ /\ reg.secret # None /\ ClientSecret(form[r]) = None
            /\ End(r, "invalid_client")
            /\ UNCHANGED account
      /\ UNCHANGED <<world, row, form, subject, granted, history, lineage>>

\* The grant isClientValid is asked about: the request's; the code grant to
\* revoke a code; and where only the identity matters (validateClientIdentity),
\* client_credentials if the client has it and else one the client has.
GrantsAskedFor(r) ==
  CASE form[r].grant \in Grants     -> {form[r].grant}
    [] form[r].grant = "revoke_code" -> {"authorization_code"}
    [] OTHER -> IF "client_credentials" \in account[r].grants
                  THEN {"client_credentials"} ELSE account[r].grants

\* Mutant: a secret is checked for the client credentials grant only.
IsClientValid_SecretRarely(reg, grant, secret) ==
  /\ grant = "client_credentials" /\ reg.secret # None => secret = reg.secret
  /\ grant \in reg.grants

\* clientRepository.isClientValid, as the example implements it.
IsClientValid(reg, grant, secret) ==
  /\ reg.secret # None => secret = reg.secret
  /\ grant \in reg.grants

\* Introspection refuses public clients, once they are authenticated.
MayIntrospect(r) ==
  form[r].grant = "introspect" /\ IntrospectionRequiresConfidentialClient
    => account[r].secret # None

IsAuthenticated(r) ==
  /\ \E g \in GrantsAskedFor(r) : IsClientValid(account[r], g, ClientSecret(form[r]))
  /\ MayIntrospect(r)

Authenticate(r) ==
  /\ Await(r, "valid")
  /\ \/ IsAuthenticated(r) /\ Continue(r)
     \/ ~IsAuthenticated(r) /\ End(r, "invalid_client")
  /\ UNCHANGED <<world, row, request, history, lineage>>

-----------------------------------------------------------------------------
\* getUserByCredentials: nobody for this password is invalid_grant.
LoadUser(r) ==
  /\ Await(r, "user") /\ form[r].grant = "password"
  /\ \/ \E u \in Users : subject' = [subject EXCEPT ![r] = u] /\ Continue(r)
     \/ End(r, "invalid_grant") /\ UNCHANGED subject
  /\ UNCHANGED <<world, row, form, account, granted, history, lineage>>

\* A code whose user is not found, or that has none, is redeemed for nobody.
LoadCodeUser(r) ==
  /\ Await(r, "user") /\ form[r].grant = "authorization_code"
  /\ \E u \in Users \cup {None} : subject' = [subject EXCEPT ![r] = u]
  /\ Continue(r)
  /\ UNCHANGED <<world, row, form, account, granted, history, lineage>>

\* processTokenExchange: a user, or undefined, and the request goes on.
Exchange(r) ==
  /\ Await(r, "exchange")
  /\ \E u \in Users \cup {None} : subject' = [subject EXCEPT ![r] = u]
  /\ Continue(r)
  /\ UNCHANGED <<world, row, form, account, granted, history, lineage>>

OwnerOf(old) == old.user

\* validateOldRefreshToken.
LoadOldToken(r) ==
  LET old == row[form[r].token]
      ok  == old.refreshable /\ old.alive /\ old.client = ClientId(form[r])
  IN  /\ Await(r, "old")
      /\ subject' = IF ok THEN [subject EXCEPT ![r] = OwnerOf(old)] ELSE subject
      /\ IF ok THEN Continue(r) ELSE End(r, "invalid_token")
      /\ UNCHANGED <<world, row, form, account, granted, history, lineage>>

\* The scope parameter; without one nothing, or the old token's scopes.
AskedScopes(r) ==
  IF form[r].scopes # None THEN form[r].scopes
  ELSE IF form[r].token # None THEN row[form[r].token].scopes ELSE {}

ValidateScopes(r) ==
  /\ Await(r, "scopes")
  /\ IF ScopesAreValid(AskedScopes(r), known, form[r].grant)
       THEN Continue(r) /\ granted' = [granted EXCEPT ![r] = AskedScopes(r)]
       ELSE End(r, "invalid_scope") /\ UNCHANGED granted
  /\ UNCHANGED <<world, row, form, account, subject, history, lineage>>

\* The hook may return any scopes, and only a refresh looks at what it did: it
\* must stay within the old token.
FinalizeScopes(r) ==
  /\ Await(r, "finalize")
  /\ \E scopes \in SUBSET Scopes :
       IF form[r].token # None => scopes \subseteq row[form[r].token].scopes
         THEN /\ Continue(r)
              /\ granted' = [granted EXCEPT ![r] = scopes]
              /\ added' = [added EXCEPT ![r] = @ \cup (scopes \ granted[r])]
         ELSE End(r, "invalid_scope") /\ UNCHANGED <<granted, added>>
  /\ UNCHANGED <<world, row, form, account, subject, history, origin>>

RevokeOld(r) ==
  /\ Await(r, "revoke")
  /\ row' = [row EXCEPT ![form[r].token].alive = FALSE]
  /\ Continue(r)
  /\ UNCHANGED <<world, request, history, lineage>>

\* issueAccessToken.
PersistToken(r) ==
  /\ Await(r, "persist")
  /\ row' = [row EXCEPT ![r] =
       [client |-> ClientId(form[r]), user |-> subject[r], scopes |-> granted[r],
        refreshable |-> FALSE, alive |-> TRUE]]
  /\ origin' = [origin EXCEPT ![r] =
       IF form[r].token # None THEN origin[form[r].token] ELSE r]
  /\ Continue(r)
  /\ UNCHANGED <<world, request, history, added>>

\* issueRefreshToken.
IssueRefreshToken(r) ==
  /\ Await(r, "refresh")
  /\ row' = [row EXCEPT ![r].refreshable = TRUE]
  /\ Continue(r)
  /\ UNCHANGED <<world, request, history, lineage>>

\* An await rejects, whatever the answer: introspection and revocation give
\* invalid_client for it.
Fail(r) ==
  /\ left[r] \notin Rest
  /\ End(r, "failed")
  /\ UNCHANGED <<world, row, request, history, lineage>>

-----------------------------------------------------------------------------
\* The owner of the server gives a client another secret or other grants.
Reregister(c, reg) ==
  /\ registration' = [registration EXCEPT ![c] = reg]
  /\ entitled' = entitled \cup {r \in Requests :
                   form[r] # None /\ ClientId(form[r]) = c /\ Good(form[r], registration')}
  /\ steady' = {r \in steady : ClientId(form[r]) # c}
  /\ UNCHANGED <<known, everKnown, row, left, request, lineage>>

ChangeScopes(scopes) ==
  /\ known' = scopes
  /\ everKnown' = everKnown \cup scopes
  /\ UNCHANGED <<registration, row, left, request, history, lineage>>

Step(r) ==
  \/ LookupClient(r) \/ Authenticate(r) \/ LoadUser(r) \/ LoadCodeUser(r)
  \/ Exchange(r) \/ LoadOldToken(r) \/ ValidateScopes(r) \/ FinalizeScopes(r)
  \/ RevokeOld(r) \/ PersistToken(r) \/ IssueRefreshToken(r)

Next ==
  \/ \E r \in Requests, f \in Inputs : Arrive(r, f)
  \/ \E r \in Requests : Step(r) \/ Fail(r)
  \/ \E c \in Clients, reg \in Registrations : Reregister(c, reg)
  \/ \E scopes \in ScopeRegistries : ChangeScopes(scopes)

Spec == Init /\ [][Next]_vars

-----------------------------------------------------------------------------
(***************************************************************************)
(* Properties.                                                             *)
(***************************************************************************)

\* Every variable has its type.
TypeOK ==
  /\ registration \in [Clients -> Registrations]
  /\ known \in ScopeRegistries
  /\ row \in [Requests -> Row \cup {None}]
  /\ left \in [Requests -> Rest \cup Seq(Stages)]
  /\ form \in [Requests -> Inputs \cup {None}]
  /\ account \in [Requests -> Registrations \cup {None}]
  /\ subject \in [Requests -> Users \cup {None}]
  /\ granted \in [Requests -> SUBSET Scopes]
  /\ entitled \subseteq Requests /\ steady \subseteq Requests
  /\ everKnown \subseteq Scopes
  /\ added \in [Requests -> SUBSET Scopes]
  /\ origin \in [Requests -> Requests \cup {None}]

\* No token is issued to credentials that were not good, for the grant they
\* were used with, at some moment since the request arrived, and nobody gets to
\* introspect or revoke with such: a secret or a grant taken from a client
\* before that is of no use, wherever in the body or the header parts of other
\* credentials were sent.
NoLateAuthentication ==
  \A r \in Requests : row[r] # None \/ left[r] = << >> => r \in entitled

\* A client that sends good credentials in the body, and is not registered anew
\* meanwhile, is authenticated.  To introspect or revoke a token it need hold
\* no grant in particular; to revoke a code it needs the code's, and to
\* introspect a secret, where the option says so.
GoodCredentialsPass ==
  \A r \in steady \cap entitled :
    form[r].basic = None => left[r] # <<"invalid_client">>

\* Credentials decide: bad ones are of no use, and good ones are not refused
\* for what the client may not do elsewhere.
CredentialsDecide == NoLateAuthentication /\ GoodCredentialsPass

\* A scope nobody ever registered, the standard OIDC scopes among them, is on a
\* token because it was redeemed for a code or the application's hook put it
\* there: on the token that began its line, and again at every refresh of it.
OidcScopesStayWithCodes ==
  \A r \in Requests : row[r] # None =>
    \A q \in {r, origin[r]} : form[q].grant # "authorization_code" =>
      row[r].scopes \subseteq everKnown \cup added[q]
=============================================================================
