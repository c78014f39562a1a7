---------------------------- MODULE ServerDispatch ----------------------------
(***************************************************************************)
(* AuthorizationServer as a table of grants: which grants are enabled, in  *)
(* which order, with which instance and which access token TTL, and how a  *)
(* request finds its grant.  A grant may be enabled again at any moment,   *)
(* which replaces its instance and TTL under the requests it is serving    *)
(* and under the authorization requests the application keeps in sessions. *)
(* After a restart only the constructor's grants are enabled; sessions and *)
(* stored codes survive.                                                   *)
(***************************************************************************)
EXTENDS Naturals, Sequences, FiniteSets, Absence

CONSTANTS
  Requests,
  CustomGrants,       \* identifiers of grants the application wrote itself
  Repositories,       \* auth code repositories an application may hand over
  TTLs, DefaultTTL,   \* access token TTLs, and the one of enableGrantType
  Inputs,             \* requests that get sent, a set of Forms
  Batches,            \* what enableGrantTypes may be called with
  MaxInstances,       \* bound: grant instances built after construction
  MaxRestarts         \* bound

BuiltIn == {"client_credentials", "refresh_token", "implicit", "password",
            "authorization_code", "token_exchange"}
Identifiers == BuiltIn \cup CustomGrants

\* An argument of enableGrantType; grant None is one it does not know.
Entry == [grant : Identifiers \cup {None}, ttl : TTLs,
          codes : Repositories \cup {None}]

\* `asks` is the grant_type, the response_type or the token_type_hint; `code`
\* is the authorization request whose code a redemption presents.
Form == [endpoint : {"token", "authorize", "revoke", "introspect"},
         asks : Identifiers \cup {"code", "token", "auth_code", "other"},
         code : Requests \cup {None}]

Instance == [version : Nat, codes : Repositories \cup {None}]
Serving  == [grant : Identifiers, instance : Instance, ttl : TTLs]
Issued   == [what : {"code", "token"}, by : Serving]

ASSUME ConstantsAssumption ==
  /\ DefaultTTL \in TTLs
  /\ CustomGrants \cap (BuiltIn \cup {"code", "token", "auth_code", "other"}) = {}
  /\ Inputs \subseteq Form
  /\ Batches \subseteq Seq(Entry) \ {<< >>}
  /\ {MaxInstances, MaxRestarts} \subseteq Nat
  /\ None \notin Identifiers \cup Repositories \cup Requests \cup Form \cup Serving \cup Issued

VARIABLES
  server,     \* enabledGrantTypes and grantTypeAccessTokenTTL
  batch,      \* what a call of enableGrantTypes has still to enable
  stored,     \* the codes in each repository, by authorization request
  pc, form,   \* where each request is, and its parameters
  serving,    \* the grant, instance and TTL a handler was called with
  issued,     \* what it handed out, and on whose account
  restarts,
  enablings,  \* history: what one call of enableGrantType ever set together
  known       \* history: redemptions dispatched when their code was on file

vars == <<server, batch, stored, pc, form, serving, issued, restarts, enablings, known>>

-----------------------------------------------------------------------------
Enabled(s) == {s.order[i] : i \in DOMAIN s.order}

\* The table with e's grant in it, new or again.  The grants that are named by
\* a string, and those the application built, come with their instance; the
\* others get a new one.  A key keeps its place when it is set again.
Entered(s, e) ==
  LET builds == e.grant \in {"authorization_code", "password", "token_exchange"}
      built  == IF builds THEN s.built + 1 ELSE s.built
  IN  [s EXCEPT !.built = built,
                !.order = IF e.grant \in Enabled(s) THEN @ ELSE Append(@, e.grant),
                !.instance[e.grant] = [version |-> IF builds THEN built ELSE 0,
                                       codes |-> e.codes]]

\* enableGrantType.
Enable(s, e) == [Entered(s, e) EXCEPT !.ttl[e.grant] = e.ttl]

NoGrants == [order |-> << >>, built |-> 0,
             instance |-> [g \in Identifiers |-> [version |-> 0, codes |-> None]],
             ttl |-> [g \in Identifiers |-> DefaultTTL]]

Named(g) == [grant |-> g, ttl |-> DefaultTTL, codes |-> None]

\* The constructor.
Constructed(built) ==
  Enable(Enable([NoGrants EXCEPT !.built = built], Named("client_credentials")),
         Named("refresh_token"))

ServingOf(s, g) == [grant |-> g, instance |-> s.instance[g], ttl |-> s.ttl[g]]

Init ==
  /\ server = Constructed(0)
  /\ batch = << >>
  /\ stored = [c \in Repositories |-> {}]
  /\ pc = [r \in Requests |-> "idle"]
  /\ form = [r \in Requests |-> None]
  /\ serving = [r \in Requests |-> None]
  /\ issued = [r \in Requests |-> None]
  /\ restarts = 0
  /\ enablings = {ServingOf(server, g) : g \in Enabled(server)}
  /\ known = {}

Goto(r, label) == pc' = [pc EXCEPT ![r] = label]

\* Mutant: a batch that fails leaves the server as it was constructed.
Turn_RollsBack(e, rest) ==
  /\ server' = IF e.grant = None THEN Constructed(server.built) ELSE Enable(server, e)
  /\ batch' = IF e.grant = None THEN << >> ELSE rest
  /\ enablings' = enablings \cup {ServingOf(server', g) : g \in Enabled(server')}

\* One turn of the loop in enableGrantTypes.  An entry it cannot enable throws
\* and ends the loop; what stands before it is enabled.
Turn(e, rest) ==
  IF e.grant = None
    THEN batch' = << >> /\ UNCHANGED <<server, enablings>>
    ELSE /\ server' = Enable(server, e)
         /\ batch' = rest
         /\ enablings' = enablings \cup {ServingOf(server', e.grant)}

EnableGrantTypes(entries) ==
  /\ server.built + Len(entries) <= MaxInstances
  /\ Turn(Head(entries), Tail(entries))
  /\ UNCHANGED <<stored, pc, form, serving, issued, restarts, known>>

EnableRest ==
  /\ batch # << >>
  /\ Turn(Head(batch), Tail(batch))
  /\ UNCHANGED <<stored, pc, form, serving, issued, restarts, known>>

-----------------------------------------------------------------------------
\* The canRespondTo... predicates.
CanRespond(g, f) ==
  \/ f.endpoint = "token" /\ f.asks = g /\ g # "implicit"
  \/ f.endpoint = "authorize" /\ \/ g = "authorization_code" /\ f.asks = "code"
                                 \/ g = "implicit" /\ f.asks = "token"
  \/ f.endpoint = "revoke" /\ \/ g = "authorization_code" /\ f.asks = "auth_code"
                              \/ g = "client_credentials" /\ f.asks # "auth_code"
  \/ f.endpoint = "introspect" /\ g = "client_credentials"

\* findGrantFor: the first in the order of the table.
FindGrantFor(f) ==
  LET able == {i \in DOMAIN server.order : CanRespond(server.order[i], f)}
  IN  IF able = {} THEN None
      ELSE server.order[CHOOSE i \in able : \A j \in able : i <= j]

OnFile(s, r) == \E c \in Repositories : c = s.codes /\ r \in stored[c]

\* The grant's handler is called with the TTL of this moment.
Dispatch(r, f) ==
  /\ pc[r] = "idle"
  /\ form' = [form EXCEPT ![r] = f]
  /\ LET g == FindGrantFor(f) IN
       IF g = None
         THEN /\ Goto(r, "unsupported_grant_type")
              /\ UNCHANGED <<serving, known>>
         ELSE /\ Goto(r, "serving")
              /\ serving' = [serving EXCEPT ![r] = ServingOf(server, g)]
              /\ known' = IF g = "authorization_code" /\ f.code # None
                               /\ OnFile(server.instance[g], f.code)
                            THEN known \cup {r} ELSE known
  /\ UNCHANGED <<server, batch, stored, issued, restarts, enablings>>

\* A validated AuthorizationRequest waits in the session for the end user.
Validated(r) ==
  /\ pc[r] = "serving" /\ form[r].endpoint = "authorize"
  /\ Goto(r, "session")
  /\ UNCHANGED <<server, batch, stored, form, serving, issued, restarts, enablings, known>>

\* authorizationRequest.grantTypeId.
CompletingGrant(r) == serving[r].grant

\* completeAuthorizationRequest: the instance enabled now, if there is one.
Complete(r) ==
  /\ pc[r] = "session"
  /\ LET g == CompletingGrant(r) IN
       IF g \in Enabled(server)
         THEN /\ Goto(r, "completing")
              /\ serving' = [serving EXCEPT ![r] = ServingOf(server, g)]
         ELSE /\ Goto(r, "not_enabled")
              /\ UNCHANGED serving
  /\ UNCHANGED <<server, batch, stored, form, issued, restarts, enablings, known>>

IssuedBy(r, what, by) == issued' = [issued EXCEPT ![r] = [what |-> what, by |-> by]]

\* The code goes into the repository of the completing instance.
IssueCode(r) ==
  /\ pc[r] = "completing" /\ serving[r].grant = "authorization_code"
  /\ stored' = [stored EXCEPT ![serving[r].instance.codes] = @ \cup {r}]
  /\ IssuedBy(r, "code", serving[r])
  /\ Goto(r, "answered")
  /\ UNCHANGED <<server, batch, form, serving, restarts, enablings, known>>

\* The implicit grant has a TTL of its own, the default.
IssueImplicit(r) ==
  /\ pc[r] = "completing" /\ serving[r].grant = "implicit"
  /\ IssuedBy(r, "token", [serving[r] EXCEPT !.ttl = DefaultTTL])
  /\ Goto(r, "answered")
  /\ UNCHANGED <<server, batch, stored, form, serving, restarts, enablings, known>>

\* Mutant: the handler looks its grant up again after its awaits.
ServedBy_Now(r) == ServingOf(server, serving[r].grant)

\* Mutant: only the TTL is looked up again.
ServedBy_TTLNow(r) == [serving[r] EXCEPT !.ttl = server.ttl[serving[r].grant]]

\* The handler keeps what it was called with.
ServedBy(r) == serving[r]

Handling(r, endpoints) == pc[r] = "serving" /\ form[r].endpoint \in endpoints

CodeIsFound(r) == form[r].code = None \/ OnFile(ServedBy(r).instance, form[r].code)

IssueToken(r) ==
  /\ Handling(r, {"token"})
  /\ CodeIsFound(r)
  /\ IssuedBy(r, "token", ServedBy(r))
  /\ Goto(r, "answered")
  /\ UNCHANGED <<server, batch, stored, form, serving, restarts, enablings, known>>

\* getByIdentifier of the code repository throws.
RejectCode(r) ==
  /\ Handling(r, {"token"})
  /\ ~CodeIsFound(r)
  /\ Goto(r, "unknown_code")
  /\ UNCHANGED <<server, batch, stored, form, serving, issued, restarts, enablings, known>>

\* validateClient, where a custom grant calls it: getGrantType knows the
\* built-in identifiers only.
RejectGrantType(r) ==
  /\ Handling(r, {"token"})
  /\ serving[r].grant \notin BuiltIn
  /\ Goto(r, "invalid_grant_type")
  /\ UNCHANGED <<server, batch, stored, form, serving, issued, restarts, enablings, known>>

AnswerOther(r) ==
  /\ Handling(r, {"revoke", "introspect"})
  /\ Goto(r, "answered")
  /\ UNCHANGED <<server, batch, stored, form, serving, issued, restarts, enablings, known>>

\* Handlers in flight are lost, and the grants enabled since construction.
Restart ==
  /\ restarts < MaxRestarts
  /\ restarts' = restarts + 1
  /\ server' = Constructed(server.built)
  /\ enablings' = enablings \cup {ServingOf(server', g) : g \in Enabled(server')}
  /\ pc' = [r \in Requests |-> IF pc[r] \in {"serving", "completing"} THEN "lost" ELSE pc[r]]
  /\ UNCHANGED <<batch, stored, form, serving, issued, known>>

Step(r) ==
  \/ Validated(r) \/ Complete(r) \/ IssueCode(r) \/ IssueImplicit(r)
  \/ IssueToken(r) \/ RejectCode(r) \/ RejectGrantType(r) \/ AnswerOther(r)

\* The loop is synchronous: nothing else happens until it has ended.
Next ==
  \/ EnableRest
  \/ /\ batch = << >>
     /\ \/ \E b \in Batches : EnableGrantTypes(b)
        \/ \E r \in Requests, f \in Inputs : Dispatch(r, f)
        \/ \E r \in Requests : Step(r)
        \/ Restart

Spec == Init /\ [][Next]_vars

-----------------------------------------------------------------------------
(***************************************************************************)
(* Properties.                                                             *)
(***************************************************************************)

\* Every variable has its type, and a grant is in the table once.
TypeOK ==
  /\ server \in [order : Seq(Identifiers), instance : [Identifiers -> Instance],
                 ttl : [Identifiers -> TTLs], built : 0 .. MaxInstances]
  /\ \A i, j \in DOMAIN server.order : server.order[i] = server.order[j] => i = j
  /\ batch \in Seq(Entry)
  /\ stored \in [Repositories -> SUBSET Requests]
  /\ pc \in [Requests -> {"idle", "serving", "session", "completing", "answered", "lost",
                          "unsupported_grant_type", "not_enabled", "unknown_code",
                          "invalid_grant_type"}]
  /\ form \in [Requests -> Form \cup {None}]
  /\ serving \in [Requests -> Serving \cup {None}]
  /\ issued \in [Requests -> Issued \cup {None}]
  /\ restarts \in 0 .. MaxRestarts
  /\ enablings \subseteq Serving
  /\ known \subseteq Requests

\* Whatever was enabled, and in whatever order, no request has two grants
\* that would answer it: dispatch does not depend on the order of the table.
SoleResponder ==
  \A f \in Inputs : Cardinality({g \in Enabled(server) : CanRespond(g, f)}) <= 1

\* A token from /token was issued by a grant instance and with a TTL that
\* were enabled together, though the grant was enabled again while the
\* request was in flight.
ServedByOneEnabling ==
  \A r \in Requests :
    issued[r] # None /\ form[r].endpoint = "token" => issued[r].by \in enablings

\* A request has one server: no other grant would have taken it, and what
\* the one that did worked with belongs together.
OneServerPerRequest == SoleResponder /\ ServedByOneEnabling

\* A redemption that was dispatched when its code was on file finds it, even
\* if the grant is given another code repository meanwhile.
KnownCodeIsFound == \A r \in known : pc[r] # "unknown_code"

\* An authorization request is completed by the grant that validated it: who
\* asked for a code is never handed a token through the browser.
CompletedByItsKind ==
  \A r \in Requests :
    form[r] # None /\ form[r].endpoint = "authorize" /\ issued[r] # None
      => issued[r].what = form[r].asks

\* A session fails for want of its grant only after a restart: enabling
\* grants, with or without an error, never takes one away.
SessionsKeepTheirGrant ==
  restarts = 0 => \A r \in Requests : pc[r] # "not_enabled"

\* A session ends as it began, however the table changed under it.
SessionsEndAsBegun == CompletedByItsKind /\ SessionsKeepTheirGrant
=============================================================================
