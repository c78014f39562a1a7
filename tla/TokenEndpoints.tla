---------------------------- MODULE TokenEndpoints ----------------------------
(***************************************************************************)
(* The endpoints that judge or end a token somebody presents: introspect   *)
(* and revoke (both served by ClientCredentialsGrant), UserInfo, and a     *)
(* route of an API behind the example's requireAuth.  They run beside each *)
(* other and beside whatever else ends a token: a rotation, the replay of  *)
(* an authorization code, the clock.                                       *)
(*                                                                         *)
(* Three ways of storing a revocation are in use: both expiries become the *)
(* epoch (0 here), a flag is set, or the row is deleted.  A JWT's own      *)
(* expiry shows none of them, and a row's expiry only the first.           *)
(***************************************************************************)
EXTENDS Naturals, FiniteSets, Absence

CONSTANTS
  Requests, TokenIds, Clients,
  Claims,            \* the claims of the issued tokens, by identifier
  Inputs,            \* the requests that get sent, a set of Forms
  Confidential,      \* clients registered with a secret
  Names, NameOf,     \* client names, which need not be unique
  TokenCID,          \* options.tokenCID
  AuthenticateRevoke, AuthenticateIntrospect, RequiresConfidential,
  Repositories,      \* the token repositories the server may be given
  MaxTime            \* bound: the clock stops here

Halves == {"access", "refresh"}

\* A token repository revokes in one of three ways, returns its rows or
\* copies of them, and may lack getByAccessToken and isAccessTokenRevoked.
Repository == [storage : {"epoch", "flag", "delete"},
               shared : BOOLEAN, lookup : BOOLEAN, hook : BOOLEAN]

\* A row of tokenRepository: the expiry of each half and the revoked flag.
Row == [access : Nat, refresh : Nat, flag : BOOLEAN]

\* half is the shape of the verified payload, None when nothing verifies.
Form == [endpoint : {"introspect", "revoke", "userinfo", "api"},
         client   : Clients,
         token    : TokenIds,
         half     : Halves \cup {None},
         hint     : {"known", "unknown"}]

\* The resources an access token opens.
Resources == {"userinfo", "api"}

Working == {"identify", "verify", "read", "hook", "own", "write", "claims"}

\* Revoke answers 200 alike when it revoked, ignored the token as not the
\* client's or not known, or swallowed an error.
Answers == {"active", "inactive", "claims_sent", "served", "revoked",
            "ignored", "swallowed", "refused", "error"}

ASSUME ConstantsAssumption ==
  /\ Claims \in [TokenIds -> [client : Clients, openid : BOOLEAN,
                               access : Nat, refresh : Nat]]
  /\ Inputs \subseteq Form
  /\ Confidential \subseteq Clients
  /\ NameOf \in [Clients -> Names]
  /\ TokenCID \in {"id", "name"}
  /\ MaxTime \in Nat \ {0}
  /\ Repositories \subseteq Repository
  /\ {AuthenticateRevoke, AuthenticateIntrospect, RequiresConfidential} \subseteq BOOLEAN
  /\ None \notin Row \cup Form

VARIABLES
  now,       \* seconds; the epoch is 0
  repo,      \* the repository in use, the same throughout
  rows,      \* what it stores
  pc, form,  \* where each request is suspended, and its parameters
  seen,      \* the row it read
  doomed     \* history: requests that arrived for a half already dead

vars == <<now, repo, rows, pc, form, seen, doomed>>

Init ==
  /\ now = 1
  /\ repo \in Repositories
  /\ rows = [t \in TokenIds |-> [access |-> Claims[t].access,
                                refresh |-> Claims[t].refresh, flag |-> FALSE]]
  /\ pc = [r \in Requests |-> "idle"]
  /\ form = [r \in Requests |-> None]
  /\ seen = [r \in Requests |-> None]
  /\ doomed = {}

-----------------------------------------------------------------------------
Goto(r, label) == pc' = [pc EXCEPT ![r] = label]

Alive(row, half) == row # None /\ ~row.flag /\ row[half] > now

\* The row a request holds: its copy, or what became of the shared object.
Held(r) ==
  LET row == rows[form[r].token]
  IN  IF repo.shared /\ row # None THEN row ELSE seen[r]

Authenticates(endpoint) ==
  IF endpoint = "revoke" THEN AuthenticateRevoke ELSE AuthenticateIntrospect

\* A refresh token exists for the rows that were given an expiry for one.
Arrive(r, f) ==
  /\ pc[r] = "idle"
  /\ f.half = "refresh" => Claims[f.token].refresh # 0
  /\ form' = [form EXCEPT ![r] = f]
  /\ Goto(r, IF f.endpoint \in Resources THEN "verify"
             ELSE IF Authenticates(f.endpoint) THEN "identify" ELSE "read")
  /\ doomed' = IF f.half # None /\ ~Alive(rows[f.token], f.half)
                 THEN doomed \cup {r} ELSE doomed
  /\ UNCHANGED <<now, repo, rows, seen>>

\* validateClientIdentity, and introspection's demand for a confidential
\* client.
Identify(r) ==
  /\ pc[r] = "identify"
  /\ \/ /\ form[r].endpoint = "introspect" /\ RequiresConfidential
             => form[r].client \in Confidential
        /\ Goto(r, "read")
     \/ Goto(r, "refused")
  /\ UNCHANGED <<now, repo, rows, form, seen, doomed>>

\* AccessTokenVerifier.verify, then the scope and the subject of the claims.
\* requireAuth verifies no more than the signature and its lifetime; a refresh
\* token has no jti to look up.  Without getByAccessToken it lets nobody in.
Verify(r) ==
  LET accepted == /\ form[r].half = "access"
                  /\ Claims[form[r].token].access > now
                  /\ form[r].endpoint = "userinfo" => Claims[form[r].token].openid
  IN  /\ pc[r] = "verify"
      /\ Goto(r, IF ~accepted THEN "refused"
                 ELSE IF repo.lookup THEN "read"
                 ELSE IF form[r].endpoint = "api" THEN "refused" ELSE "claims")
      /\ UNCHANGED <<now, repo, rows, form, seen, doomed>>

-----------------------------------------------------------------------------
\* tokenFromRequest throws: the hint is not one it knows, or the repository
\* cannot look an access token up.  Revoke swallows that.
Unreadable(r) ==
  /\ form[r].endpoint \notin Resources
  /\ form[r].hint = "unknown" \/ (form[r].half = "access" /\ ~repo.lookup)

Refuse(r) ==
  /\ pc[r] = "read"
  /\ Unreadable(r)
  /\ Goto(r, IF form[r].endpoint = "revoke" THEN "swallowed" ELSE "error")
  /\ UNCHANGED <<now, repo, rows, form, seen, doomed>>

\* Mutant: an expired half is not looked up any more.
Found_SkipsExpired(r) ==
  /\ form[r].half # None
  /\ rows[form[r].token] # None
  /\ rows[form[r].token][form[r].half] > now

\* The token verifies, whatever its expiry, and storage has its row.
Found(r) == form[r].half # None /\ rows[form[r].token] # None

Missing(endpoint) ==
  CASE endpoint = "revoke"     -> "ignored"
    [] endpoint \in Resources -> "refused"
    [] OTHER                   -> "inactive"

\* validateAccessToken after the lookup, and requireAuth.
RouteVerdict(row) == IF row.access < now THEN "refused" ELSE "served"

\* Introspection looks at the expiry at once, and needs no hook for an
\* access token when there is none.
AfterRead(r) ==
  CASE form[r].endpoint = "revoke"   -> "own"
    [] form[r].endpoint = "userinfo" -> "hook"
    [] form[r].endpoint = "api"      -> RouteVerdict(rows[form[r].token])
    [] OTHER -> IF rows[form[r].token][form[r].half] <= now THEN "inactive"
                ELSE IF form[r].half = "refresh" \/ repo.hook
                       THEN "hook" ELSE "active"

\* The lookup.
Read(r) ==
  /\ pc[r] = "read"
  /\ ~Unreadable(r)
  /\ \/ /\ Found(r)
        /\ seen' = [seen EXCEPT ![r] = rows[form[r].token]]
        /\ Goto(r, AfterRead(r))
     \/ /\ ~Found(r)
        /\ Goto(r, Missing(form[r].endpoint))
        /\ UNCHANGED seen
  /\ UNCHANGED <<now, repo, rows, form, doomed>>

\* Mutant: only a refresh token's row is asked for its flag.
Flagged_RefreshOnly(r) == form[r].half = "refresh" /\ Held(r).flag

\* isRefreshTokenRevoked, or isAccessTokenRevoked where it exists.
Flagged(r) ==
  \/ (form[r].half = "refresh" \/ repo.hook) /\ Held(r).flag
  \/ form[r].half = "refresh" /\ now > Held(r).refresh

IntrospectionHook(r) ==
  /\ pc[r] = "hook"
  /\ form[r].endpoint = "introspect"
  /\ Goto(r, IF Flagged(r) THEN "inactive" ELSE "active")
  /\ UNCHANGED <<now, repo, rows, form, seen, doomed>>

Lapsed(r) == Held(r).access <= now

\* The hook, where it exists, and then the row's expiry.
UserInfoHook(r) ==
  /\ pc[r] = "hook"
  /\ form[r].endpoint = "userinfo"
  /\ Goto(r, IF Flagged(r) \/ Lapsed(r) THEN "refused" ELSE "claims")
  /\ UNCHANGED <<now, repo, rows, form, seen, doomed>>

\* getUserClaims, and the answer.
SendClaims(r) ==
  /\ pc[r] = "claims"
  /\ Goto(r, "claims_sent")
  /\ UNCHANGED <<now, repo, rows, form, seen, doomed>>

-----------------------------------------------------------------------------
\* The cid claim of an access token names the client as tokenCID says.
Cid(client) == IF TokenCID = "id" THEN client ELSE NameOf[client]

Owns(client, token, half) ==
  IF half = "access" THEN Cid(Claims[token].client) = Cid(client)
                     ELSE Claims[token].client = client

CheckOwner(r) ==
  /\ pc[r] = "own"
  /\ Goto(r, IF AuthenticateRevoke => Owns(form[r].client, form[r].token, form[r].half)
               THEN "write" ELSE "ignored")
  /\ UNCHANGED <<now, repo, rows, form, seen, doomed>>

\* tokenRepository.revoke: on the whole row, whatever it was found by.
Ended(row) ==
  IF row = None \/ repo.storage = "delete" THEN None
  ELSE IF repo.storage = "flag" THEN [row EXCEPT !.flag = TRUE]
  ELSE [row EXCEPT !.access = 0, !.refresh = 0]

Write(r) ==
  /\ pc[r] = "write"
  /\ rows' = [rows EXCEPT ![form[r].token] = Ended(@)]
  /\ Goto(r, "revoked")
  /\ UNCHANGED <<now, repo, form, seen, doomed>>

\* An await rejects: a lookup that does counts as not found, and revoke
\* swallows every error once the client is known.
Fail(r) ==
  /\ pc[r] \in Working \ {"own"}
  /\ Goto(r, CASE pc[r] \in {"identify", "verify"} -> "refused"
               [] pc[r] = "read" /\ form[r].endpoint # "revoke"
                                                    -> Missing(form[r].endpoint)
               [] pc[r] = "write" \/ (pc[r] = "read" /\ form[r].endpoint = "revoke")
                                                    -> "swallowed"
               [] OTHER                              -> "error")
  /\ UNCHANGED <<now, repo, rows, form, seen, doomed>>

-----------------------------------------------------------------------------
\* A rotation, a replayed code or an administrator ends a token.
EndElsewhere(t) ==
  /\ rows' = [rows EXCEPT ![t] = Ended(@)]
  /\ UNCHANGED <<now, repo, pc, form, seen, doomed>>

Tick ==
  /\ now < MaxTime
  /\ now' = now + 1
  /\ UNCHANGED <<repo, rows, pc, form, seen, doomed>>

Step(r) ==
  \/ Identify(r) \/ Verify(r) \/ Refuse(r) \/ Read(r)
  \/ IntrospectionHook(r) \/ UserInfoHook(r) \/ SendClaims(r)
  \/ CheckOwner(r) \/ Write(r)

Next ==
  \/ \E r \in Requests, f \in Inputs : Arrive(r, f)
  \/ \E r \in Requests : Step(r) \/ Fail(r)
  \/ \E t \in TokenIds : EndElsewhere(t)
  \/ Tick

Spec == Init /\ [][Next]_vars

-----------------------------------------------------------------------------
(***************************************************************************)
(* Properties.                                                             *)
(***************************************************************************)

\* Every variable has its type.
TypeOK ==
  /\ rows \in [TokenIds -> Row \cup {None}]
  /\ now \in 1 .. MaxTime
  /\ repo \in Repositories
  /\ pc \in [Requests -> {"idle"} \cup Working \cup Answers]
  /\ form \in [Requests -> Form \cup {None}]
  /\ seen \in [Requests -> Row \cup {None}]
  /\ doomed \subseteq Requests

\* What a request can see of a revocation: without the optional methods a
\* deleted row is invisible to UserInfo and a flagged one to both; requireAuth
\* never asks about a flag.
CanSee(r) ==
  \/ form[r].half = "refresh"
  \/ /\ repo.storage = "flag" => repo.hook /\ form[r].endpoint # "api"
     /\ form[r].endpoint = "userinfo" => repo.lookup

\* A token that was dead when the request about it arrived -- expired, or
\* revoked by anybody -- is not reported active, yields no claims and opens
\* no route, although the answer is put together from reads between several awaits.
DeadOnArrivalIsRefused ==
  \A r \in doomed : CanSee(r) => pc[r] \notin {"active", "claims_sent", "served"}

\* A client that revokes its own token through either half, live or expired,
\* and is answered without a swallowed error, leaves neither half alive.
Revocable(r) ==
  /\ form[r].endpoint = "revoke" /\ form[r].half # None
  /\ form[r].client = Claims[form[r].token].client
  /\ pc[r] \in {"revoked", "ignored"}

OwnerRevocationKills ==
  \A r \in Requests :
    form[r] # None /\ Revocable(r) =>
      \A half \in Halves : ~Alive(rows[form[r].token], half)

\* Where clients authenticate and no two share what cid tells of them, the
\* revoke endpoint ends nobody else's token.
CidsDiffer == \A c, d \in Clients : Cid(c) = Cid(d) => c = d

OnlyOwnersRevoke ==
  \A r \in Requests :
    AuthenticateRevoke /\ CidsDiffer /\ pc[r] = "revoked"
      => form[r].client = Claims[form[r].token].client

\* Revocation works for the owner of a token and for nobody else: the claims
\* that name the owner, the two halves and the row tell the same story.
RevocationIsTheOwners == OwnerRevocationKills /\ OnlyOwnersRevoke
=============================================================================
