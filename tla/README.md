# A TLA+ model of ts-oauth2-server

ts-oauth2-server is a library: an application mounts its handlers, and supplies
the repositories in which codes, tokens, clients, scopes and users are stored.
The library holds no locks and opens no transactions. Every handler is an async
function that awaits repositories, hooks and cryptography, and any other request
may run at each of those awaits. What the library promises about one-use codes,
rotation, replay and revocation therefore depends on the order in which it reads
and writes repositories it does not control. That is what this project models,
checks with TLC and proves with TLAPS.

Paths below are relative to the repository root; line numbers are in the commit
this project was written against.

## 1. Inventory

| Part | State | Operations | Interacts through |
| --- | --- | --- | --- |
| `AuthorizationServer` (`src/authorization_server.ts`) | enabled grants and their TTLs | `enableGrantType`, dispatch of `/token`, `/authorize`, revoke, introspect, UserInfo | hands all grants one set of repositories |
| `AuthCodeGrant` (`src/grants/auth_code.grant.ts`) | none of its own; codes and tokens in repositories | validate and complete an authorization request, redeem a code, revoke a code | `authCodeRepository`, `tokenRepository`, `userRepository`, `scopeRepository` |
| PKCE (`src/code_verifiers/`) | none | verify a code challenge | called by `AuthCodeGrant` |
| `RefreshTokenGrant` (`src/grants/refresh_token.grant.ts`) | none; token rows | rotate a refresh token | `tokenRepository`, `scopeRepository` |
| `ClientCredentialsGrant` (`src/grants/client_credentials.grant.ts`) | none; token rows | issue, introspect, revoke | `tokenRepository`, `clientRepository` |
| UserInfo and `AccessTokenVerifier` (`src/oidc/`) | none; token rows | verify an access token, answer claims | `tokenRepository`, `getUserClaims` |
| Password, token exchange, implicit grants | none; token rows | issue | `tokenRepository` |
| `AbstractGrant` (`src/grants/abstract/`) | none | client authentication, scope validation, issuing and signing tokens | all repositories |
| OIDC claims, ID token, discovery | none | pure functions | called by the grants |
| JWT service, URL, scope, time helpers | keys | pure functions | called everywhere |
| Encoders (`src/grants/encoders/`) | none | wire form of codes and refresh tokens: signed JWTs, or opaque strings resolved through storage | repositories, for opaque strings |
| Adapters, requests, responses, exceptions (`src/adapters/`, ...) | none | translation to web frameworks, answers to errors | the application's handlers |
| Example middleware (`example/src/middleware/auth.ts`) | none; token rows | admit an access token to a route of an API | `AccessTokenVerifier`, `tokenRepository` |
| Repositories (interfaces in `src/repositories/`, implementations in `test/e2e/_helpers/in_memory` and `example/`) | codes, tokens, users, clients, scopes | persist, read, revoke, is it revoked | the shared state of all of the above |

What is hard in this code:

- **Check, await, act.** `isRevoked` and `isRefreshTokenRevoked` are read several
  awaits before the credential is revoked, so overlapping requests pass together.
- **Replay against what is in flight.** A replayed code revokes the tokens that
  exist; a redemption or a rotation under way stores its token afterwards.
- **Partial work.** Token stored and code not yet revoked; old refresh token
  revoked and the new one not stored; ID token refused after everything else.
- **Two copies of everything.** Claims are signed and stored, and storage belongs to
  the application: it may lose a column, change an expiry when it reads a row
  back, and share or copy rows.
- **Three ways to revoke.** Expiries set to the epoch, a flag, a deleted row; each
  is visible to some checks only.
- **Sessions.** Between the two halves of `/authorize` the end user takes minutes.
  The client may be registered anew, the scope registry may change, grants may be
  enabled again or, after a restart, not yet.
- **A client read and judged.** The client is looked up and validated in two awaits,
  and its credentials may be split over the body and the Basic header.
- **One key, four kinds of JWT.** Codes, access, refresh and ID tokens are signed
  by one service, hooks add claims to two of them, and every reader is handed
  whatever there is, also after a restart with another key.
- **Rounding.** Storage keeps milliseconds, JWTs seconds, and each place rounds its
  own way while awaits let the clock run; an interval that cannot be parsed is NaN.
- **Who answers.** h3 writes in its own time, and an error may come from any part of
  a handler.
- **Scopes in the hands of a hook.** `finalize` may return any scopes, and only a
  refresh compares them with anything. Through a redemption and any chain of
  refreshes client and user must stay what the end user approved, and scopes within
  the approval and what the application itself added.

What makes each part correct is stated as the properties of section 3. The
hazards they are aimed at are listed, line by line, in `PROJECT.json`.

## 2. Modules

| Module | Models | Depends on |
| --- | --- | --- |
| `Absence` | the one constant `None`: undefined, null, not sent, not stored | - |
| `TokenStore` | rows of `tokenRepository` and what its methods do to one row | `Absence` |
| `Pkce` | the PKCE gates at `/authorize` and `/token`, and the verifiers | `Absence` |
| `OneUseCredential` | abstract specification: what a one-use credential promises when requests overlap | - |
| `AuthCodeGrant` | issuing, redeeming, replaying and revoking authorization codes | `Pkce`, `TokenStore`; refines `OneUseCredential` |
| `RefreshTokenGrant` | validating and rotating refresh tokens, beside revocation, replay sweep and expiry | `TokenStore`; refines `OneUseCredential` |
| `TokenFamilies` | both grants on one token repository, tied by `originatingAuthCodeId` | `AuthCodeGrant`, an instance of `RefreshTokenGrant`; refines `OneUseCredential` once for codes and once for refresh tokens |
| `TokenEndpoints` | introspect, revoke, UserInfo and a guarded API route beside whatever ends a token | `Absence` |
| `ScopeRules` | which scopes a grant accepts, and what makes a request an OpenID one | - |
| `RedirectUris` | which redirect URIs a registration accepts | `Absence` |
| `AuthorizeEndpoint` | `/authorize` for the code and the implicit grant, with the session between its halves | `ScopeRules`, `RedirectUris`, `Pkce` |
| `TokenIssuance` | client authentication, scopes and owner of a token, for all grants of `/token` | `ScopeRules` |
| `ServerDispatch` | the table of enabled grants, finding one, sessions and restarts | `Absence` |
| `SignedTokens` | claims and headers of the four kinds of JWT, their readers, keys and discovery | `Absence` |
| `Expiries` | rounding and comparing lifetimes, tick by tick | `Absence` |
| `HttpAdapters` | the four adapters in the handler the documentation tells applications to write | `Absence` |
| `TokenFamiliesProofs` | first all safety properties of redemption, and that it implements `OneUseCredential`; then the same for both grants on one store, with rotation, extinct families and both refinements of `OneUseCredential` | `TokenFamilies` and with it `AuthCodeGrant` |
| `RefreshTokenGrantProofs` | all safety properties of rotation, and that it implements `OneUseCredential` | `RefreshTokenGrant` |
| `TokenEndpointsProofs` | dead tokens are refused, revocation is the owner's | `TokenEndpoints` |
| `AuthorizeEndpointProofs` | where browsers are sent, consent, what a stored code has | `AuthorizeEndpoint` |
| `TokenIssuanceProofs` | credentials decide, and scopes nobody registered come from codes or from the hook | `TokenIssuance` |
| `ServerDispatchProofs` | one server per request, codes found, sessions kept; each handler answers once and keeps the inside of errors | `ServerDispatch`, `HttpAdapters` |
| `SignedTokensProofs` | readers take their own kind of JWT and tell the grant, ID tokens can be verified | `SignedTokens` |
| `ExpiriesProofs` | rounding, and the four lifetimes | `Expiries` |
| `MC...` | small instances for TLC | the modules they are named for |

### How a handler becomes actions

Node runs one stretch of code at a time, up to the next `await`. A handler is cut
into one action per stretch that touches shared state; `pc[r]` says where request
`r` is suspended, and `form`, `claim`, `subject`, `granted`, `old` and `seen` are
its local variables. For a redemption (`respondToAccessTokenRequest`,
`auth_code.grant.ts:108-173`):

| Action | Code |
| --- | --- |
| `Arrive` | `validateClient`, its verdict a choice |
| `Resolve` | the encoder: a signed payload, or one rebuilt from the row (opaque codes) |
| `CheckRevoked` | `isRevoked`, and in the same stretch expiry, client, redirect URI and `max_age` |
| `RevokeDescendants` | `revokeDescendantsOf`, after a positive `isRevoked` |
| `LoadUser`, `FinalizeScopes` | `getUserByCredentials`; `validateScopes` and the `finalize` hook |
| `CheckChallenge` | `validateCodeChallenge` |
| `PersistToken`, `IssueRefreshToken` | `issueAccessToken`, `issueRefreshToken` |
| `BurnCode` | `authCodeRepository.revoke` |
| `Respond` | signing, and the ID token that may be refused |
| `Fail` | an await rejects, or the process dies |

`PersistCode` and `DeliverCode` are the two halves of
`completeAuthorizationRequest`, around the guard that re-reads an opaque code.
`RevokeCode`, `DeleteUser` and `Tick` are the rest of the world. A rotation in
`RefreshTokenGrant` is cut the same way (`Arrive`, `Validate`, `FinalizeScopes`,
`RevokeOld`, `PersistNew`, `IssueRefresh`, `Respond`), and a request in
`TokenEndpoints` goes through `Identify` or `Verify`, `Read`, a hook, and either
`CheckOwner` and `Write` or its answer.

The other modules cut the code at the same places.

- `AuthorizeEndpoint`: `LookupClient`, `ValidateScopes` and `FinalizeScopes` are
  `validateAuthorizationRequest` (PKCE and `max_age` are judged in the stretch after
  the hook), `Consent` is the application, `Complete`, `LoadUser`, `PersistCode` or
  `PersistToken`, and `Redirect` are `completeAuthorizationRequest`. `LoadUser` is the
  lookup of `issueAuthCode`, which asks for the session's user once more and stores a
  code of nobody when there is none; the implicit grant does not ask again.
  `Reregister` and `ChangeScopes` are the owner of the server, and `DeleteUser` is a
  user whose account ends.
- `TokenIssuance`: the handlers of `/token` are all made of the same awaits, so a
  grant is a list of them (`Route`), and a request works off its list in `left`.
  `LookupClient` and `Authenticate` are the two awaits of `validateClient`. A password
  nobody has is refused (`LoadUser`), a code whose user is gone is redeemed without
  one (`LoadCodeUser`). Introspection and revocation are requests that end with their
  client's authentication, in three kinds (`Purposes`): only the revocation of a code
  asks for a grant, the code's own, and introspection asks for a secret where
  `IntrospectionRequiresConfidentialClient`, the option's value, says so. The options
  `authenticateIntrospect` and `authenticateRevoke` are taken as on: without them
  there are no credentials to decide anything.
- `ServerDispatch`: `server` is the pair of maps `enabledGrantTypes` and
  `grantTypeAccessTokenTTL` with the order of its keys; `Dispatch` hands a request
  the instance and the TTL of that moment, `Complete` looks an authorization request's
  grant up again by `grantTypeId`. A call of `enableGrantTypes` is `EnableGrantTypes` and an
  `EnableRest` for each entry after the first (`batch` holds what is left, and
  `Turn` enables one); no request runs in between, and an entry that throws ends the
  call with what was enabled before it in place. `enablings` is history: every grant,
  instance and TTL that were ever enabled together.
- `SignedTokens`: issuing is one action per response, since nothing it reads changes
  under it; each reader is an operator that says what it would make of a JWT now.
  Objects are functions from claim names to values and spreading is `Spread`.
- `Expiries`: an action per await of a token response, with `Tick` between any two;
  readers are operators again.
- `HttpAdapters`: `Convert`, `Serve` and `Send` inside a `try`, `Catch` behind it;
  `Flush` is h3 writing, `Settle` the framework after the handler.

### Abstractions

- Time is whole seconds; 0 is the epoch. Scopes, clients, URIs, users are model
  values. A string under SHA-256 is a secret with a depth, so hashing is
  injective.
- A signature verifies exactly for what the server signed; a token that does not
  verify has the shape `None`.
- Credentials of a client are right or wrong by choice.
- `auth_time` and `max_age` are only compared in sum, so the model carries the sum
  (`staleAt`); losing either column loses it.
- Rows are stored as given, except for the columns in `DroppedColumns` and for
  `HydratesExpiry`. In particular a repository stores the scopes it is handed;
  neither repository in the tree does so for tokens (the in-memory `issueToken`
  leaves the list empty, the example's `persist` drops it).
- The `finalize` hook may return any scopes, in every grant: applications are told
  that it can add some (`docs/docs/getting_started/repositories.md:73`), and only the
  refresh grant compares what it returns with anything (`refresh_token.grant.ts:43`).
  So the properties allow what the hook added and nothing more: `AddedByHook(r)` in
  the two grants, `added` in `TokenIssuance`. In `AuthCodeGrant` the hook's results are
  the constant `HookResults`, any sets of scopes, so that TLC can be given few.
- `TokenIssuance` and `SignedTokens` leave revocation out, and `Expiries` too: the
  races with it are those of `TokenEndpoints` and the two grants. In `TokenIssuance` a
  redemption only brings its scopes, and a refresh presents what an earlier request
  was issued.
- A URL is scheme, host, port and path as `new URL` normalises them; a string that
  was sent has besides a spelling, which normalisation loses, and a fragment.
- A secret has a head, what precedes its first colon; this is all that the Basic
  header's split can tell.
- A key's thumbprint is the key itself; an application may name a key instead.
- Refresh tokens are not given an interval that is NaN by the application's
  repository. An opaque code whose TTL cannot be parsed never expires, since its
  `expire_time` is NaN for both readers; `CodeLivesItsTime` says so.
- `late`, `swept`, `extinct`, `doomed`, `registered`, `entitled`, `steady`,
  `everKnown`, `added`, `origin` (of `TokenIssuance`), `enablings` and `known` (of
  `ServerDispatch`) are history variables. They record what had happened when a
  request arrived, a sweep ran or a hook returned; no guard reads them.

## 3. Runs

Passing runs:

| Run | Asks | Instance |
| --- | --- | --- |
| `AuthCode_Overlap` | What does "one use" still mean when redemptions overlap, is a minted token bound to the approval, are nonce and freshness kept, and is a code that minted a token spent in the end? `ImplementsOneUse`, `SweepIsFinal`, `TokenBoundToApproval`, `ErrorsAreAllOrNothing`, `NonceSurvives`, `FreshWhenAdmitted`, `MintedCodeIsSpent` | 2 requests, fair, 1 opaque code of any of 4 approvals (S256, `plain`, no challenge; nonce, `max_age`), right and wrong clients, URIs and verifiers, a hook that removes every scope or adds one, a storage that loses the nonce, revocation by flag, TTL 1, clock to 3 |
| `Refresh_Overlap` | Does a rotated token stay dead, does a rotation keep its grant, and does a refresh that spent its token end with another one? `RotatedTokenIsDead`, `NoLateRotation`, `DeadStaysDead`, `RotationKeepsGrant`, `ImplementsOneUse`, `RevokedIsReplaced` | 2 refreshes that may chain, fair, with default and wider scope parameters, and a foreign client |
| `Family_Overlap` | Does a whole family stay within the approval and what the hook of its redemption added, does the signed challenge decide where the stored one has lost its method, is a family swept while quiet dead for good, does what either grant revokes stay revoked beside the other, and are codes and refresh tokens both one-use on the one store? `FamilyWithinApproval`, `TokenBoundToApproval`, `ExtinctFamilyStaysDead`, `RevocationSticks`, `CredentialsAreOneUse` (`ImplementsOneUse` and `RefreshOneUse!Spec`) | 2 redemptions of one signed S256 code, with the verifier or with the challenge in its place, and 2 rotations that may chain; a storage that loses `codeChallengeMethod`, a hook that returns a scope that was not approved; TTL 1, clock to 2 |
| `Endpoints_Overlap` | Is a token that was dead when it was asked about ever reported active? Who can end a token, and how much of it? `DeadOnArrivalIsRefused`, `RevocationIsTheOwners` (`OwnerRevocationKills`, `OnlyOwnersRevoke`) | 2 requests, 2 tokens, 16 kinds of request; revocation by epoch on shared rows, by flag and by deletion on copies, with and without the optional methods; names as `cid` |
| `Authorize_Session` | What survives a session? Is a browser sent to a registered place, is consent kept, is a code bound and its freshness decidable? `FrontChannelIsGuarded` (`DeliveredWhereRegistered`, `ImplicitIsForItsClients`), `ConsentIsKept`, `CodesCanBeJudged` (`CodesAreBound`, `FreshnessIsDecidable`) | 1 request of 52 kinds: 14 redirect URIs for either grant, every mix of PKCE and OIDC parameters; 3 registrations, 2 scope registries, a user who may be gone before the code is stored |
| `Dispatch_Enabling` | Is a request served by one grant as it was enabled, and does a session find its grant? `OneServerPerRequest` (`SoleResponder`, `ServedByOneEnabling`), `KnownCodeIsFound`, `SessionsEndAsBegun` (`CompletedByItsKind`, `SessionsKeepTheirGrant`) | 2 requests of 8 kinds, 4 batches (one fails half way), 2 code repositories, 1 custom grant, 4 instances, 1 restart |
| `Issuance_Credentials` | Who is issued what? `CredentialsDecide` (`NoLateAuthentication`, `GoodCredentialsPass`), `OidcScopesStayWithCodes` | 2 requests of 10 kinds, three of which introspect, revoke a token or revoke a code; credentials right, wrong, mixed and outdated; 3 registrations (one public), 2 scope registries, a hook that returns any scopes |
| `Tokens_Kinds` | Does each reader take its own kind of JWT, and say of it what the server granted? `EachReaderItsKind`, `ReadersTellTheGrant` (`HooksKeepTheUser`, `IntrospectionReportsTheRow`, `UserInfoWithinScopes`), `IdTokenTellsWhatHappened`, `IdTokensCanBeVerified` (`DiscoveryTellsTheTruth`, `KeysAreFound`) | 1 grant, 2 keys, 12 ways to start, 2 starts, hooks that return reserved names |
| `Expiry_Lifetimes` | Do the rounded lifetimes agree? `NobodyOutlivesTheRow`, `ExpiresInWithinASecond`, `RefreshTokenLivesItsTime`, `CodeLivesItsTime` | a token or a code; 3 ticks to the second, intervals of whole, broken and no seconds, and NaN; both wire forms; clock to 22 |
| `Adapters_Answers` | Is every request answered once, with the right headers, and does an error tell only the protocol's side? `AnsweredOnce`, `ErrorsTellTheProtocolOnly` | 1 request through each adapter, with and without an awaited answer, every error type |

A name followed by others in parentheses is their conjunction. `TypeOK` is checked for
the two grants. It is proved there and, as part of their inductive invariants, in
`TokenEndpoints`, `AuthorizeEndpoint`, `TokenIssuance` and `ServerDispatch`; in the
other modules it documents what the variables hold, and holds on the same instances.

Runs that show a disagreement between the code and what is written about it:

| Run | Violated | What happens |
| --- | --- | --- |
| `AuthCode_DoubleDelivery` | `AtMostOneDelivery` | two overlapping redemptions both get tokens |
| `Family_ReplayRace` | `ReplayRevokesDescendants` | a rotation under way outlives the replay sweep |

The passing properties say what holds instead: a redemption or refresh that
*arrives* after its credential was used mints nothing (`NoLateRotation`, and
`NoLateRedemption`), tokens reach a client only after the credential behind them is
spent (`RotatedTokenIsDead`, `DeliveredCodeIsSpent`), and a sweep that meets nobody in
flight is final (`SweepIsFinal`, `ExtinctFamilyStaysDead`). `NoLateRedemption` and
`DeliveredCodeIsSpent` are proved in section 4 and listed by no run, since
`CredentialsAreOneUse` answers only for what is spent and admits nobody after that. `OneUseCredential` is that promise as
a specification, and both grants are shown to implement it, each alone and the two
on one store.

### Where the documentation says otherwise

What the model was translated from is the code. Where it and the documentation
part, the model does what the code does; besides the two races above these are:

| Code | What it does | What is written |
| --- | --- | --- |
| `refresh_token.grant.ts:86` and `:49` | two overlapping refreshes both rotate one token, as two redemptions do | `docs/docs/grants/refresh_token.md:79`: "A Client can use each Refresh Token one time only." |
| `auth_code.grant.ts:523-539` | the guard of opaque codes never looks for `maxAge`; a row that lost it is not judged stale (`DroppedColumns`) | `docs/docs/endpoints/authorize.md:158`: the server "rejects the code exchange when `auth_time + max_age` is in the past" |
| `example/src/entities/auth_code.ts:52` | a row read back expires now, so a revoked code is not seen to be (`HydratesExpiry`) | `docs/docs/grants/authorization_code.md:246`: "The server rejects a second request with the same authorization code" |
| `client_credentials.grant.ts:121-124` | revoke answers 200 to an unknown hint (`swallowed` in `TokenEndpoints`) | `docs/docs/endpoints/revoke.md`: "The server rejects an unknown hint with `unsupported_token_type`." |
| `implicit.grant.ts:117` | an implicit token lives an hour (`IssueImplicit`) | `docs/docs/getting_started/repositories.md:104-105`: the expiry is replaced "using the TTL configured in `enableGrantType`" |
| `abstract.grant.ts:374` | `getGrantType` knows built-in identifiers only, so a custom grant that calls `validateClient` rejects everything (`RejectGrantType`) | `abstract.grant.ts:71-76`: "It holds the machinery the grants share: client authentication, ...", "Extend it to write a custom grant" |
| `auth_code.grant.ts:344` | a volunteered `plain` challenge is refused for `requiresS256`, whatever `requiresPKCE` (`ChallengeIsAccepted`) | `options.ts:99-100`: "Has no effect when `requiresPKCE` is `false`." |
| `token_exchange.grant.ts:96` | a callback that returns `undefined` is followed by a token of nobody (`Exchange`) | `token_exchange.grant.ts:32-33`: "Return `undefined`, or throw an {@link OAuthException}, to refuse the exchange." |
| `abstract.grant.ts:329` | a refresh of an OIDC grant is refused for its own scopes where they are not registered (`ScopesAreValid`) | `docs/docs/grants/refresh_token.md:20`: "They must be the scopes of the first token, or fewer." |
| `abstract.grant.ts:306` | of a Basic header's secret only what precedes its first colon counts (`HeadOf`) | `docs/docs/grants/token_exchange.md:56`: "Send the Client credentials in the request body, or use basic authentication." |
| `abstract.grant.ts:368` | a refresh token keeps the expiry its repository gave it | `entities/token.entity.ts:34-35`: "The server overwrites the value your repository sets with the TTL configured for the grant." |
| `auth_code.grant.ts:78` | without `authCodeTTL` a code lives ten minutes | `entities/auth_code.entity.ts:32-33`: "The server sets this to 15 minutes from issuance" |

### What the runs assume

**Bounds.** `MaxTime` stops the clock after one TTL has passed and one more second,
which is where each comparison changes; the families take one step of the clock, which
sets signed and stored expiries apart and leaves the end of a code's life to
`AuthCode_Overlap`. Requests arrive once each. Two requests are what a race needs,
and what a late arrival or a replay needs; that a third changes nothing for the
safety properties is what the theorems of section 4 say, for any number of requests.
`Family_Overlap` has four, two of either grant. One code or token is enough for races
on it. `AuthCode_Overlap` takes opaque codes, which depend on storage, and
`Family_Overlap` signed ones. `Authorize_Session` and
`Adapters_Answers` follow one request, because requests share nothing there but
what the owner of the server and the end user change. `Dispatch_Enabling` builds as many instances
as it takes to enable a grant, replace it during a request, and once more after a
restart. In `Issuance_Credentials` the second request refreshes what the first was
issued. `Tokens_Kinds` needs two starts to change a key under what it signed. Three
ticks to the second are what it takes to tell rounding down, rounding up and
neither apart; `Leeway` is one second. `CHECK_DEADLOCK FALSE` is set
in every configuration: once all requests are answered and the clock stopped the
system may rest.

**Fairness.** `AuthCode_Overlap` and `Refresh_Overlap` assume weak fairness of
`Step(r)` for each request. The event loop resumes every handler whose await settles; an await
that never settles is a failure of the repository, and one that rejects, or a
process that dies, is `Fail`, which is not fair and which `MintedCodeIsSpent` and `RevokedIsReplaced`
excuse.

**Symmetry** over request names is used in `Family_Overlap` and `Endpoints_Overlap`,
which check no liveness; requests differ in nothing but their
names.

## 4. Proofs

Every theorem holds for arbitrary constants that satisfy the module's
`ConstantsAssumption` (for `TokenFamilies` also `FamilyAssumption`: rotations mint
tokens of their own and get well-formed requests; for `HttpAdapters` it is
`HandlerAssumption`); TLC evaluates the assumptions on every run. The last column is what a theorem assumes besides.

| Module | Theorem | States | Extra assumption |
| --- | --- | --- | --- |
| `TokenFamiliesProofs`, first part | `TypeCorrect` | `Spec => []TypeOK` | - |
| | `CodeSpentBeforeDelivery` | `Spec => []DeliveredCodeIsSpent` | - |
| | `LateRedemptionMintsNothing` | `Spec => []NoLateRedemption` | `HydratesExpiry` |
| | `ErrorsLeaveAllOrNothing` | `Spec => []ErrorsAreAllOrNothing` | - |
| | `RedemptionIsOneUse` | `Spec => ImplementsOneUse` | `HydratesExpiry` |
| | `RevokedAccessSticks` | `Spec => AccessRevocationSticks` | - |
| | `QuietSweepIsFinal` | `Spec => []SweepIsFinal` | - |
| | `MintedTokenIsBound` | `Spec => []TokenBoundToApproval` | `ChallengeTravels` |
| | `NonceReachesIdToken` | `Spec => []NonceSurvives` | - |
| | `AdmittedWhileFresh` | `Spec => FreshWhenAdmitted` | `MaxAgeTravels` |
| `RefreshTokenGrantProofs` | `TypeCorrect` | `Spec => []TypeOK` | - |
| | `RotationNarrows` | `Spec => []RotationKeepsGrant` | - |
| | `RotatedDies` | `Spec => []RotatedTokenIsDead` | - |
| | `LateRotationMintsNothing` | `Spec => []NoLateRotation` | - |
| | `RevocationSticks` | `Spec => DeadStaysDead` | - |
| | `RotationIsOneUse` | `Spec => ImplementsOneUse` | - |
| `TokenFamiliesProofs`, second part | `FamilyStaysWithinApproval` | `FamilySpec => []FamilyWithinApproval` | - |
| | `ExtinctFamilyIsDead` | `FamilySpec => []ExtinctFamilyStaysDead` | - |
| | `FamilyCodeSpentBeforeDelivery` | `FamilySpec => []DeliveredCodeIsSpent` | - |
| | `FamilyLateRedemptionMintsNothing` | `FamilySpec => []NoLateRedemption` | `HydratesExpiry` |
| | `FamilyMintedTokenIsBound` | `FamilySpec => []TokenBoundToApproval` | `ChallengeTravels` |
| | `FamilyNonceReachesIdToken` | `FamilySpec => []NonceSurvives` | - |
| | `FamilyAdmittedWhileFresh` | `FamilySpec => FreshWhenAdmitted` | `MaxAgeTravels` |
| | `FamilyRevocationSticks` | `FamilySpec => RevocationSticks` | - |
| `TokenFamiliesProofs`, third part | `FamilyRotatedDies` | `FamilySpec => []R!RotatedTokenIsDead` | - |
| | `FamilyLateRotationMintsNothing` | `FamilySpec => []R!NoLateRotation` | - |
| | `FamilyRotationNarrows` | `FamilySpec => []R!RotationKeepsGrant` | - |
| | `FamilyCredentialsAreOneUse` | `FamilySpec => CredentialsAreOneUse` | `HydratesExpiry` |
| `TokenEndpointsProofs` | `DeadTokensAreRefused` | `Spec => []DeadOnArrivalIsRefused` | - |
| | `RevocationKeepsToOwners` | `Spec => []RevocationIsTheOwners` | - |
| `AuthorizeEndpointProofs` | `FrontChannelGuarded` | `Spec => []FrontChannelIsGuarded` | - |
| | `ConsentKept` | `Spec => []ConsentIsKept` | - |
| | `CodesAreJudgeable` | `Spec => []CodesCanBeJudged` | - |
| `TokenIssuanceProofs` | `CredentialsDecideAll` | `Spec => []CredentialsDecide` | - |
| | `OidcScopesStay` | `Spec => []OidcScopesStayWithCodes` | - |
| `ServerDispatchProofs` | `RequestsHaveOneServer` | `Spec => []OneServerPerRequest` | - |
| | `StoredCodeIsFound` | `Spec => []KnownCodeIsFound` | - |
| | `SessionsAreKept` | `Spec => []SessionsEndAsBegun` | - |
| | `HandlersAnswerOnce` | `HandlerSpec => []AnsweredOnce` | - |
| | `ErrorsKeepTheInside` | `HandlerSpec => []ErrorsTellTheProtocolOnly` | - |
| `SignedTokensProofs` | `EachReaderTakesItsKind` | `Spec => []EachReaderItsKind` | `HooksAssumption` |
| | `ReadersTellWhatWasGranted` | `Spec => []ReadersTellTheGrant` | `HooksAssumption` |
| | `IdTokensTellWhatHappened` | `Spec => []IdTokenTellsWhatHappened` | - |
| | `IdTokensAreVerifiable` | `Spec => []IdTokensCanBeVerified` | - |
| `ExpiriesProofs` | `AccessTokenEndsWithItsRow` | `Spec => []NobodyOutlivesTheRow` | - |
| | `ExpiresInIsWithinASecond` | `Spec => []ExpiresInWithinASecond` | - |
| | `RefreshTokenEndsWithItsExpiry` | `Spec => []RefreshTokenLivesItsTime` | - |
| | `CodeEndsWithItsTTL` | `Spec => []CodeLivesItsTime` | - |

### Redemption

The argument has two inductive invariants. `Shape` strengthens `TypeOK` by what a
suspended request relies on: a code that was delivered is stored, a request past
`Arrive` has its form, past `Resolve` its claims, past `PersistToken` its row.
`TypeOK` alone is not inductive, since `IssueRefreshToken` would extend a row that
is not there. `OneUseInv` then says for each request where it may stand: a
delivered or refused one has a spent code and a row, one that is late has a spent
code and can only be stopped, and one that was turned away has no row: `refused` are
those whose ID token was refused, after everything was stored, and
`ErrorsAreAllOrNothing` puts the two kinds of errors side by side. Spent codes stay
spent because nothing raises an expiry again (`SpentStays`), and a spent code is
seen as revoked by any reader whose storage returns the stored expiry
(`SpentIsRevoked`). That is where `HydratesExpiry` is needed: without it
`NoLateRedemption` does not hold, as section 3 says of the example's entity.

*One use.* The refinement maps a code to spent when its stored expiry is the
epoch, and a request to the holder of its code from a negative `isRevoked` on. A
`CheckRevoked` that passes is `Admit`; it may be, because `SpentIsRevoked` rules out
that the code was spent. `Respond` with tokens is `Answer`, which `OneUseInv` allows.
A later rejection or `Fail` is `Abandon`. Every other step is `Spend` of whatever is
spent after it, mostly nothing new.

*Rows.* `SweepInv` adds that every row was minted by the request it is named for,
from the code in its `origin`, that a request about to sweep saw a revoked code, and
that a code swept while quiet is revoked with nobody minting from it. A code found
revoked is found so ever after (`RevokedStays`: expiries are not raised, the clock
does not run back), so nobody becomes a minter of it again. No assumption on
hydration is needed: without it `isRevoked` is never positive and nothing is swept.

*Binding.* `BindingInv` says that a stored row agrees with the approved entity
(`RowAgrees`) and, for each stage of a redemption, what the checks so far tell
(`ChecksTell`): that the claims are the approval's, then that client and redirect
URI match, then whose user was loaded, then that the verifier passed. What
a minted token has beyond the approved scopes is `AddedByHook` by definition when it
is stored, and stays so because a request that has a row changes neither its claims
nor its scopes again. `ChallengeTravels` is
`OpaqueCodes => ChallengeColumns \cap DroppedColumns = {}`, where the columns are the
challenge and its method. A signed code carries its own copy of both, and the
comparison with storage only adds to it; an opaque code has no other copy, and a
storage that loses the challenge turns PKCE off for codes whose client sent one
voluntarily.

### Rotation

`Inv` of `RefreshTokenGrantProofs` is inductive. The step that carries it is that a
token can be presented only once it was handed out, so its row is no longer being
minted (`PresentedIsHandedOut`): from then on the row only ages, and nobody issues
it another refresh token. Hence the row a refresh read still agrees with the stored
one in all but its revocation (`OldIsCurrent`), a child stays within its parent
(`ChildWithinParent`), a parent revoked by `RevokeOld` stays dead
(`ReplacedIsDead`), and a late refresh meets a dead row and is stopped
(`LateIsStopped`). For the refinement, `OldIsKept` adds that a delivered request
still has the row it read.

### Families

`TokenFamilies` has the steps of `AuthCodeGrant` beside those of an instance of
`RefreshTokenGrant`, on the same rows. A step of a redemption is a step of
`AuthCodeGrant` (`RedeemIsNext`), so the lemmas about it apply as they stand, except
those that count on every row being a redemption's. A rotation touches nothing of
the redemptions but rows, and those only age (`Ages`), get the refresh token of the
request they are named for, or are new (`RedeemRows`, `RotateRows`). `FamilyShape`
is `Shape` and `OneUseInv` with the types of the rotations; what redemptions
promise alone follows for the family from it. Binding, nonce and freshness are
carried over lemma by lemma: a rotation changes none of what they speak of but
revocations, and `Respond` cannot tell a row that was revoked meanwhile from one
that was not.

*Within the approval.* `WithinInv` is `TellingInv` for the redemptions, and for each
row, and each row a rotation has read, that it is `Within`: of the client and user its
origin was approved for, and with no scopes but those of a `Root`, a row which a
redemption of that origin stored and whose scopes go beyond the approval by what the
hook of that redemption added. A rotation stores the grant it read with fewer scopes,
whatever its own hook returns. `BindingInv` is not needed,
and so the theorem does without `ChallengeTravels`.

*Extinct families.* `ExtinctFamilyStaysDead` alone is not inductive: `IssueRefreshToken`
brings the refresh half of a dead row back where revocation is not a flag. What
excludes it is that an extinct code is revoked and quiet, and stays so: revoked,
because expiries are not raised; without redemptions, because none passes its check
any more; without rotations, because one starts only with a live token, and the
family has none. `ExtinctInv` says that, and that whoever is about to extend a row
belongs to the family the row belongs to.

*Revocation.* `RevocationSticks` follows from where a row can change at all
(`FamilyRows`): it ages, gets the refresh token it lacks, or is new. It excepts the
rows in `Unissued`, those whose refresh token is yet to be issued: storage that
revokes by the epoch alone forgets a revocation when `issueRefreshToken` sets a new
expiry. Access tokens know no such exception.

*Rotation beside redemption.* That a token can be presented only once it was handed
out was an invariant of rotations alone; here a redemption mints tokens too, and a
replay revokes rows a rotation has read. `RotationInv` says it for both: the token a
rotation presents was answered by whichever grant minted it (`Presentable`), so
neither extends its row any more, and whoever was answered stays so. With that the
parts of the invariant of `RefreshTokenGrantProofs` (`OldIsCurrent`,
`ChildWithinParent`, `ReplacedIsDead`, `LateIsStopped`) are inductive again, each
step of a rotation by a lemma of its own (`RotationArrives` to `RotationEnds`) and
all steps of redemptions by `OthersKeepRotationOk`.

*Both one-use credentials.* `CredentialsAreOneUse` maps the codes as for the
redemptions alone, and a refresh token to spent when its expiry is revoked and its
row is not in `Unissued`: a replay may revoke a row before its refresh token is
issued, which is nobody's use of a token that does not exist yet. Spent refresh
tokens only grow (`SpentRefreshGrows`); `Validate` admits (`ValidateAdmits`), and so
needs a token that was not revoked, and `Respond` answers for a token that
`RevokeOld` has spent (`RespondAnswers`, by `ReplacedIsDead`).

### Nonce and freshness

`TellingInv` follows what the ID token and the age check will read: a stored row has
the approval's identity, and its nonce and freshness as far as the columns are kept
(`RowTells`); a resolved claim has the approval's nonce (`ClaimTells`). A row that
lost the nonce is never delivered, because `SurvivesStorage` re-reads it, so
`NonceReachesIdToken` needs no assumption on storage. It speaks of the nonce of an
openid request, since `/authorize` stores no other. The same guard does not look
at `maxAge`: hence `MaxAgeTravels`, which is
`OpaqueCodes => "maxAge" \notin DroppedColumns`, and the third line of the table in
section 3.

### Endpoints

`TokenEndpointsProofs` has two arguments over one `Shape`. For a token that was dead
when a request about it arrived, `DoomedInv` says at which place the request will
find out: a deleted or zeroed row when it is read, a flag in the row it read, an
expiry at the comparison after the hook. It needs `RowsInv`, that a flag is set only
by storage that revokes by flag and that an access expiry is the claimed one or 0;
otherwise a row without either sign would pass a reader that looks for one of them.
`OwnerInv` says that whoever may write passed `CheckOwner`, and that a row the
owner's request is done with is dead, which nothing undoes.

### Authorization requests

`Inv` of `AuthorizeEndpointProofs` is `TypeOK` with what each request has behind it:
the client it read is one the owner had registered since it arrived
(`ClientOk`), the session has the redirect URI and the PKCE method that were
validated (`SessionOk`), the user looked up again is the session's, or nobody because
that user is gone (`SubjectOk`; deleted users do not come back), and what was minted
repeats the session but for that (`MintedOk`). The
URI travels a long way as a string that matched a registered one, so
`FrontChannelGuarded` rests on a lemma about the matcher: whatever
`redirectUriMatches` accepts leads to the same place as the registered URI, up to the
port of a loopback address.

### Issuance

A request is a list of awaits in `left`. `Shape` says that the list is `Ordered`:
validation follows the lookup at once, the refresh token follows its row, and a
request that only authenticates its client has nothing to store. From there `AuthInv`
says that without good credentials, for the grant or the endpoint at hand, a request
stands before its validation or has ended, and that the client it read was registered
since it arrived, which is all that makes two awaits safe; and that a request with
good ones in its body, whose client stayed as it was, reads just that client and is
not turned away. `ScopesInv` says that granted scopes were registered at some time or
put in by the hook, for every grant but the code's; that those of a refresh are the
old token's, when the comparison at `refresh_token.grant.ts:43` has passed; and that
`origin` names the request a line of tokens began with, so that a scope nobody
registered is still accounted for after any number of refreshes.

### Dispatch

`Inv` of `ServerDispatchProofs` says that the table holds only what was enabled
together (`TableIsKnown`), no grant twice (`NoneTwice`), and that a request being
served has a responder that was enabled and would answer it. That there is just
one (`OneResponder`) is a fact about the `canRespondTo...` predicates of all grants,
custom ones included as far as they keep to their own identifier; the first that
responds exists because identifiers are found by position (`LeastOfNaturals`). A batch
is an induction written as steps: `Inv` holds after every entry, so it holds
however far a call got before it threw.

### Handlers

`HandlerInv` follows one request through the handler of any adapter: nothing is on
the wire until an answer was rendered, whatever is about to be written is the
rendering of the reply or of the error at hand (`Rendered`), and a handler that
rejected before it wrote did so because a redirect had nowhere to go and was not
awaited (`Unseen`), when the framework's own 500 without a text is the only answer
(`Fallback`). So there is one answer at the end, never none and never two; `Unseen` is
also all that `ErrorsTellTheProtocolOnly` has to look at besides `Rendered`.
`Targets`, where a reply may redirect to, is arbitrary.

### JWTs

Objects are functions from names to values, so the lemmas `SpreadAt` and `JsonAt`
say what a spread and a trip through JSON leave of them, and from them
`AccessClaimsAre`, `IdTokenClaimsAre` and their like say which claims a fresh JWT
has after a hook added its own. `Shape` adds to `TypeOK` what the constructor
checked of the running server, and that whoever holds a JWT other than a code was
given an access token with it. That is why what a JWT tells stays true (`Told`): a row
changes only at its redemption (`Signing`), when its only JWT is a code, which repeats
nothing the readers look at. `Apart` keeps the kinds apart by the names of their
claims. It needs `HooksAssumption`: the application's hooks do not add `auth_code_id`
or `refresh_token_id`, which the library does not strip, and an ID token's hook does
not guess the identifier of a row for its `jti`. TLC evaluates it on the hooks of
`Tokens_Kinds`. The other two theorems hold for all hooks. For verification,
`SignedCurrently` says that what carries the number of the present start was signed
with its key, algorithm and issuer; a key set that was read earlier holds only keys
named after themselves or by the application.

### Lifetimes

All of it comes down to two facts about dividing by a second, `SecondsBound` and
`SecondsApart`: what is left is less than a second, and a second more is its ticks
more. `FloorMonotone`, `FloorOfLag` and `CeilIs` follow, and cover both ways of
rounding and the leeway. `Shape` says from which row or TTL, and at what time, each
expiry was computed, and that this time is over. The properties then are
inequalities between the present time and those, with NaN and an absent expiry as
cases of their own. `MaxTime` is arbitrary, so the proofs do not depend on where the
clock stops.

### What is only model-checked

Liveness: `MintedCodeIsSpent` and `RevokedIsReplaced` hold under fairness, which
speaks of `ENABLED`, and tlapm does not reason about that. What they rest on besides
fairness is proved: a redemption that minted and ended in an error has a spent code
(`ErrorsAreAllOrNothing`), so one that minted can only go on or fail. Every other
property of a passing run is a theorem.

The two properties that the violation runs refute are not theorems, of course.

`OneUseCredential` starts with any set of credentials spent, since tokens of earlier
grants may be revoked before the first refresh arrives.

## 5. Not modelled, and the plan

Not modelled:

- cryptography and encodings: a signature verifies exactly for what was signed, and
  generated identifiers are fresh;
- how parameters, bodies and headers are read from each framework, and the wording
  of errors: nothing the properties are about depends on them;
- logging (`options.logger`), `scopeDelimiter` (scopes are sets), and the
  documentation site;
- the application's own half: log-in, consent form and storage engines, beyond what
  the repositories in `test/` and `example/` do.

What could come next: an abstract specification of a token's life that
`TokenEndpoints` implements; families under `TokenEndpoints`' revocation of single
tokens; and the two liveness properties, once a prover of `ENABLED` is at hand.
