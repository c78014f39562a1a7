------------------------------ MODULE Expiries ------------------------------
(***************************************************************************)
(* How long a token lives.  Storage keeps expiries to the tick (a          *)
(* millisecond), what is signed keeps seconds, and each place rounds its   *)
(* own way; awaits let the clock run between two of them.  An interval     *)
(* that cannot be parsed is NaN, with which every comparison is false.     *)
(* An access token with its refresh token, or a code, is followed (the two *)
(* share nothing but the clock); nothing is revoked.                       *)
(***************************************************************************)
EXTENDS Integers, Absence

CONSTANTS
  Second,            \* ticks in a second
  NaN,
  TTLs,              \* access token TTLs, in ticks or NaN
  RefreshTTLs,       \* what repository.issueRefreshToken adds, None: nothing
  CodeTTLs,          \* authCodeTTL options, None where the option is not used
  DefaultCodeTTL,    \* AuthCodeGrant's own
  Leeway,            \* options.notBeforeLeeway, in seconds
  MaxTime            \* bound: the clock stops here

Maybe(T) == T \cup {NaN}

\* follows: what is followed.  opaque: refresh tokens and codes are opaque.
\* checks: isRefreshTokenRevoked and isRevoked look at the row's expiry
\* besides a flag.
Mode == [follows : {"token", "code"}, opaque : BOOLEAN, checks : BOOLEAN]

Row    == [access : Maybe(Nat), refresh : Maybe(Nat) \cup {None}]
Code   == [ttl : Maybe(Nat), expiresAt : Maybe(Nat)]
Signed == [exp : Nat \cup {None}, nbf : Int]

ASSUME ConstantsAssumption ==
  /\ Second \in Nat \ {0}
  /\ Leeway \in Nat
  /\ MaxTime \in Nat /\ MaxTime >= Leeway * Second
  /\ TTLs \subseteq Maybe(Nat)
  /\ RefreshTTLs \subseteq Maybe(Nat) \cup {None}
  /\ CodeTTLs \subseteq Maybe(Nat) \cup {None}
  /\ DefaultCodeTTL \in Nat
  /\ NaN \notin Int \cup {None} /\ None \notin Int \cup Row \cup Code

VARIABLES
  now,         \* Date.now()
  mode,        \* the configuration, the same throughout
  pc,          \* how far the token response is
  ttl, row,    \* the grant's TTL, and the token's expiries
  jwt,         \* exp and nbf of the signed access token
  expireTime,  \* expire_time of the signed refresh token
  answer,      \* expires_in, and when it was sent
  code,        \* the authorization code's row
  codeClaim    \* expire_time of the code, and when it was signed

vars == <<now, mode, pc, ttl, row, jwt, expireTime, answer, code, codeClaim>>
token == <<pc, ttl, row, jwt, expireTime, answer>>

\* A reader may lag by the leeway, so the clock starts that late.
Start == Leeway * Second

Init ==
  /\ now = Start
  /\ mode \in Mode
  /\ pc = "idle"
  /\ ttl = None /\ row = None /\ jwt = None /\ expireTime = None /\ answer = None
  /\ code = None /\ codeClaim = None

-----------------------------------------------------------------------------
(* Arithmetic with NaN. *)

After(a, b) == a # NaN /\ b # NaN /\ a > b

\* getEndTimeMs.
EndOf(interval) == IF interval = NaN THEN NaN ELSE now + interval

Floor(t) == IF t = NaN THEN NaN ELSE t \div Second
Ceil(t)  == IF t = NaN THEN NaN ELSE (t + Second - 1) \div Second

\* JSON writes NaN as null.
Json(t) == IF t = NaN THEN None ELSE t

\* Mutant: the expiry is rounded to the next second.
RoundToSeconds_Up(t) == Ceil(t)

RoundToSeconds(t) == Floor(t)

-----------------------------------------------------------------------------
(* Issuing. *)

\* issueAccessToken, up to persist.
IssueAccessToken(interval) ==
  /\ mode.follows = "token" /\ pc = "idle"
  /\ pc' = "persisting"
  /\ ttl' = interval
  /\ row' = [access |-> EndOf(interval), refresh |-> None]
  /\ UNCHANGED <<now, mode, jwt, expireTime, answer, code, codeClaim>>

\* repository.issueRefreshToken: its expiry is kept as it is.
IssueRefreshToken(interval) ==
  /\ pc = "persisting"
  /\ pc' = "signing"
  /\ row' = [row EXCEPT !.refresh = IF interval = None THEN None ELSE EndOf(interval)]
  /\ UNCHANGED <<now, mode, ttl, jwt, expireTime, answer, code, codeClaim>>

NotBefore == Floor(now) - Leeway

\* encryptAccessToken.
SignAccessToken ==
  /\ pc = "signing"
  /\ pc' = "responding"
  /\ jwt' = [exp |-> Json(RoundToSeconds(row.access)), nbf |-> NotBefore]
  /\ UNCHANGED <<now, mode, ttl, row, expireTime, answer, code, codeClaim>>

\* Mutant: a second more, to be on the safe side.
ExpireTime_RoundedTwice(t) == IF t = NaN THEN NaN ELSE Ceil(t) + 1

\* encryptRefreshToken and OpaqueRefreshTokenEncoder.resolve round alike.
ExpireTime(t) == Ceil(t)

\* Mutant: the response tells the TTL.
ExpiresIn_Ttl(t) == Ceil(ttl)

\* getSecondsUntil, which may come to nothing or less.
ExpiresIn(t) == IF t = NaN THEN NaN ELSE Floor(t - now)

\* encryptRefreshToken, which falls back to the access token's expiry, and
\* the response.
Respond ==
  /\ pc = "responding"
  /\ pc' = "sent"
  /\ expireTime' = Json(ExpireTime(IF row.refresh = None THEN row.access ELSE row.refresh))
  /\ answer' = [expires_in |-> Json(ExpiresIn(row.access)), at |-> now]
  /\ UNCHANGED <<now, mode, ttl, row, jwt, code, codeClaim>>

CodeTTL(option) == IF option = None THEN DefaultCodeTTL ELSE option

\* issueAuthCode.
IssueCode(option) ==
  /\ mode.follows = "code" /\ code = None
  /\ code' = [ttl |-> CodeTTL(option), expiresAt |-> EndOf(CodeTTL(option))]
  /\ UNCHANGED <<now, mode, token, codeClaim>>

\* The code is signed later, with a TTL that counts from then; an opaque one
\* brings back its row's expiry.
SignCode ==
  /\ code # None /\ codeClaim = None
  /\ codeClaim' = [expire_time |-> IF mode.opaque THEN ExpireTime(code.expiresAt)
                                   ELSE Json(ExpireTime(EndOf(code.ttl))),
                   at |-> now]
  /\ UNCHANGED <<now, mode, token, code>>

Tick ==
  /\ now < MaxTime
  /\ now' = now + 1
  /\ UNCHANGED <<mode, token, code, codeClaim>>

-----------------------------------------------------------------------------
(* Reading: whether each reader would accept the token now. *)

\* AccessTokenVerifier, and jsonwebtoken before it, by a clock that shows t.
InLifetime(t) ==
  /\ jwt.exp # None /\ jwt.exp > Floor(t)
  /\ jwt.nbf <= Floor(t)

Verifies == jwt # None /\ InLifetime(now)

\* UserInfo reads the row as well.
UserInfoServes == Verifies /\ (row.access = NaN \/ row.access > now)

\* The example's requireAuth.
ApiServes == Verifies /\ (row.access = NaN \/ row.access >= now)

Introspects(half) ==
  /\ row # None
  /\ After(IF row[half] = None THEN 0 ELSE row[half], now)

\* What resolve returns as expire_time.
RefreshExpiry ==
  IF ~mode.opaque THEN expireTime
  ELSE IF row.refresh = None THEN None ELSE ExpireTime(row.refresh)

PastSecond(seconds) == seconds \notin {None, NaN} /\ now > seconds * Second

\* isRefreshTokenRevoked, as the in-memory repository implements it.
RefreshTokenRevoked ==
  mode.checks /\ After(now, IF row.refresh = None THEN 0 ELSE row.refresh)

\* validateOldRefreshToken.
RefreshAccepts == ~PastSecond(RefreshExpiry) /\ ~RefreshTokenRevoked

\* Mutant: isRevoked decides about the descendants only.
CodeAccepts_Unrevoked ==
  /\ mode.opaque \/ codeClaim.expire_time # None
  /\ ~PastSecond(codeClaim.expire_time)

\* isAuthCodePayload, which an opaque code does not go through, and
\* validateAuthorizationCode.
CodeAccepts ==
  /\ mode.opaque \/ codeClaim.expire_time # None
  /\ ~PastSecond(codeClaim.expire_time)
  /\ ~(mode.checks /\ After(now, code.expiresAt))

-----------------------------------------------------------------------------
Next ==
  \/ \E interval \in TTLs : IssueAccessToken(interval)
  \/ \E interval \in RefreshTTLs : IssueRefreshToken(interval)
  \/ SignAccessToken
  \/ Respond
  \/ \E option \in CodeTTLs : IssueCode(option)
  \/ SignCode
  \/ Tick

Spec == Init /\ [][Next]_vars

-----------------------------------------------------------------------------
(***************************************************************************)
(* Properties.                                                             *)
(***************************************************************************)

\* Every variable has its type.
TypeOK ==
  /\ now \in Start .. MaxTime
  /\ mode \in Mode
  /\ pc \in {"idle", "persisting", "signing", "responding", "sent"}
  /\ row # None => row \in Row
  /\ jwt # None => jwt \in Signed
  /\ expireTime \in Nat \cup {None}
  /\ answer # None => answer \in [expires_in : Int \cup {None}, at : Start .. now]
  /\ code # None => code \in Code
  /\ codeClaim # None => codeClaim \in [expire_time : Maybe(Nat) \cup {None}, at : Start .. now]

\* However the expiry was rounded, nobody accepts an access token that
\* storage has let expire: what the signature says ends first, by less than a
\* second.  A TTL that cannot be parsed makes a token nobody accepts, and not
\* one that never expires.
NobodyOutlivesTheRow ==
  Verifies \/ UserInfoServes \/ ApiServes =>
    Introspects("access")

\* A reader whose clock lags by no more than the leeway accepts the token.
LaggingReadersAccept == \A lag \in 0 .. Leeway * Second : InLifetime(now - lag)

\* A response is out by less than a second: the token is accepted until a
\* second before the time the client was told at the earliest, by readers
\* whose clocks lag as well, and refused a second after it at the latest,
\* however long the issuing took.
ExpiresInWithinASecond ==
  pc = "sent" /\ answer.expires_in # None =>
    /\ now < answer.at + (answer.expires_in - 1) * Second => LaggingReadersAccept
    /\ Verifies => now < answer.at + (answer.expires_in + 1) * Second

\* A refresh token is accepted until its expiry to the tick, and for less
\* than a second after it where only the rounded expiry is looked at,
\* in both wire forms.
RefreshTokenLivesItsTime ==
  pc = "sent" /\ row.refresh \in Nat =>
    /\ now <= row.refresh => RefreshAccepts
    /\ RefreshAccepts => now < row.refresh + (IF mode.checks THEN 1 ELSE Second)

\* A code is accepted no longer than its row lives where the repository looks
\* at the row, and otherwise for less than a second more than the TTL
\* counted from its signing.  A signed code of a TTL that cannot be parsed is
\* not accepted.
CodeLivesItsTime ==
  codeClaim # None /\ CodeAccepts =>
    IF code.ttl = NaN THEN mode.opaque
    ELSE IF mode.checks THEN now <= code.expiresAt
    ELSE now < codeClaim.at + code.ttl + Second
=============================================================================
