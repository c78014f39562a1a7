---------------------------- MODULE ExpiriesProofs ----------------------------
(***************************************************************************)
(* Proofs about the lifetimes of tokens and codes, for any number of ticks *)
(* in a second, any TTLs, any leeway and any time between two steps.       *)
(***************************************************************************)
EXTENDS Expiries, TLAPS

-----------------------------------------------------------------------------
(***************************************************************************)
(* Rounding.                                                               *)
(***************************************************************************)

\* Dividing by a second leaves less than a second.
LEMMA SecondsBound ==
  ASSUME NEW t \in Int
  PROVE  /\ t \div Second \in Int
         /\ (t \div Second) * Second <= t
         /\ t < (t \div Second) * Second + Second
  BY ConstantsAssumption

LEMMA SecondsApart ==
  ASSUME NEW a \in Int, NEW b \in Int
  PROVE  /\ a * Second \in Int /\ b * Second \in Int
         /\ a < b => a * Second + Second <= b * Second
         /\ (a - b) * Second = a * Second - b * Second
         /\ (a + 1) * Second = a * Second + Second
  BY ConstantsAssumption

LEMMA FloorIs ==
  ASSUME NEW t \in Int
  PROVE  /\ Floor(t) \in Int
         /\ Floor(t) * Second \in Int
         /\ Floor(t) * Second <= t /\ t < Floor(t) * Second + Second
  BY SecondsBound, SecondsApart, ConstantsAssumption DEF Floor

\* Of a time that is not before zero neither is the second.
LEMMA NoSecondBeforeZero ==
  ASSUME NEW a \in Int, a * Second + Second > 0
  PROVE  a \in Nat
  BY ConstantsAssumption

LEMMA FloorNat ==
  ASSUME NEW t \in Nat
  PROVE  Floor(t) \in Nat
<1>1. Floor(t) \in Int /\ Floor(t) * Second \in Int /\ t < Floor(t) * Second + Second
  BY FloorIs
<1>2. Floor(t) * Second + Second > 0
  BY <1>1, ConstantsAssumption
<1>. QED  BY <1>1, <1>2, NoSecondBeforeZero

\* The second of a later time is no earlier one, and a second's ticks later
\* it is a later one.
LEMMA FloorMonotone ==
  ASSUME NEW t \in Int, NEW u \in Int
  PROVE  /\ t <= u => Floor(t) <= Floor(u)
         /\ t + Second <= u => Floor(t) < Floor(u)
         /\ Floor(t) < Floor(u) => t < u
<1>1. /\ Floor(t) \in Int /\ Floor(t) * Second \in Int
      /\ Floor(t) * Second <= t /\ t < Floor(t) * Second + Second
      /\ Floor(u) \in Int /\ Floor(u) * Second \in Int
      /\ Floor(u) * Second <= u /\ u < Floor(u) * Second + Second
  BY FloorIs
<1>2. /\ Floor(t) < Floor(u) => Floor(t) * Second + Second <= Floor(u) * Second
      /\ Floor(u) < Floor(t) => Floor(u) * Second + Second <= Floor(t) * Second
  BY <1>1, SecondsApart
<1>3. Floor(t) = Floor(u) => Floor(t) * Second = Floor(u) * Second
  OBVIOUS
<1>. QED  BY <1>1, <1>2, <1>3, ConstantsAssumption

LEMMA FloorOfLag ==
  ASSUME NEW t \in Int, NEW lag \in 0 .. Leeway * Second
  PROVE  Floor(t) - Leeway <= Floor(t - lag)
<1>1. Leeway \in Int /\ Second \in Nat \ {0} /\ Leeway * Second \in Int /\ lag \in Int
  BY ConstantsAssumption, SecondsApart
<1>2. \A a, b \in Int :
        a * Second <= t /\ t - lag < b * Second + Second => a - Leeway <= b
  <2>1. SUFFICES ASSUME NEW a \in Int, NEW b \in Int, b < a - Leeway, a * Second <= t,
                        t - lag < b * Second + Second
                 PROVE  FALSE
    BY <1>1
  <2>2. a - Leeway \in Int /\ (a - Leeway) * Second = a * Second - Leeway * Second
    BY <1>1, SecondsApart
  <2>3. b * Second + Second <= (a - Leeway) * Second
    BY <1>1, <2>1, <2>2, SecondsApart
  <2>4. a * Second \in Int /\ b * Second \in Int
    BY SecondsApart
  <2>. QED  BY <1>1, <2>1, <2>2, <2>3, <2>4
<1>3. /\ Floor(t) \in Int /\ Floor(t) * Second <= t
      /\ Floor(t - lag) \in Int /\ t - lag < Floor(t - lag) * Second + Second
  BY <1>1, FloorIs
<1>. QED  BY <1>2, <1>3

\* Rounding up ends less than a second late, and never early.
LEMMA CeilIs ==
  ASSUME NEW t \in Nat
  PROVE  /\ Ceil(t) \in Nat
         /\ Ceil(t) * Second \in Int
         /\ t <= Ceil(t) * Second /\ Ceil(t) * Second < t + Second
<1>1. Second \in Nat \ {0} /\ t + Second - 1 \in Nat /\ t # NaN
  BY ConstantsAssumption
<1>2. Ceil(t) = (t + Second - 1) \div Second
  BY <1>1 DEF Ceil
<1>3. /\ Ceil(t) \in Int /\ Ceil(t) * Second \in Int
      /\ Ceil(t) * Second <= t + Second - 1 /\ t + Second - 1 < Ceil(t) * Second + Second
  BY <1>1, <1>2, SecondsBound, SecondsApart
<1>. QED  BY <1>1, <1>3, NoSecondBeforeZero

-----------------------------------------------------------------------------
(***************************************************************************)
(* The invariant: where each expiry comes from, and that the time it was   *)
(* computed from is over.                                                  *)
(***************************************************************************)
JwtFromRow ==
  /\ jwt # None => pc \in {"responding", "sent"}
  /\ pc \in {"responding", "sent"} =>
       /\ jwt \in Signed
       /\ jwt.exp = Json(Floor(row.access)) /\ jwt.nbf <= Floor(now) - Leeway

AnswerFromRow ==
  pc = "sent" =>
    /\ expireTime = Json(ExpireTime(IF row.refresh = None THEN row.access ELSE row.refresh))
    /\ answer \in [expires_in : Int \cup {None}, at : Start .. now]
    /\ answer.expires_in = IF row.access = NaN THEN None ELSE Floor(row.access - answer.at)

CodeFromTTL ==
  /\ code # None =>
       /\ code.ttl = NaN <=> code.expiresAt = NaN
       /\ code.ttl # NaN => code.expiresAt <= now + code.ttl
  /\ codeClaim # None =>
       /\ code # None
       /\ code.ttl # NaN => code.expiresAt <= codeClaim.at + code.ttl
       /\ codeClaim.expire_time =
            IF mode.opaque THEN ExpireTime(code.expiresAt)
            ELSE Json(ExpireTime(IF code.ttl = NaN THEN NaN ELSE codeClaim.at + code.ttl))

Shape ==
  /\ TypeOK
  /\ pc = "idle" <=> row = None
  /\ JwtFromRow
  /\ AnswerFromRow
  /\ CodeFromTTL

LEMMA StartInt == Start \in Nat /\ Start <= MaxTime /\ MaxTime \in Nat
  BY ConstantsAssumption, SecondsApart DEF Start

LEMMA InitShape == Init => Shape
  BY StartInt DEF Init, Shape, TypeOK, JwtFromRow, AnswerFromRow, CodeFromTTL

\* The values the arithmetic with NaN yields.
LEMMA NowType ==
  ASSUME Shape
  PROVE  /\ now \in Nat /\ now \in Start .. MaxTime /\ Start \in Nat
         /\ \A interval \in Maybe(Nat) :
              /\ EndOf(interval) \in Maybe(Nat)
              /\ interval = NaN => EndOf(interval) = NaN
              /\ interval # NaN => EndOf(interval) = now + interval /\ EndOf(interval) # NaN
         /\ \A t \in Maybe(Nat) :
              /\ Json(Floor(t)) \in Nat \cup {None}
              /\ ExpireTime(t) \in Maybe(Nat) /\ Json(ExpireTime(t)) \in Nat \cup {None}
<1>1. now \in Start .. MaxTime /\ now \in Nat /\ Start \in Nat
  BY StartInt DEF Shape, TypeOK
<1>2. \A interval \in Maybe(Nat) :
        /\ EndOf(interval) \in Maybe(Nat)
        /\ interval = NaN => EndOf(interval) = NaN
        /\ interval # NaN => EndOf(interval) = now + interval /\ EndOf(interval) # NaN
  BY <1>1, ConstantsAssumption DEF EndOf, Maybe
<1>3. ASSUME NEW t \in Maybe(Nat)
      PROVE  /\ Json(Floor(t)) \in Nat \cup {None}
             /\ ExpireTime(t) \in Maybe(Nat) /\ Json(ExpireTime(t)) \in Nat \cup {None}
  <2>1. CASE t = NaN
    BY <2>1 DEF Json, Floor, ExpireTime, Ceil, Maybe
  <2>2. CASE t \in Nat
    BY <2>2, FloorNat, CeilIs DEF Json, ExpireTime, Maybe
  <2>. QED  BY <2>1, <2>2 DEF Maybe
<1>. QED  BY <1>1, <1>2, <1>3

LEMMA IssueShape ==
  ASSUME Shape
  PROVE  /\ \A interval \in TTLs : IssueAccessToken(interval) => Shape'
         /\ \A interval \in RefreshTTLs : IssueRefreshToken(interval) => Shape'
<1>1. ASSUME NEW interval \in TTLs, IssueAccessToken(interval)
      PROVE  Shape'
  <2>1. row' \in Row /\ row' # None
    BY <1>1, NowType, ConstantsAssumption DEF IssueAccessToken, Row
  <2>. QED  BY <1>1, <2>1 DEF IssueAccessToken, Shape, TypeOK, JwtFromRow, AnswerFromRow, CodeFromTTL
<1>2. ASSUME NEW interval \in RefreshTTLs, IssueRefreshToken(interval)
      PROVE  Shape'
  <2>1. row \in Row
    BY <1>2 DEF Shape, TypeOK, IssueRefreshToken
  <2>2. interval # None => EndOf(interval) \in Maybe(Nat)
    BY NowType, ConstantsAssumption
  <2>3. row' \in Row /\ row' # None
    BY <1>2, <2>1, <2>2, ConstantsAssumption DEF IssueRefreshToken, Row
  <2>. QED  BY <1>2, <2>3 DEF IssueRefreshToken, Shape, TypeOK, JwtFromRow, AnswerFromRow, CodeFromTTL
<1>. QED  BY <1>1, <1>2

LEMMA SignShape ==
  ASSUME Shape, SignAccessToken
  PROVE  Shape'
<1>1. now \in Nat /\ Floor(now) \in Int /\ Leeway \in Nat
  BY NowType, FloorIs, ConstantsAssumption
<1>2. row \in Row /\ Json(Floor(row.access)) \in Nat \cup {None}
  BY NowType DEF Shape, TypeOK, SignAccessToken, Row
<1>3. /\ jwt' = [exp |-> Json(Floor(row.access)), nbf |-> Floor(now) - Leeway]
      /\ jwt' \in Signed
  BY <1>1, <1>2 DEF SignAccessToken, RoundToSeconds, NotBefore, Signed
<1>4. row' = row /\ now' = now /\ pc' = "responding"
  BY DEF SignAccessToken
<1>5. JwtFromRow'
  BY <1>1, <1>3, <1>4 DEF JwtFromRow, Floor
<1>6. TypeOK' /\ AnswerFromRow' /\ CodeFromTTL'
  BY <1>3 DEF SignAccessToken, Shape, TypeOK, AnswerFromRow, CodeFromTTL
<1>. QED  BY <1>4, <1>5, <1>6 DEF SignAccessToken, Shape

LEMMA RespondShape ==
  ASSUME Shape, Respond
  PROVE  Shape'
<1>1. now \in Nat /\ now \in Start .. MaxTime /\ Start \in Nat
  BY NowType
<1>2. row \in Row /\ row.access \in Maybe(Nat)
  BY DEF Shape, TypeOK, Respond, Row
<1>3. Json(ExpiresIn(row.access)) =
        IF row.access = NaN THEN None ELSE Floor(row.access - now)
  <2>1. row.access # NaN => Floor(row.access - now) \in Int
    BY <1>1, <1>2, FloorIs DEF Maybe
  <2>. QED  BY <1>2, <2>1, ConstantsAssumption DEF Json, ExpiresIn, Maybe
<1>4. Json(ExpiresIn(row.access)) \in Int \cup {None}
  BY <1>1, <1>2, <1>3, FloorIs DEF Maybe
<1>5. /\ answer' = [expires_in |-> Json(ExpiresIn(row.access)), at |-> now]
      /\ answer' \in [expires_in : Int \cup {None}, at : Start .. now]
  BY <1>1, <1>4 DEF Respond
<1>6. /\ expireTime' = Json(ExpireTime(IF row.refresh = None THEN row.access ELSE row.refresh))
      /\ expireTime' \in Nat \cup {None}
  BY <1>2, NowType DEF Respond, Row
<1>7. row' = row /\ now' = now /\ pc' = "sent" /\ jwt' = jwt
  BY DEF Respond
<1>8. AnswerFromRow'
  BY <1>3, <1>5, <1>6, <1>7 DEF AnswerFromRow
<1>9. TypeOK' /\ JwtFromRow' /\ CodeFromTTL'
  BY <1>5, <1>6 DEF Respond, Shape, TypeOK, JwtFromRow, CodeFromTTL
<1>. QED  BY <1>7, <1>8, <1>9 DEF Respond, Shape

LEMMA IssueCodeShape ==
  ASSUME Shape, NEW option \in CodeTTLs, IssueCode(option)
  PROVE  Shape'
<1>1. CodeTTL(option) \in Maybe(Nat)
  BY ConstantsAssumption DEF CodeTTL, Maybe
<1>2. /\ code' = [ttl |-> CodeTTL(option), expiresAt |-> EndOf(CodeTTL(option))]
      /\ code' \in Code /\ code' # None
  BY <1>1, NowType, ConstantsAssumption DEF IssueCode, Code
<1>3. now \in Nat /\ now' = now /\ code = None
  BY NowType DEF IssueCode
<1>4. CodeFromTTL'
  <2>1. codeClaim' = None
    BY <1>3 DEF IssueCode, Shape, CodeFromTTL
  <2>. QED  BY <1>1, <1>2, <1>3, <2>1, NowType DEF CodeFromTTL, Maybe
<1>5. TypeOK' /\ JwtFromRow' /\ AnswerFromRow'
  BY <1>2 DEF IssueCode, token, Shape, TypeOK, JwtFromRow, AnswerFromRow
<1>. QED  BY <1>4, <1>5 DEF IssueCode, token, Shape

LEMMA SignCodeShape ==
  ASSUME Shape, SignCode
  PROVE  Shape'
<1>1. /\ code \in Code /\ code # None /\ now \in Nat /\ now \in Start .. MaxTime
      /\ mode \in Mode /\ Start \in Nat
  BY NowType DEF Shape, TypeOK, SignCode
<1>2. /\ code.ttl \in Maybe(Nat) /\ code.expiresAt \in Maybe(Nat)
      /\ EndOf(code.ttl) = IF code.ttl = NaN THEN NaN ELSE now + code.ttl
  BY <1>1 DEF Code, EndOf
<1>3. codeClaim' = [expire_time |-> IF mode.opaque THEN ExpireTime(code.expiresAt)
                                    ELSE Json(ExpireTime(EndOf(code.ttl))),
                    at |-> now]
  BY DEF SignCode
<1>4. codeClaim' \in [expire_time : Maybe(Nat) \cup {None}, at : Start .. now]
  <2>1. ExpireTime(code.expiresAt) \in Maybe(Nat)
        /\ Json(ExpireTime(EndOf(code.ttl))) \in Nat \cup {None}
    BY <1>2, NowType
  <2>. QED  BY <1>1, <1>3, <2>1 DEF Maybe
<1>5. now' = now /\ code' = code /\ mode' = mode
  BY DEF SignCode
<1>6. CodeFromTTL'
  BY <1>1, <1>2, <1>3, <1>5 DEF Shape, CodeFromTTL, ExpireTime, Ceil, Json
<1>7. TypeOK' /\ JwtFromRow' /\ AnswerFromRow'
  BY <1>4 DEF SignCode, token, Shape, TypeOK, JwtFromRow, AnswerFromRow
<1>. QED  BY <1>6, <1>7 DEF SignCode, token, Shape

LEMMA TickShape ==
  ASSUME Shape, Tick
  PROVE  Shape'
<1>1. now \in Nat /\ now \in Start .. MaxTime /\ Start \in Nat /\ MaxTime \in Nat
      /\ now' = now + 1 /\ now' <= MaxTime
  BY NowType, StartInt DEF Tick
<1>2. UNCHANGED <<mode, pc, ttl, row, jwt, expireTime, answer, code, codeClaim>>
  BY DEF Tick, token
<1>3. JwtFromRow'
  <2>1. Floor(now) <= Floor(now + 1) /\ Floor(now) \in Int /\ Floor(now + 1) \in Int
        /\ Leeway \in Nat
    BY <1>1, FloorMonotone, FloorIs, ConstantsAssumption
  <2>2. jwt \in Signed => jwt.nbf \in Int
    BY DEF Signed
  <2>3. (Floor(now))' = Floor(now + 1) /\ (Json(Floor(row.access)))' = Json(Floor(row.access))
    BY <1>1, <1>2 DEF Floor, Json
  <2>. QED  BY <1>2, <2>1, <2>2, <2>3 DEF Shape, JwtFromRow
<1>4. AnswerFromRow'
  BY <1>1, <1>2 DEF Shape, AnswerFromRow, ExpireTime, Ceil, Json, Floor
<1>5. CodeFromTTL'
  <2>1. code # None => code.ttl \in Maybe(Nat) /\ code.expiresAt \in Maybe(Nat)
    BY DEF Shape, TypeOK, Code
  <2>. QED  BY <1>1, <1>2, <2>1 DEF Shape, CodeFromTTL, ExpireTime, Ceil, Json, Maybe
<1>6. TypeOK'
  <2>1. Start .. now \subseteq Start .. now'
    BY <1>1
  <2>. QED  BY <1>1, <1>2, <2>1 DEF Shape, TypeOK
<1>. QED  BY <1>2, <1>3, <1>4, <1>5, <1>6 DEF Shape

LEMMA NextShape == Shape /\ [Next]_vars => Shape'
<1>. SUFFICES ASSUME Shape, [Next]_vars  PROVE Shape'
  OBVIOUS
<1>1. CASE UNCHANGED vars
  BY <1>1 DEF vars, Shape, TypeOK, JwtFromRow, AnswerFromRow, CodeFromTTL, Floor, Json,
              ExpireTime, Ceil
<1>. QED  BY <1>1, IssueShape, SignShape, RespondShape, IssueCodeShape, SignCodeShape, TickShape
          DEF Next

\* Every expiry that was signed or answered comes from the row or the TTL that
\* was there when it was, and no clock runs behind it.
THEOREM ExpiriesTypeCorrect == Spec => []Shape
<1>. QED  BY InitShape, NextShape, PTL DEF Spec

-----------------------------------------------------------------------------
(***************************************************************************)
(* What the readers make of the expiries.                                  *)
(***************************************************************************)

\* A signed token ends in the second its row ends in, so before it.
LEMMA VerifiedLives ==
  ASSUME Shape, Verifies
  PROVE  /\ row # None /\ row.access \in Nat /\ row.access # NaN
         /\ jwt.exp = Floor(row.access) /\ now < row.access
<1>1. pc \in {"responding", "sent"} /\ row \in Row /\ row # None
      /\ jwt.exp = Json(Floor(row.access)) /\ jwt.exp # None /\ jwt.exp > Floor(now)
  BY DEF Shape, TypeOK, JwtFromRow, Verifies, InLifetime
<1>2. row.access \in Nat /\ row.access # NaN
  BY <1>1, ConstantsAssumption DEF Row, Maybe, Json, Floor
<1>3. Floor(row.access) \in Int /\ Json(Floor(row.access)) = Floor(row.access)
  BY <1>2, FloorIs, ConstantsAssumption DEF Json
<1>4. now < row.access
  BY <1>1, <1>2, <1>3, NowType, FloorMonotone
<1>. QED  BY <1>1, <1>2, <1>3, <1>4

\* No reader accepts an access token that storage has let expire, and none
\* accepts one whose TTL could not be parsed.
THEOREM AccessTokenEndsWithItsRow == Spec => []NobodyOutlivesTheRow
<1>1. Shape => NobodyOutlivesTheRow
  BY VerifiedLives, NowType, ConstantsAssumption
     DEF NobodyOutlivesTheRow, UserInfoServes, ApiServes, Introspects, After
<1>. QED  BY <1>1, ExpiriesTypeCorrect, PTL

\* The answer's expires_in is out by less than a second, for readers whose
\* clocks lag by no more than the leeway, however long the issuing took.
THEOREM ExpiresInIsWithinASecond == Spec => []ExpiresInWithinASecond
<1>1. ASSUME Shape, pc = "sent", answer.expires_in # None
      PROVE  /\ now < answer.at + (answer.expires_in - 1) * Second => LaggingReadersAccept
             /\ Verifies => now < answer.at + (answer.expires_in + 1) * Second
  <2>1. /\ row \in Row /\ row.access \in Nat /\ row.access # NaN
        /\ answer.expires_in = Floor(row.access - answer.at)
        /\ answer.at \in Nat /\ answer.at <= now /\ now \in Nat
    BY <1>1, NowType DEF Shape, TypeOK, AnswerFromRow, Row, Maybe
  <2>. DEFINE e == answer.expires_in
  <2>2. /\ e \in Int /\ e * Second \in Int /\ Second \in Nat \ {0}
        /\ e * Second <= row.access - answer.at
        /\ row.access - answer.at < e * Second + Second
    BY <2>1, FloorIs, ConstantsAssumption
  <2>3. /\ (e - 1) * Second = e * Second - Second
        /\ (e + 1) * Second = e * Second + Second
    <3>1. e - 1 \in Int /\ (e - 1) + 1 = e
      BY <2>2
    <3>2. ((e - 1) + 1) * Second = (e - 1) * Second + Second
          /\ (e - 1) * Second \in Int
      BY <3>1, SecondsApart
    <3>3. (e + 1) * Second = e * Second + Second
      BY <2>2, SecondsApart
    <3>. QED  BY <2>2, <3>1, <3>2, <3>3
  <2>4. ASSUME now < answer.at + (e - 1) * Second
        PROVE  LaggingReadersAccept
    <3>1. Floor(now) < Floor(row.access)
      <4>1. now + Second <= row.access
        BY <2>1, <2>2, <2>3, <2>4
      <4>. QED  BY <2>1, <4>1, FloorMonotone
    <3>2. jwt.exp = Floor(row.access) /\ jwt.exp # None /\ jwt.exp \in Int
          /\ jwt.nbf \in Int /\ jwt.nbf <= Floor(now) - Leeway
      BY <1>1, <2>1, FloorIs, ConstantsAssumption DEF Shape, JwtFromRow, Json, Signed
    <3>3. ASSUME NEW lag \in 0 .. Leeway * Second
          PROVE  InLifetime(now - lag)
      <4>1. now - lag \in Int /\ now - lag <= now
        BY <2>1, ConstantsAssumption, SecondsApart
      <4>2. Floor(now - lag) <= Floor(now)
        BY <2>1, <4>1, FloorMonotone
      <4>3. Floor(now) - Leeway <= Floor(now - lag)
        BY <2>1, FloorOfLag
      <4>4. Floor(now) \in Int /\ Floor(now - lag) \in Int /\ Floor(row.access) \in Int
        BY <2>1, <4>1, FloorIs
      <4>. QED  BY <3>1, <3>2, <4>2, <4>3, <4>4, ConstantsAssumption DEF InLifetime
    <3>. QED  BY <3>3 DEF LaggingReadersAccept
  <2>5. ASSUME Verifies
        PROVE  now < answer.at + (e + 1) * Second
    <3>1. now < row.access
      BY <1>1, <2>5, VerifiedLives
    <3>. QED  BY <2>1, <2>2, <2>3, <3>1
  <2>. QED  BY <2>4, <2>5
<1>2. Shape => ExpiresInWithinASecond
  BY <1>1 DEF ExpiresInWithinASecond
<1>. QED  BY <1>2, ExpiriesTypeCorrect, PTL

\* A refresh token is accepted until its expiry to the tick, and less than a
\* second longer where only the rounded expiry is looked at.
THEOREM RefreshTokenEndsWithItsExpiry == Spec => []RefreshTokenLivesItsTime
<1>1. ASSUME Shape, pc = "sent", row.refresh \in Nat
      PROVE  /\ now <= row.refresh => RefreshAccepts
             /\ RefreshAccepts => now < row.refresh + (IF mode.checks THEN 1 ELSE Second)
  <2>1. now \in Nat /\ mode \in Mode /\ row.refresh # None /\ row.refresh # NaN
        /\ Second \in Nat \ {0}
    BY <1>1, NowType, ConstantsAssumption DEF Shape, TypeOK
  <2>2. /\ Ceil(row.refresh) \in Nat /\ Ceil(row.refresh) * Second \in Int
        /\ row.refresh <= Ceil(row.refresh) * Second
        /\ Ceil(row.refresh) * Second < row.refresh + Second
        /\ Ceil(row.refresh) \notin {None, NaN}
    BY <1>1, CeilIs, ConstantsAssumption
  <2>3. RefreshExpiry = Ceil(row.refresh)
    BY <1>1, <2>1, <2>2 DEF RefreshExpiry, Shape, AnswerFromRow, ExpireTime, Json
  <2>4. PastSecond(RefreshExpiry) <=> now > Ceil(row.refresh) * Second
    BY <2>2, <2>3 DEF PastSecond
  <2>5. RefreshTokenRevoked <=> mode.checks /\ now > row.refresh
    BY <2>1, ConstantsAssumption DEF RefreshTokenRevoked, After
  <2>. QED  BY <1>1, <2>1, <2>2, <2>4, <2>5 DEF RefreshAccepts
<1>2. Shape => RefreshTokenLivesItsTime
  BY <1>1 DEF RefreshTokenLivesItsTime
<1>. QED  BY <1>2, ExpiriesTypeCorrect, PTL

\* A code is accepted no longer than its row lives where the row is looked
\* at, and otherwise less than a second longer than its TTL from signing.
THEOREM CodeEndsWithItsTTL == Spec => []CodeLivesItsTime
<1>1. ASSUME Shape, codeClaim # None, CodeAccepts
      PROVE  IF code.ttl = NaN THEN mode.opaque
             ELSE IF mode.checks THEN now <= code.expiresAt
             ELSE now < codeClaim.at + code.ttl + Second
  <2>1. /\ code \in Code /\ code.ttl \in Maybe(Nat) /\ code.expiresAt \in Maybe(Nat)
        /\ now \in Nat /\ codeClaim.at \in Nat /\ mode \in Mode
    BY <1>1, NowType DEF Shape, TypeOK, CodeFromTTL, Code
  <2>2. CASE code.ttl = NaN
    BY <1>1, <2>2, ConstantsAssumption
       DEF Shape, CodeFromTTL, CodeAccepts, ExpireTime, Ceil, Json
  <2>3. CASE code.ttl # NaN /\ mode.checks
    <3>1. code.expiresAt \in Nat /\ code.expiresAt # NaN
      BY <1>1, <2>1, <2>3 DEF Shape, CodeFromTTL, Maybe
    <3>. QED  BY <1>1, <2>1, <2>3, <3>1, ConstantsAssumption DEF CodeAccepts, After
  <2>4. CASE code.ttl # NaN /\ ~mode.checks
    <3>. DEFINE end == IF mode.opaque THEN code.expiresAt ELSE codeClaim.at + code.ttl
    <3>1. end \in Nat /\ end # NaN /\ end <= codeClaim.at + code.ttl
          /\ code.ttl \in Nat
      BY <1>1, <2>1, <2>4, ConstantsAssumption DEF Shape, CodeFromTTL, Maybe
    <3>2. Ceil(end) \in Nat /\ Ceil(end) * Second \in Int /\ Ceil(end) * Second < end + Second
          /\ Ceil(end) \notin {None, NaN} /\ Second \in Nat
      BY <3>1, CeilIs, ConstantsAssumption
    <3>3. codeClaim.expire_time = Ceil(end)
      BY <1>1, <2>4, <3>2 DEF Shape, CodeFromTTL, ExpireTime, Json
    <3>. HIDE DEF end
    <3>4. ~(now > Ceil(end) * Second)
      BY <1>1, <3>2, <3>3 DEF CodeAccepts, PastSecond
    <3>. QED  BY <2>1, <2>4, <3>1, <3>2, <3>4
  <2>. QED  BY <2>2, <2>3, <2>4
<1>2. Shape => CodeLivesItsTime
  BY <1>1 DEF CodeLivesItsTime
<1>. QED  BY <1>2, ExpiriesTypeCorrect, PTL
=============================================================================
