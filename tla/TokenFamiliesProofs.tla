-------------------------- MODULE TokenFamiliesProofs --------------------------
(***************************************************************************)
(* Proofs about the authorization code grant, and about the families its   *)
(* codes and the refresh token grant raise on one store, for any number of *)
(* requests, codes, clients, users, scopes and rotations.  The first part  *)
(* speaks of AuthCodeGrant's Spec, for every setting of the options its    *)
(* theorems do not mention.  In the second a step of a redemption is a     *)
(* step of AuthCodeGrant, whose lemmas speak of it, and a rotation leaves  *)
(* everything of the redemptions alone but the rows.  The third is about   *)
(* rotations while redemptions and replays write the same rows, and ends   *)
(* with both grants refining OneUseCredential on one store.                *)
(***************************************************************************)
EXTENDS TokenFamilies, TLAPS

USE DEF Goto, stores, request, history

-----------------------------------------------------------------------------
(***************************************************************************)
(* The rows.                                                               *)
(***************************************************************************)
\* The grant a row records: whose token it is, and for what.
SameGrant(a, b) ==
  a.origin = b.origin /\ a.client = b.client /\ a.user = b.user /\ a.scopes = b.scopes

\* Revoking kills both tokens of a row and keeps its grant.
LEMMA RevokedType ==
  ASSUME NEW row \in TokenRow
  PROVE  Revoked(row) \in TokenRow /\ SameGrant(Revoked(row), row) /\ IsDead(Revoked(row))
  BY DEF Revoked, TokenRow, SameGrant, IsDead

\* Issuing the refresh token keeps the grant and the access token, and with
\* flag revocation a dead row stays dead.
LEMMA WithRefreshTokenType ==
  ASSUME NEW row \in TokenRow
  PROVE  /\ WithRefreshToken(row) \in TokenRow
         /\ SameGrant(WithRefreshToken(row), row)
         /\ WithRefreshToken(row).access = row.access
         /\ FlagRevocation /\ IsDead(row) => IsDead(WithRefreshToken(row))
  BY DEF WithRefreshToken, TokenRow, SameGrant, IsDead

-----------------------------------------------------------------------------
(***************************************************************************)
(* Shape: the type invariant, strengthened by what a suspended request     *)
(* relies on when it resumes: its code is stored, its parameters and its   *)
(* payload are there, and so is the row it is about to extend.             *)
(***************************************************************************)
Resolved  == Holding \cup {"check", "sweep", "replayed"}
Persisted == {"refresh", "burn", "respond", "delivered", "refused"}

Shape ==
  /\ TypeOK
  /\ \A k \in Codes : codes[k] = None <=> approval[k] = None
  /\ \A k \in Codes : wire[k] # 0 => codes[k] # None
  /\ \A r \in Requests : pc[r] # "idle" => form[r] \in Form /\ wire[form[r].code] # 0
  /\ \A r \in Requests : pc[r] \in Resolved => claim[r] \in Claims
  /\ \A r \in Requests : pc[r] \in Persisted => tokens[r] \in TokenRow

\* Storing an entity and reading it back keeps its type, and none of its
\* identifying fields changes.
LEMMA StorageKeepsIdentity ==
  ASSUME NEW c \in Claims
  PROVE  /\ Stored(c) \in Claims
         /\ Stored(c).client = c.client
         /\ Stored(c).uri = c.uri
         /\ Stored(c).user = c.user
         /\ Stored(c).scopes = c.scopes
         /\ Stored(c).expires = c.expires
<1>1. Stored(c) \in Claims
  BY ZenonT(60) DEF Stored, Claims
<1>. QED  BY <1>1 DEF Stored, Claims

\* The entity PersistCode builds from an approval.
Entity(a) == [a EXCEPT !.user    = IF a.user \in users THEN a.user ELSE None,
                       !.nonce   = a.nonce /\ IsOpenidRequest(a.scopes),
                       !.staleAt = IF IsOpenidRequest(a.scopes)
                                     THEN a.staleAt ELSE None,
                       !.expires = now + CodeTTL]

LEMMA EntityType ==
  ASSUME TypeOK, NEW a \in Approvals
  PROVE  /\ Entity(a) \in Claims
         /\ Entity(a).expires = now + CodeTTL
         /\ Entity(a).expires \in Nat \ {0}
<1>1. a \in Claims
  BY ConstantsAssumption DEF ConstantsAssumption
<1>2. now + CodeTTL \in Nat \ {0}
  BY ConstantsAssumption DEF ConstantsAssumption, TypeOK
<1>3. (a.nonce /\ IsOpenidRequest(a.scopes)) \in BOOLEAN
  OBVIOUS
<1>4. Entity(a) \in Claims
  BY <1>1, <1>2, <1>3, ZenonT(60) DEF Entity, Claims
<1>. QED  BY <1>1, <1>2, <1>4 DEF Entity, Claims

LEMMA NoneIsNoRecord == None \notin Claims /\ None \notin TokenRow /\ None \notin Form
  BY ConstantsAssumption DEF ConstantsAssumption

LEMMA PayloadType ==
  ASSUME Shape, NEW k \in Codes, wire[k] # 0
  PROVE  ResolvedPayload(k) \in Claims
<1>1. codes[k] \in Claims /\ approval[k] \in Claims /\ wire[k] \in Nat /\ now \in Nat
  BY DEF Shape, TypeOK
<1>2. HydratedRow(k) \in Claims
  BY <1>1 DEF HydratedRow, Claims
<1>3. [approval[k] EXCEPT !.expires = wire[k]] \in Claims
  BY <1>1 DEF Claims
<1>. QED  BY <1>2, <1>3 DEF ResolvedPayload

LEMMA BurnType ==
  ASSUME Shape, NEW k \in Codes, wire[k] # 0, Burn(k)
  PROVE  /\ codes' \in [Codes -> Claims \cup {None}]
         /\ \A j \in Codes : (codes'[j] = None) = (codes[j] = None)
<1>1. codes[k] \in Claims
  BY DEF Shape, TypeOK
<1>2. [codes[k] EXCEPT !.expires = 0] \in Claims
  BY <1>1 DEF Claims
<1>3. codes' = [codes EXCEPT ![k] = [codes[k] EXCEPT !.expires = 0]]
  BY DEF Burn
<1>. QED  BY <1>1, <1>2, <1>3, NoneIsNoRecord DEF Shape, TypeOK

LEMMA InitShape == Init => Shape
<1>. SUFFICES ASSUME Init PROVE Shape
  OBVIOUS
<1>1. TypeOK
  BY ConstantsAssumption DEF ConstantsAssumption, Init, TypeOK
<1>. QED  BY <1>1 DEF Init, Shape, Resolved, Holding, Minting, Persisted

LEMMA PersistCodeShape ==
  ASSUME Shape, NEW k \in Codes, NEW a \in Approvals, PersistCode(k, a)
  PROVE  Shape'
<1>1. Entity(a) \in Claims /\ Stored(Entity(a)) \in Claims
  BY EntityType, StorageKeepsIdentity DEF Shape
<1>2. /\ approval' = [approval EXCEPT ![k] = Entity(a)]
      /\ codes' = [codes EXCEPT ![k] = Stored(Entity(a))]
  BY DEF PersistCode, Entity
<1>3. TypeOK'
  BY <1>1, <1>2 DEF Shape, TypeOK, PersistCode
<1>. QED  BY <1>1, <1>2, <1>3, NoneIsNoRecord
       DEF Shape, TypeOK, PersistCode, Resolved, Persisted

LEMMA DeliverCodeShape ==
  ASSUME Shape, NEW k \in Codes, DeliverCode(k)
  PROVE  Shape'
<1>1. now + CodeTTL \in Nat
  BY ConstantsAssumption DEF ConstantsAssumption, Shape, TypeOK
<1>2. TypeOK'
  BY <1>1 DEF Shape, TypeOK, DeliverCode
<1>. QED  BY <1>1, <1>2 DEF Shape, TypeOK, DeliverCode, Resolved, Persisted

LEMMA ArriveShape ==
  ASSUME Shape, NEW r \in Requests, NEW f \in Inputs, Arrive(r, f)
  PROVE  Shape'
<1>1. f \in Form
  BY ConstantsAssumption DEF ConstantsAssumption
<1>2. TypeOK'
  BY <1>1 DEF Shape, TypeOK, Arrive, Running, Minting, Ended
<1>. QED  BY <1>1, <1>2 DEF Shape, TypeOK, Arrive, Resolved, Holding, Minting, Persisted

LEMMA ResolveShape ==
  ASSUME Shape, NEW r \in Requests, Resolve(r)
  PROVE  Shape'
<1>1. form[r].code \in Codes /\ wire[form[r].code] # 0
  BY DEF Shape, Resolve, Form
<1>2. ResolvedPayload(form[r].code) \in Claims
  BY <1>1, PayloadType
<1>3. TypeOK'
  BY <1>2 DEF Shape, TypeOK, Resolve, Running, Minting, Ended
<1>. QED  BY <1>1, <1>2, <1>3 DEF Shape, TypeOK, Resolve, Resolved, Holding, Minting, Persisted

LEMMA CheckRevokedShape ==
  ASSUME Shape, NEW r \in Requests, CheckRevoked(r)
  PROVE  Shape'
<1>1. TypeOK'
  BY DEF Shape, TypeOK, CheckRevoked, Running, Minting, Ended
<1>. QED  BY <1>1 DEF Shape, TypeOK, CheckRevoked, Resolved, Holding, Minting, Persisted

LEMMA RevokeDescendantsShape ==
  ASSUME Shape, NEW r \in Requests, RevokeDescendants(r)
  PROVE  Shape'
<1>1. form[r].code \in Codes
  BY DEF Shape, RevokeDescendants, Form
<1>2. ASSUME NEW t \in TokenIds
      PROVE  /\ tokens'[t] \in TokenRow \cup {None}
             /\ tokens[t] \in TokenRow => tokens'[t] \in TokenRow
  BY RevokedType DEF Shape, TypeOK, RevokeDescendants, DescendantsOf
<1>3. swept' \subseteq Codes
  BY <1>1 DEF Shape, TypeOK, RevokeDescendants
<1>4. tokens' \in [TokenIds -> TokenRow \cup {None}]
  BY <1>2 DEF RevokeDescendants
<1>5. TypeOK'
  BY <1>3, <1>4 DEF Shape, TypeOK, RevokeDescendants, Ended
<1>. QED  BY <1>2, <1>5, ConstantsAssumption
       DEF ConstantsAssumption, Shape, TypeOK, RevokeDescendants, Resolved, Holding, Minting, Persisted

LEMMA LoadUserShape ==
  ASSUME Shape, NEW r \in Requests, LoadUser(r)
  PROVE  Shape'
<1>1. TypeOK'
  BY DEF Shape, TypeOK, LoadUser, Running, Minting
<1>. QED  BY <1>1 DEF Shape, TypeOK, LoadUser, Resolved, Holding, Minting, Persisted

LEMMA FinalizeScopesShape ==
  ASSUME Shape, NEW r \in Requests, FinalizeScopes(r)
  PROVE  Shape'
<1>1. granted' \in [Requests -> SUBSET Scopes]
  BY ConstantsAssumption DEF ConstantsAssumption, Shape, TypeOK, FinalizeScopes
<1>2. TypeOK'
  BY <1>1 DEF Shape, TypeOK, FinalizeScopes, Running, Minting, Ended
<1>. QED  BY <1>2 DEF Shape, TypeOK, FinalizeScopes, Resolved, Holding, Minting, Persisted

LEMMA CheckChallengeShape ==
  ASSUME Shape, NEW r \in Requests, CheckChallenge(r)
  PROVE  Shape'
<1>1. TypeOK'
  BY DEF Shape, TypeOK, CheckChallenge, Running, Minting, Ended
<1>. QED  BY <1>1 DEF Shape, TypeOK, CheckChallenge, Resolved, Holding, Minting, Persisted

LEMMA NewTokenType ==
  ASSUME Shape, NEW r \in Requests, pc[r] # "idle"
  PROVE  NewToken(r) \in TokenRow
<1>1. /\ form[r].code \in Codes /\ form[r].client \in Clients
      /\ subject[r] \in Users \cup {None} /\ granted[r] \in SUBSET Scopes
  BY DEF Shape, TypeOK, Form
<1>. QED  BY <1>1 DEF NewToken, FreshRow, TokenRow

LEMMA PersistTokenShape ==
  ASSUME Shape, NEW r \in Requests, PersistToken(r)
  PROVE  Shape'
<1>1. NewToken(r) \in TokenRow
  BY NewTokenType DEF PersistToken
<1>2. TypeOK'
  BY <1>1 DEF Shape, TypeOK, PersistToken, Running, Minting
<1>. QED  BY <1>1, <1>2, ConstantsAssumption
       DEF ConstantsAssumption, Shape, TypeOK, PersistToken, Resolved, Holding, Minting, Persisted

LEMMA IssueRefreshTokenShape ==
  ASSUME Shape, NEW r \in Requests, IssueRefreshToken(r)
  PROVE  Shape'
<1>1. r \in TokenIds /\ tokens[r] \in TokenRow
  BY ConstantsAssumption DEF ConstantsAssumption, Shape, IssueRefreshToken, Persisted
<1>2. WithRefreshToken(tokens[r]) \in TokenRow
  BY <1>1, WithRefreshTokenType
<1>3. tokens' = [tokens EXCEPT ![r] = WithRefreshToken(tokens[r])]
  BY DEF IssueRefreshToken
<1>4. TypeOK'
  BY <1>1, <1>2, <1>3 DEF Shape, TypeOK, IssueRefreshToken, Running
<1>. QED  BY <1>1, <1>2, <1>3, <1>4, ConstantsAssumption
       DEF ConstantsAssumption, Shape, TypeOK, IssueRefreshToken, Resolved, Holding, Minting, Persisted

LEMMA BurnCodeShape ==
  ASSUME Shape, NEW r \in Requests, BurnCode(r)
  PROVE  Shape'
<1>1. form[r].code \in Codes /\ wire[form[r].code] # 0
  BY DEF Shape, BurnCode, Form
<1>2. /\ codes' \in [Codes -> Claims \cup {None}]
      /\ \A j \in Codes : (codes'[j] = None) = (codes[j] = None)
  BY <1>1, BurnType DEF BurnCode
<1>3. TypeOK'
  BY <1>2 DEF Shape, TypeOK, BurnCode, Running
<1>. QED  BY <1>2, <1>3 DEF Shape, TypeOK, BurnCode, Resolved, Holding, Minting, Persisted

LEMMA RespondShape ==
  ASSUME Shape, NEW r \in Requests, Respond(r)
  PROVE  Shape'
<1>1. TypeOK'
  BY DEF Shape, TypeOK, Respond, Ended
<1>. QED  BY <1>1 DEF Shape, TypeOK, Respond, Resolved, Holding, Minting, Persisted

LEMMA FailShape ==
  ASSUME Shape, NEW r \in Requests, Fail(r)
  PROVE  Shape'
<1>1. TypeOK'
  BY DEF Shape, TypeOK, Fail, Ended
<1>. QED  BY <1>1 DEF Shape, TypeOK, Fail, Running, Resolved, Holding, Minting, Persisted

LEMMA RevokeCodeShape ==
  ASSUME Shape, NEW c \in Clients, NEW k \in Codes, RevokeCode(c, k)
  PROVE  Shape'
<1>1. /\ codes' \in [Codes -> Claims \cup {None}]
      /\ \A j \in Codes : (codes'[j] = None) = (codes[j] = None)
  BY BurnType DEF RevokeCode
<1>2. TypeOK'
  BY <1>1 DEF Shape, TypeOK, RevokeCode
<1>. QED  BY <1>1, <1>2 DEF Shape, TypeOK, RevokeCode, Resolved, Persisted

LEMMA DeleteUserShape ==
  ASSUME Shape, NEW u \in Users, DeleteUser(u)
  PROVE  Shape'
  BY DEF Shape, TypeOK, DeleteUser, Resolved, Persisted

LEMMA TickShape == ASSUME Shape, Tick PROVE Shape'
<1>1. now' \in 1 .. MaxTime
  BY ConstantsAssumption DEF ConstantsAssumption, Shape, TypeOK, Tick
<1>2. TypeOK'
  BY <1>1 DEF Shape, TypeOK, Tick
<1>. QED  BY <1>2 DEF Shape, Tick, Resolved, Persisted

LEMMA StutterShape == ASSUME Shape, UNCHANGED vars PROVE Shape'
  BY DEF Shape, TypeOK, vars, Resolved, Persisted

LEMMA NextShape == Shape /\ [Next]_vars => Shape'
<1>. SUFFICES ASSUME Shape, [Next]_vars PROVE Shape'
  OBVIOUS
<1>1. CASE \E k \in Codes, a \in Approvals : PersistCode(k, a)
  BY <1>1, PersistCodeShape
<1>2. CASE \E k \in Codes : DeliverCode(k)
  BY <1>2, DeliverCodeShape
<1>3. CASE \E r \in Requests, f \in Inputs : Arrive(r, f)
  BY <1>3, ArriveShape
<1>4. CASE \E r \in Requests : Step(r)
  BY <1>4, ResolveShape, CheckRevokedShape, RevokeDescendantsShape,
     LoadUserShape, FinalizeScopesShape, CheckChallengeShape,
     PersistTokenShape, IssueRefreshTokenShape, BurnCodeShape, RespondShape
     DEF Step
<1>5. CASE \E r \in Requests : Fail(r)
  BY <1>5, FailShape
<1>6. CASE \E c \in Clients, k \in Codes : RevokeCode(c, k)
  BY <1>6, RevokeCodeShape
<1>7. CASE \E u \in Users : DeleteUser(u)
  BY <1>7, DeleteUserShape
<1>8. CASE Tick
  BY <1>8, TickShape
<1>9. CASE UNCHANGED vars
  BY <1>9, StutterShape
<1>. QED  BY <1>1, <1>2, <1>3, <1>4, <1>5, <1>6, <1>7, <1>8, <1>9 DEF Next

LEMMA ShapeInvariant == Spec => []Shape
  BY InitShape, NextShape, PTL DEF Spec

\* Every variable keeps its type, whatever the interleaving of redemptions,
\* revocations and clock ticks.
THEOREM TypeCorrect == Spec => []TypeOK
<1>1. Shape => TypeOK
  BY DEF Shape
<1>. QED  BY <1>1, ShapeInvariant, PTL

-----------------------------------------------------------------------------
(***************************************************************************)
(* One use.  A delivery follows the revocation of the code, nothing        *)
(* un-revokes a code, and the check on the row turns away whoever comes    *)
(* after it: so a late request never gets past the check, provided the     *)
(* storage returns the expiry it was given.                                *)
(***************************************************************************)
Unminted == {"idle", "resolve", "check", "sweep", "rejected", "replayed",
             "user", "scopes", "challenge", "persist"}
Stopped  == {"resolve", "check", "sweep", "rejected", "replayed", "failed"}

OneUseOf(r) ==
  /\ pc[r] \in Unminted => tokens[r] = None
  /\ pc[r] \in {"respond", "delivered", "refused"} => Spent(form[r].code)
  /\ HydratesExpiry /\ r \in late =>
       pc[r] \in Stopped /\ tokens[r] = None /\ Spent(form[r].code)

OneUseInv == \A r \in Requests : OneUseOf(r)

\* A spent code stays spent: PersistCode needs a free identifier and every
\* other write to a row revokes it.
LEMMA SpentStays ==
  ASSUME Shape, [Next]_vars, NEW k \in Codes, Spent(k)
  PROVE  Spent(k)'
<1>. USE DEF Spent, Shape, TypeOK
<1>1. CASE \E j \in Codes, a \in Approvals : PersistCode(j, a)
  BY <1>1 DEF PersistCode
<1>2. ASSUME NEW j \in Codes, wire[j] # 0, Burn(j)
      PROVE  Spent(k)'
  <2>1. codes' = [codes EXCEPT ![j] = [codes[j] EXCEPT !.expires = 0]]
    BY <1>2 DEF Burn
  <2>2. codes'[k] # None
    BY <1>2, BurnType
  <2>3. codes[k] \in Claims
    OBVIOUS
  <2>. QED  BY <2>1, <2>2, <2>3 DEF Claims
<1>3. CASE \E r \in Requests : BurnCode(r)
  BY <1>2, <1>3 DEF BurnCode, Form
<1>4. CASE \E c \in Clients, j \in Codes : RevokeCode(c, j)
  BY <1>2, <1>4 DEF RevokeCode
<1>5. CASE UNCHANGED codes
  BY <1>5
<1>. QED
  BY <1>1, <1>3, <1>4, <1>5
     DEF Next, Step, vars, DeliverCode, Arrive, Resolve, CheckRevoked,
         RevokeDescendants, LoadUser, FinalizeScopes, CheckChallenge,
         PersistToken, IssueRefreshToken, Respond, Fail, DeleteUser, Tick

\* The row of a spent code turns a redemption away.
LEMMA SpentIsRevoked ==
  ASSUME HydratesExpiry, Shape, NEW k \in Codes, Spent(k)
  PROVE  IsRevoked(k)
<1>1. codes[k] \in Claims /\ codes[k].expires = 0 /\ now > 0
  BY DEF Shape, TypeOK, Spent
<1>2. HydratedRow(k).expires = 0
  BY <1>1 DEF HydratedRow, Claims
<1>. QED  BY <1>1, <1>2 DEF IsRevoked

\* The code a request holds stays spent, too.
LEMMA SpentCodeStays ==
  ASSUME Shape, [Next]_vars, NEW r \in Requests, pc[r] # "idle",
         form'[r] = form[r], Spent(form[r].code)
  PROVE  Spent(form[r].code)'
<1>. DEFINE k == form[r].code
<1>1. k \in Codes /\ k' = k
  BY DEF Shape, Form
<1>. HIDE DEF k
<1>2. ASSUME NEW j \in Codes, Spent(j) PROVE Spent(j)'
  BY <1>2, SpentStays
<1>3. Spent(k)'
  BY <1>1, <1>2 DEF Spent, k
<1>. QED  BY <1>3 DEF k

\* A step that leaves a request where it is keeps its invariant.
LEMMA OthersKeepOneUse ==
  ASSUME Shape, [Next]_vars, NEW q \in Requests, OneUseOf(q),
         pc'[q] = pc[q], form'[q] = form[q], q \in late' => q \in late,
         tokens[q] = None => tokens'[q] = None
  PROVE  OneUseOf(q)'
  BY SpentCodeStays DEF OneUseOf, Stopped, Unminted

LEMMA ArriveOneUse ==
  ASSUME Shape, OneUseInv, [Next]_vars,
         NEW r \in Requests, NEW f \in Inputs, Arrive(r, f)
  PROVE  OneUseInv'
<1>1. f.code \in Codes
  BY ConstantsAssumption DEF ConstantsAssumption, Form
<1>2. ASSUME NEW q \in Requests, q # r PROVE OneUseOf(q)'
  BY <1>2, OthersKeepOneUse DEF OneUseInv, Arrive, Shape, TypeOK
<1>3. OneUseOf(r)'
  <2>1. pc[r] = "idle" /\ tokens'[r] = None /\ form'[r] = f /\ codes' = codes
    BY DEF Arrive, OneUseInv, OneUseOf, Unminted, Shape, TypeOK
  <2>2. pc'[r] \in {"resolve", "rejected"}
    BY DEF Arrive, Shape, TypeOK
  <2>3. HydratesExpiry => r \notin late
    BY <2>1 DEF OneUseInv, OneUseOf, Stopped
  <2>4. HydratesExpiry /\ r \in late' => Spent(f.code)
    BY <2>3 DEF Arrive, Delivered, OneUseInv, OneUseOf
  <2>. QED  BY <2>1, <2>2, <2>4 DEF OneUseOf, Stopped, Spent
<1>. QED  BY <1>2, <1>3 DEF OneUseInv

LEMMA StepOneUse ==
  ASSUME Shape, OneUseInv, [Next]_vars,
         NEW r \in Requests, Step(r) \/ Fail(r)
  PROVE  OneUseInv'
<1>. USE DEF Shape, TypeOK
<1>a. pc[r] # "idle" /\ pc[r] \in Running /\ form' = form /\ late' = late
  BY DEF Step, Fail, Running, Minting, Resolve, CheckRevoked, RevokeDescendants,
         LoadUser, FinalizeScopes, CheckChallenge, PersistToken,
         IssueRefreshToken, BurnCode, Respond
<1>b. OneUseOf(r)
  BY DEF OneUseInv
<1>1. ASSUME NEW q \in Requests, q # r PROVE OneUseOf(q)'
  <2>1. pc'[q] = pc[q]
    BY <1>1 DEF Step, Fail, Resolve, CheckRevoked, RevokeDescendants,
         LoadUser, FinalizeScopes, CheckChallenge, PersistToken,
         IssueRefreshToken, BurnCode, Respond
  <2>2. tokens[q] = None => tokens'[q] = None
    BY <1>1, ConstantsAssumption
       DEF ConstantsAssumption, Step, Fail, Resolve, CheckRevoked,
         RevokeDescendants, DescendantsOf, LoadUser, FinalizeScopes,
         CheckChallenge, PersistToken, IssueRefreshToken, BurnCode, Respond
  <2>. QED  BY <1>a, <1>1, <2>1, <2>2, OthersKeepOneUse DEF OneUseInv
<1>2. Spent(form[r].code) => Spent(form[r].code)'
  BY <1>a, SpentCodeStays
<1>3. CASE CheckRevoked(r)
  <2>1. form[r].code \in Codes
    BY <1>a DEF Form
  <2>2. HydratesExpiry /\ r \in late => IsRevoked(form[r].code)
    BY <1>b, <2>1, SpentIsRevoked DEF OneUseOf
  <2>3. OneUseOf(r)'
    BY <1>a, <1>b, <1>2, <1>3, <2>2 DEF CheckRevoked, OneUseOf, Unminted, Stopped
  <2>. QED  BY <1>1, <2>3 DEF OneUseInv
<1>4. CASE Resolve(r) \/ RevokeDescendants(r)
  <2>1. tokens[r] = None /\ tokens'[r] = None
    BY <1>b, <1>4, ConstantsAssumption
       DEF ConstantsAssumption, OneUseOf, Unminted, Resolve, RevokeDescendants, DescendantsOf
  <2>2. OneUseOf(r)'
    BY <1>a, <1>b, <1>2, <1>4, <2>1
       DEF Resolve, RevokeDescendants, OneUseOf, Unminted, Stopped
  <2>. QED  BY <1>1, <2>2 DEF OneUseInv
<1>5. CASE LoadUser(r) \/ FinalizeScopes(r) \/ CheckChallenge(r)
  <2>1. OneUseOf(r)'
    BY <1>a, <1>b, <1>2, <1>5
       DEF LoadUser, FinalizeScopes, CheckChallenge, OneUseOf, Unminted, Stopped
  <2>. QED  BY <1>1, <2>1 DEF OneUseInv
<1>6. CASE PersistToken(r) \/ IssueRefreshToken(r)
  <2>1. OneUseOf(r)'
    BY <1>a, <1>b, <1>6, SMTT(30)
       DEF PersistToken, IssueRefreshToken, OneUseOf, Unminted, Stopped
  <2>. QED  BY <1>1, <2>1 DEF OneUseInv
<1>7. CASE BurnCode(r)
  <2>1. form[r].code \in Codes /\ wire[form[r].code] # 0
    BY <1>a DEF Form
  <2>2. codes[form[r].code] \in Claims
    BY <2>1
  <2>3. Spent(form[r].code)'
    BY <1>a, <1>7, <2>1, <2>2, NoneIsNoRecord, BurnType DEF BurnCode, Burn, Spent, Claims
  <2>4. OneUseOf(r)'
    BY <1>a, <1>b, <1>7, <2>3 DEF BurnCode, OneUseOf, Unminted, Stopped
  <2>. QED  BY <1>1, <2>4 DEF OneUseInv
<1>8. CASE Respond(r) \/ Fail(r)
  <2>1. OneUseOf(r)'
    BY <1>a, <1>b, <1>2, <1>8
       DEF Respond, Fail, OneUseOf, Unminted, Stopped
  <2>. QED  BY <1>1, <2>1 DEF OneUseInv
<1>. QED  BY <1>3, <1>4, <1>5, <1>6, <1>7, <1>8 DEF Step

LEMMA NextOneUse ==
  ASSUME Shape, OneUseInv, [Next]_vars
  PROVE  OneUseInv'
<1>1. CASE \E r \in Requests, f \in Inputs : Arrive(r, f)
  BY <1>1, ArriveOneUse
<1>2. CASE \E r \in Requests : Step(r) \/ Fail(r)
  BY <1>2, StepOneUse
<1>3. CASE UNCHANGED <<tokens, pc, form, late>>
  BY <1>3, OthersKeepOneUse DEF OneUseInv
<1>. QED  BY <1>1, <1>2, <1>3
     DEF Next, vars, PersistCode, DeliverCode, RevokeCode, DeleteUser, Tick

LEMMA OneUseInvariant == Spec => []OneUseInv
<1>1. Init => OneUseInv
  BY ConstantsAssumption DEF ConstantsAssumption, Init, OneUseInv, OneUseOf, Unminted
<1>2. Shape /\ OneUseInv /\ [Next]_vars => OneUseInv'
  BY NextOneUse
<1>. QED  BY <1>1, <1>2, ShapeInvariant, PTL DEF Spec

\* A client holds tokens only once the code behind them is spent, for every
\* interleaving of redemptions, replays, revocations and failures.
THEOREM CodeSpentBeforeDelivery == Spec => []DeliveredCodeIsSpent
<1>1. OneUseInv => DeliveredCodeIsSpent
  BY DEF OneUseInv, OneUseOf, DeliveredCodeIsSpent
<1>. QED  BY <1>1, OneUseInvariant, PTL

\* A redemption that arrives after its code was exchanged mints nothing,
\* whatever the other redemptions of that code are doing, provided storage
\* returns the expiry it was given.
THEOREM LateRedemptionMintsNothing ==
  ASSUME HydratesExpiry PROVE Spec => []NoLateRedemption
<1>1. Shape /\ OneUseInv => NoLateRedemption
  BY DEF Shape, TypeOK, OneUseInv, OneUseOf, NoLateRedemption
<1>. QED  BY <1>1, ShapeInvariant, OneUseInvariant, PTL

\* No error answer leaves a token beside a code that can still be redeemed: a
\* redemption turned away by a check, up to the code challenge, has stored no
\* token, and one whose ID token is refused has burned its code.
THEOREM ErrorsLeaveAllOrNothing == Spec => []ErrorsAreAllOrNothing
<1>1. ASSUME Shape, OneUseInv, NEW r \in Requests, pc[r] = "refused"
      PROVE  tokens[r] # None /\ Spent(form[r].code)
  BY <1>1, NoneIsNoRecord DEF Shape, Persisted, OneUseInv, OneUseOf
<1>2. OneUseInv => \A r \in Requests :
                     pc[r] \in {"rejected", "sweep", "replayed"} => tokens[r] = None
  BY DEF OneUseInv, OneUseOf, Unminted
<1>3. Shape /\ OneUseInv => ErrorsAreAllOrNothing
  BY <1>1, <1>2 DEF ErrorsAreAllOrNothing
<1>. QED  BY <1>3, ShapeInvariant, OneUseInvariant, PTL

-----------------------------------------------------------------------------
(***************************************************************************)
(* Refinement.  A positive CheckRevoked admits, Respond answers, a request *)
(* turned away later abandons, and all other steps spend codes or none.    *)
(***************************************************************************)
SpentCodes == {k \in Codes : Spent(k)}
Holder == [r \in Requests |-> IF pc[r] \in Holding THEN form[r].code ELSE None]
AnsweredRequests == {r \in Requests : pc[r] = "delivered"}

LEMMA SpentGrows == Shape /\ [Next]_vars => SpentCodes \subseteq SpentCodes'
  BY SpentStays DEF SpentCodes

LEMMA InitRefines == Init => OneUse!Init
  BY DEF Init, OneUse!Init, Holding, Minting

LEMMA SpendRefines ==
  ASSUME Shape, [Next]_vars, Holder' = Holder, AnsweredRequests' = AnsweredRequests
  PROVE  OneUse!Next
<1>1. SpentCodes \subseteq SpentCodes' /\ SpentCodes' \subseteq Codes
  BY SpentGrows DEF SpentCodes
<1>2. OneUse!Spend
  BY <1>1 DEF OneUse!Spend, Holder, AnsweredRequests, SpentCodes
<1>. QED  BY <1>2 DEF OneUse!Next

\* A request that leaves Holding without an answer abandons its code.
LEMMA StopRefines ==
  ASSUME Shape, [Next]_vars, NEW r \in Requests,
         pc' = [pc EXCEPT ![r] = "rejected"] \/ pc' = [pc EXCEPT ![r] = "failed"],
         pc[r] # "delivered", form' = form, codes' = codes
  PROVE  OneUse!Next
<1>. USE DEF Shape, TypeOK
<1>1. Holder' = [Holder EXCEPT ![r] = None]
  BY DEF Holder, Holding, Minting
<1>2. AnsweredRequests' = AnsweredRequests /\ r \notin AnsweredRequests
  BY DEF AnsweredRequests
<1>3. SpentCodes' = SpentCodes
  BY DEF SpentCodes, Spent
<1>4. OneUse!Abandon(r)
  BY <1>1, <1>2, <1>3 DEF OneUse!Abandon, Holder, AnsweredRequests, SpentCodes
<1>. QED  BY <1>4 DEF OneUse!Next

LEMMA StepRefines ==
  ASSUME HydratesExpiry, Shape, OneUseInv, [Next]_vars,
         NEW r \in Requests, Step(r) \/ Fail(r)
  PROVE  OneUse!Next
<1>. USE DEF Shape, TypeOK
<1>1. CASE CheckRevoked(r)
  <2>1. pc[r] = "check" /\ form' = form /\ codes' = codes
    BY <1>1 DEF CheckRevoked
  <2>2. PICK k \in Codes : k = form[r].code
    BY <2>1 DEF Form
  <2>3. CASE pc'[r] = "user"
    <3>1. k \notin SpentCodes
      BY <1>1, <2>2, <2>3, SpentIsRevoked DEF CheckRevoked, SpentCodes
    <3>2. Holder' = [Holder EXCEPT ![r] = k] /\ Holder[r] = None
      BY <1>1, <2>1, <2>2, <2>3 DEF CheckRevoked, Holder, Holding, Minting
    <3>3. AnsweredRequests' = AnsweredRequests /\ SpentCodes' = SpentCodes
      BY <1>1, <2>1, <2>3 DEF CheckRevoked, AnsweredRequests, SpentCodes, Spent
    <3>4. OneUse!Admit(r, k)
      BY <3>1, <3>2, <3>3 DEF OneUse!Admit, Holder, AnsweredRequests, SpentCodes
    <3>. QED  BY <3>4 DEF OneUse!Next
  <2>4. CASE pc'[r] # "user"
    <3>1. pc'[r] \in {"sweep", "rejected"}
      BY <1>1, <2>1, <2>4 DEF CheckRevoked
    <3>2. Holder' = Holder /\ AnsweredRequests' = AnsweredRequests
      BY <1>1, <2>1, <3>1 DEF CheckRevoked, Holder, Holding, Minting, AnsweredRequests
    <3>. QED  BY <3>2, SpendRefines
  <2>. QED  BY <2>3, <2>4
<1>2. CASE Respond(r)
  <2>1. pc[r] = "respond" /\ form' = form /\ codes' = codes
    BY <1>2 DEF Respond
  <2>2. PICK k \in Codes : k = form[r].code
    BY <2>1 DEF Form
  <2>3. CASE pc'[r] = "delivered"
    <3>1. Holder[r] \in SpentCodes /\ Holder' = Holder
      BY <1>2, <2>1, <2>2, <2>3
         DEF Respond, OneUseInv, OneUseOf, SpentCodes, Holder, Holding
    <3>2. AnsweredRequests' = AnsweredRequests \cup {r} /\ SpentCodes' = SpentCodes
      BY <1>2, <2>1, <2>3 DEF Respond, AnsweredRequests, SpentCodes, Spent
    <3>3. OneUse!Answer(r)
      BY <3>1, <3>2 DEF OneUse!Answer, Holder, AnsweredRequests, SpentCodes
    <3>. QED  BY <3>3 DEF OneUse!Next
  <2>4. CASE pc'[r] # "delivered"
    <3>1. Holder' = Holder /\ AnsweredRequests' = AnsweredRequests
      BY <1>2, <2>1, <2>4 DEF Respond, Holder, Holding, AnsweredRequests
    <3>. QED  BY <3>1, SpendRefines
  <2>. QED  BY <2>3, <2>4
<1>3. CASE Fail(r)
  BY <1>3, StopRefines DEF Fail, Running, Minting
<1>4. CASE FinalizeScopes(r) \/ CheckChallenge(r)
  <2>1. CASE pc'[r] = "rejected"
    BY <1>4, <2>1, StopRefines DEF FinalizeScopes, CheckChallenge
  <2>2. CASE pc'[r] # "rejected"
    <3>1. Holder' = Holder /\ AnsweredRequests' = AnsweredRequests
      BY <1>4, <2>2 DEF FinalizeScopes, CheckChallenge, Holder, Holding, Minting, AnsweredRequests
    <3>. QED  BY <3>1, SpendRefines
  <2>. QED  BY <2>1, <2>2
<1>5. CASE \/ Resolve(r) \/ RevokeDescendants(r) \/ LoadUser(r)
           \/ PersistToken(r) \/ IssueRefreshToken(r) \/ BurnCode(r)
  <2>1. Holder' = Holder /\ AnsweredRequests' = AnsweredRequests
    BY <1>5 DEF Resolve, RevokeDescendants, LoadUser, PersistToken,
         IssueRefreshToken, BurnCode, Holder, Holding, Minting, AnsweredRequests
  <2>. QED  BY <2>1, SpendRefines
<1>. QED  BY <1>1, <1>2, <1>3, <1>4, <1>5 DEF Step

LEMMA NextRefines ==
  ASSUME HydratesExpiry, Shape, OneUseInv, [Next]_vars
  PROVE  [OneUse!Next]_(OneUse!promise)
<1>. USE DEF Shape, TypeOK
<1>1. CASE \E r \in Requests, f \in Inputs : Arrive(r, f)
  <2>1. Holder' = Holder /\ AnsweredRequests' = AnsweredRequests
    BY <1>1 DEF Arrive, Holder, Holding, Minting, AnsweredRequests
  <2>. QED  BY <2>1, SpendRefines
<1>2. CASE \E r \in Requests : Step(r) \/ Fail(r)
  BY <1>2, StepRefines
<1>3. CASE UNCHANGED <<pc, form>>
  BY <1>3, SpendRefines DEF Holder, AnsweredRequests
<1>. QED  BY <1>1, <1>2, <1>3
     DEF Next, vars, PersistCode, DeliverCode, RevokeCode, DeleteUser, Tick

\* Redemptions that overlap keep the promise of OneUseCredential, provided
\* storage returns the expiry it was given: whoever comes after an answer is
\* not admitted, and nobody is answered before the code is spent.
THEOREM RedemptionIsOneUse == ASSUME HydratesExpiry PROVE Spec => ImplementsOneUse
<1>1. Shape /\ OneUseInv /\ [Next]_vars => [OneUse!Next]_(OneUse!promise)
  BY NextRefines
<1>. QED  BY <1>1, InitRefines, ShapeInvariant, OneUseInvariant, PTL
          DEF Spec, ImplementsOneUse, OneUse!Spec

-----------------------------------------------------------------------------
(***************************************************************************)
(* Rows.  Only PersistToken(r) stores the row of r, once, and no step      *)
(* changes the grant of a row or revives its access token.                 *)
(***************************************************************************)
Keeps(t) ==
  /\ tokens'[t] \in TokenRow
  /\ SameGrant(tokens'[t], tokens[t])
  /\ tokens[t].access = "revoked" => tokens'[t].access = "revoked"

LEMMA RowsKeep ==
  ASSUME Shape, OneUseInv, [Next]_vars, NEW t \in TokenIds, tokens[t] # None
  PROVE  Keeps(t)
<1>. USE DEF Shape, TypeOK
<1>0. tokens[t] \in TokenRow
  OBVIOUS
<1>1. CASE \E r \in Requests : PersistToken(r)
  <2>1. tokens'[t] = tokens[t]
    BY <1>1 DEF PersistToken, OneUseInv, OneUseOf, Unminted
  <2>. QED  BY <1>0, <2>1 DEF Keeps, SameGrant
<1>2. CASE \E r \in Requests : RevokeDescendants(r)
  <2>1. tokens'[t] = Revoked(tokens[t]) \/ tokens'[t] = tokens[t]
    BY <1>2 DEF RevokeDescendants
  <2>. QED  BY <1>0, <2>1, RevokedType DEF Keeps, SameGrant, IsDead
<1>3. CASE \E r \in Requests : IssueRefreshToken(r)
  <2>1. tokens'[t] = WithRefreshToken(tokens[t]) \/ tokens'[t] = tokens[t]
    BY <1>3 DEF IssueRefreshToken
  <2>. QED  BY <1>0, <2>1, WithRefreshTokenType DEF Keeps, SameGrant
<1>4. CASE UNCHANGED tokens
  BY <1>0, <1>4 DEF Keeps, SameGrant
<1>. QED  BY <1>1, <1>2, <1>3, <1>4
     DEF Next, vars, Step, PersistCode, DeliverCode, Arrive, Resolve, CheckRevoked,
         LoadUser, FinalizeScopes, CheckChallenge, BurnCode, Respond, Fail,
         RevokeCode, DeleteUser, Tick

LEMMA OnlyPersistStores ==
  ASSUME Shape, OneUseInv, [Next]_vars, NEW t \in TokenIds, tokens[t] = None,
         t \in Requests => ~PersistToken(t)
  PROVE  tokens'[t] = None
<1>. USE DEF Shape, TypeOK
<1>1. CASE \E r \in Requests : PersistToken(r)
  BY <1>1 DEF PersistToken
<1>2. CASE \E r \in Requests : RevokeDescendants(r)
  BY <1>2 DEF RevokeDescendants, DescendantsOf
<1>3. CASE \E r \in Requests : IssueRefreshToken(r)
  BY <1>3, NoneIsNoRecord DEF IssueRefreshToken, Persisted
<1>4. CASE UNCHANGED tokens
  BY <1>4
<1>. QED  BY <1>1, <1>2, <1>3, <1>4
     DEF Next, vars, Step, PersistCode, DeliverCode, Arrive, Resolve, CheckRevoked,
         LoadUser, FinalizeScopes, CheckChallenge, BurnCode, Respond, Fail,
         RevokeCode, DeleteUser, Tick

\* A revoked access token stays revoked: no redemption writes back a row it
\* read earlier.
THEOREM RevokedAccessSticks == Spec => AccessRevocationSticks
<1>1. Shape /\ OneUseInv /\ [Next]_vars =>
        [\A t \in TokenIds :
           tokens[t] # None /\ tokens[t].access = "revoked" =>
             tokens'[t].access = "revoked"]_vars
  BY RowsKeep DEF Keeps
<1>. QED  BY <1>1, ShapeInvariant, OneUseInvariant, PTL DEF Spec, AccessRevocationSticks

-----------------------------------------------------------------------------
(***************************************************************************)
(* Sweeps.  A code is swept only after it was found revoked, and a revoked *)
(* code is never found otherwise again: so nobody is admitted to it, and   *)
(* nothing is minted from it any more.                                     *)
(***************************************************************************)
RowHasMinter(t) ==
  tokens[t] # None => /\ t \in Requests
                      /\ pc[t] # "idle"
                      /\ tokens[t].origin = form[t].code

SweepInv ==
  /\ \A t \in TokenIds : RowHasMinter(t)
  /\ \A r \in Requests : pc[r] = "sweep" => IsRevoked(form[r].code)
  /\ \A k \in swept : codes[k] # None /\ IsRevoked(k) /\ MintingFrom(k) = {}
  /\ SweepIsFinal

\* An expiry is never raised and the clock never runs back.
LEMMA RevokedStays ==
  ASSUME Shape, [Next]_vars, NEW k \in Codes, codes[k] # None, IsRevoked(k)
  PROVE  codes'[k] # None /\ IsRevoked(k)'
<1>. USE DEF Shape, TypeOK
<1>1. /\ codes[k] \in Claims /\ codes[k].expires \in Nat /\ now \in Nat
      /\ HydratesExpiry /\ now > codes[k].expires
  BY DEF IsRevoked, HydratedRow, Claims
<1>2. /\ codes'[k] \in Claims
      /\ codes'[k].expires = codes[k].expires \/ codes'[k].expires = 0
  <2>1. CASE \E j \in Codes, a \in Approvals : PersistCode(j, a)
    BY <1>1, <2>1 DEF PersistCode
  <2>2. ASSUME NEW j \in Codes, Burn(j)
      PROVE  /\ codes'[k] \in Claims
             /\ codes'[k].expires = codes[k].expires \/ codes'[k].expires = 0
    <3>1. codes'[k] = codes[k] \/ codes'[k] = [codes[k] EXCEPT !.expires = 0]
      BY <2>2 DEF Burn
    <3>2. /\ [codes[k] EXCEPT !.expires = 0] \in Claims
          /\ [codes[k] EXCEPT !.expires = 0].expires = 0
      BY <1>1 DEF Claims
    <3>. QED  BY <1>1, <3>1, <3>2
  <2>3. CASE \E r \in Requests : BurnCode(r)
    BY <2>2, <2>3 DEF BurnCode, Form
  <2>4. CASE \E c \in Clients, j \in Codes : RevokeCode(c, j)
    BY <2>2, <2>4 DEF RevokeCode
  <2>5. CASE UNCHANGED codes
    BY <1>1, <2>5
  <2>. QED  BY <2>1, <2>3, <2>4, <2>5
       DEF Next, vars, Step, DeliverCode, Arrive, Resolve, CheckRevoked,
           RevokeDescendants, LoadUser, FinalizeScopes, CheckChallenge, PersistToken,
           IssueRefreshToken, Respond, Fail, DeleteUser, Tick
<1>3. now' \in Nat /\ now' >= now
  <2>1. CASE Tick
    BY <1>1, <2>1 DEF Tick
  <2>2. CASE UNCHANGED now
    BY <1>1, <2>2
  <2>. QED  BY <2>1, <2>2
       DEF Next, vars, Step, PersistCode, DeliverCode, Arrive, Resolve, CheckRevoked,
           RevokeDescendants, LoadUser, FinalizeScopes, CheckChallenge, PersistToken,
           IssueRefreshToken, BurnCode, Respond, Fail, RevokeCode, DeleteUser
<1>4. HydratedRow(k)'.expires = codes'[k].expires
  BY <1>1, <1>2 DEF HydratedRow, Claims
<1>. QED  BY <1>1, <1>2, <1>3, <1>4, NoneIsNoRecord DEF IsRevoked

\* A request moves by its own steps only.
LEMMA OwnSteps ==
  ASSUME Shape, [Next]_vars, NEW r \in Requests
  PROVE  \/ Step(r) \/ Fail(r)
         \/ \E f \in Inputs : Arrive(r, f)
         \/ pc'[r] = pc[r] /\ form'[r] = form[r]
<1>. DOMAIN pc = Requests /\ DOMAIN form = Requests
     /\ pc = [q \in DOMAIN pc |-> pc[q]] /\ form = [q \in DOMAIN form |-> form[q]]
  BY DEF Shape, TypeOK
<1>1. CASE \E q \in Requests, f \in Inputs : Arrive(q, f)
  BY <1>1 DEF Arrive
<1>2. CASE \E q \in Requests : Step(q) \/ Fail(q)
  BY <1>2 DEF Step, Fail, Resolve, CheckRevoked, RevokeDescendants, LoadUser, FinalizeScopes,
       CheckChallenge, PersistToken, IssueRefreshToken, BurnCode, Respond
<1>3. CASE UNCHANGED <<pc, form>>
  BY <1>3
<1>. QED  BY <1>1, <1>2, <1>3
     DEF Next, vars, PersistCode, DeliverCode, RevokeCode, DeleteUser, Tick

\* What a check leads to.
LEMMA CheckLeads ==
  ASSUME Shape, NEW r \in Requests, CheckRevoked(r)
  PROVE  /\ pc[r] = "check" /\ form' = form
         /\ pc'[r] \in {"sweep", "user", "rejected"}
         /\ pc'[r] = "sweep" => IsRevoked(form[r].code)
         /\ pc'[r] = "user" => ~IsRevoked(form[r].code)
  BY DEF CheckRevoked, Shape, TypeOK

\* What SweepInv says of one request survives the steps of the others.
LEMMA SweepStays ==
  ASSUME Shape, [Next]_vars, NEW r \in Requests,
         pc[r] # "idle", IsRevoked(form[r].code), form'[r] = form[r]
  PROVE  IsRevoked(form[r].code)'
<1>. USE DEF Shape, TypeOK
<1>1. PICK k \in Codes : k = form[r].code
  BY DEF Form
<1>2. codes[k] # None
  BY <1>1
<1>3. IsRevoked(k)'
  BY <1>1, <1>2, RevokedStays
<1>. QED  BY <1>1, <1>3 DEF IsRevoked, HydratedRow

LEMMA MinterStays ==
  ASSUME Shape, OneUseInv, [Next]_vars, NEW t \in TokenIds, RowHasMinter(t)
  PROVE  RowHasMinter(t)'
<1>. USE DEF Shape, TypeOK
<1>1. t \in Requests /\ pc[t] # "idle" => pc'[t] # "idle" /\ form'[t] = form[t]
  BY OwnSteps
     DEF Step, Fail, Arrive, Resolve, CheckRevoked, RevokeDescendants, LoadUser,
         FinalizeScopes, CheckChallenge, PersistToken, IssueRefreshToken, BurnCode, Respond
<1>2. CASE tokens[t] # None
  BY <1>1, <1>2, RowsKeep DEF Keeps, SameGrant, RowHasMinter
<1>3. CASE tokens[t] = None /\ t \in Requests /\ PersistToken(t)
  <2>1. tokens'[t] = NewToken(t) /\ pc[t] # "idle"
    BY <1>3 DEF PersistToken
  <2>. QED  BY <1>1, <1>3, <2>1 DEF NewToken, FreshRow, RowHasMinter
<1>4. CASE tokens[t] = None /\ ~(t \in Requests /\ PersistToken(t))
  BY <1>4, OnlyPersistStores DEF RowHasMinter
<1>. QED  BY <1>2, <1>3, <1>4

\* The replay sweep.
LEMMA SweepSweeps ==
  ASSUME Shape, OneUseInv, SweepInv, [Next]_vars, NEW r \in Requests, RevokeDescendants(r)
  PROVE  SweepInv'
<1>. USE DEF Shape, TypeOK
<1>1. \A t \in TokenIds : RowHasMinter(t)'
  BY MinterStays DEF SweepInv
<1>2. PICK k \in Codes : k = form[r].code
  BY DEF RevokeDescendants, Form
<1>3. /\ pc[r] = "sweep" /\ pc' = [pc EXCEPT ![r] = "replayed"] /\ form' = form
      /\ codes' = codes /\ now' = now /\ codes[k] # None /\ IsRevoked(k)
      /\ swept' = IF MintingFrom(k) = {} THEN swept \cup {k} ELSE swept
  BY <1>2 DEF RevokeDescendants, SweepInv
<1>4. \A q \in Requests : pc'[q] = "sweep" => IsRevoked(form[q].code)'
  BY <1>3 DEF SweepInv, IsRevoked, HydratedRow
<1>5. \A j \in Codes : MintingFrom(j)' = MintingFrom(j)
  BY <1>3 DEF MintingFrom, Minting
<1>6. \A j \in swept' : codes'[j] # None /\ IsRevoked(j)' /\ MintingFrom(j)' = {}
  BY <1>3, <1>5 DEF SweepInv, IsRevoked, HydratedRow
<1>7. ASSUME NEW t \in TokenIds, tokens'[t] # None, tokens'[t].origin \in swept'
      PROVE  IsDead(tokens'[t])
  <2>1. tokens[t] # None /\ tokens[t] \in TokenRow
    BY <1>7 DEF RevokeDescendants, DescendantsOf
  <2>2. tokens'[t].origin = tokens[t].origin
    BY <2>1, RowsKeep DEF Keeps, SameGrant
  <2>3. CASE tokens[t].origin = k
    <3>1. tokens'[t] = Revoked(tokens[t])
      BY <1>2, <2>1, <2>3 DEF RevokeDescendants, DescendantsOf
    <3>. QED  BY <2>1, <3>1, RevokedType
  <2>4. CASE tokens[t].origin # k
    <3>1. tokens'[t] = tokens[t] /\ tokens[t].origin \in swept
      BY <1>2, <1>3, <1>7, <2>1, <2>2, <2>4 DEF RevokeDescendants, DescendantsOf
    <3>. QED  BY <2>1, <3>1 DEF SweepInv, SweepIsFinal
  <2>. QED  BY <2>3, <2>4
<1>8. SweepIsFinal'
  BY <1>7 DEF SweepIsFinal
<1>. QED  BY <1>1, <1>4, <1>6, <1>8 DEF SweepInv

LEMMA OthersSweep ==
  ASSUME Shape, OneUseInv, SweepInv, [Next]_vars,
         ~\E r \in Requests : RevokeDescendants(r)
  PROVE  SweepInv'
<1>. USE DEF Shape, TypeOK
<1>1. \A t \in TokenIds : RowHasMinter(t)'
  BY MinterStays DEF SweepInv
<1>2. swept' = swept
  BY DEF Next, vars, Step, PersistCode, DeliverCode, Arrive, Resolve, CheckRevoked,
       LoadUser, FinalizeScopes, CheckChallenge, PersistToken,
       IssueRefreshToken, BurnCode, Respond, Fail, RevokeCode, DeleteUser, Tick
<1>3. ASSUME NEW r \in Requests, pc'[r] = "sweep"
      PROVE  IsRevoked(form[r].code)'
  <2>1. CASE pc[r] = "sweep"
    <3>1. form'[r] = form[r]
      BY <2>1 DEF Next, vars, Step, PersistCode, DeliverCode, Arrive, Resolve, CheckRevoked,
           LoadUser, FinalizeScopes, CheckChallenge, PersistToken,
           IssueRefreshToken, BurnCode, Respond, Fail, RevokeCode, DeleteUser, Tick
    <3>. QED  BY <2>1, <3>1, SweepStays DEF SweepInv
  <2>2. CASE pc[r] # "sweep"
    <3>1. CheckRevoked(r)
      BY <1>3, <2>2, OwnSteps
         DEF Step, Arrive, Resolve, RevokeDescendants, LoadUser, FinalizeScopes, CheckChallenge,
             PersistToken, IssueRefreshToken, BurnCode, Respond, Fail
    <3>. QED  BY <1>3, <3>1, CheckLeads, SweepStays
  <2>. QED  BY <2>1, <2>2
<1>4. ASSUME NEW k \in swept
      PROVE  codes'[k] # None /\ IsRevoked(k)' /\ MintingFrom(k)' = {}
  <2>1. k \in Codes /\ codes[k] # None /\ IsRevoked(k) /\ MintingFrom(k) = {}
    BY <1>4 DEF SweepInv
  <2>2. codes'[k] # None /\ IsRevoked(k)'
    BY <2>1, RevokedStays
  <2>3. ASSUME NEW q \in Requests, pc'[q] \in Minting, form'[q].code = k
        PROVE  FALSE
    <3>1. ~(pc[q] \in Minting /\ form[q].code = k)
      BY <2>1 DEF MintingFrom
    <3>2. CASE CheckRevoked(q)
      BY <2>1, <2>3, <3>2, CheckLeads DEF Minting
    <3>3. CASE ~CheckRevoked(q)
      BY <2>3, <3>1, <3>3, OwnSteps
         DEF Minting, Step, Arrive, Resolve, RevokeDescendants, LoadUser, FinalizeScopes,
             CheckChallenge, PersistToken, IssueRefreshToken, BurnCode, Respond, Fail
    <3>. QED  BY <3>2, <3>3
  <2>. QED  BY <2>2, <2>3 DEF MintingFrom
<1>5. ASSUME NEW t \in TokenIds, tokens'[t] # None, tokens'[t].origin \in swept
      PROVE  IsDead(tokens'[t])
  <2>1. t \in Requests => ~(PersistToken(t) \/ IssueRefreshToken(t))
    <3>. SUFFICES ASSUME t \in Requests, PersistToken(t) \/ IssueRefreshToken(t) PROVE FALSE
      OBVIOUS
    <3>1. pc[t] \in Minting /\ form'[t] = form[t]
      BY DEF PersistToken, IssueRefreshToken, Minting
    <3>2. tokens'[t].origin = form[t].code
      BY <1>1, <1>5, <3>1 DEF RowHasMinter
    <3>. QED  BY <1>5, <3>1, <3>2 DEF SweepInv, MintingFrom
  <2>2. tokens'[t] = tokens[t]
    <3>1. CASE \E q \in Requests : PersistToken(q) \/ IssueRefreshToken(q)
      BY <2>1, <3>1 DEF PersistToken, IssueRefreshToken
    <3>2. CASE UNCHANGED tokens
      BY <3>2
    <3>. QED  BY <3>1, <3>2
         DEF Next, vars, Step, PersistCode, DeliverCode, Arrive, Resolve, CheckRevoked,
           LoadUser, FinalizeScopes, CheckChallenge, BurnCode, Respond, Fail,
           RevokeCode, DeleteUser, Tick
  <2>. QED  BY <1>5, <2>2 DEF SweepInv, SweepIsFinal
<1>6. SweepIsFinal'
  BY <1>2, <1>5 DEF SweepIsFinal
<1>. QED  BY <1>1, <1>2, <1>3, <1>4, <1>6 DEF SweepInv

\* A sweep that met nobody minting is final: the code never has a live token
\* again.
THEOREM QuietSweepIsFinal == Spec => []SweepIsFinal
<1>1. Init => SweepInv
  BY DEF Init, SweepInv, SweepIsFinal, RowHasMinter
<1>2. Shape /\ OneUseInv /\ SweepInv /\ [Next]_vars => SweepInv'
  BY SweepSweeps, OthersSweep
<1>3. SweepInv => SweepIsFinal
  BY DEF SweepInv
<1>. QED  BY <1>1, <1>2, <1>3, ShapeInvariant, OneUseInvariant, PTL DEF Spec

-----------------------------------------------------------------------------
(***************************************************************************)
(* Binding.  A minted token is bound to what the end user approved, for    *)
(* any storage that keeps the code challenge, and for one that loses it as *)
(* well while codes are signed and so carry their own copy.                *)
(***************************************************************************)
ChallengeColumns == {"codeChallenge", "codeChallengeMethod"}
ChallengeTravels == OpaqueCodes => ChallengeColumns \cap DroppedColumns = {}

(***************************************************************************)
(* The stored row agrees with the approved entity in what identifies the   *)
(* grant, and in the challenge and its method unless storage loses one.    *)
(***************************************************************************)
RowAgrees(k) ==
  approval[k] # None =>
    /\ codes[k].client = approval[k].client
    /\ codes[k].uri = approval[k].uri
    /\ codes[k].user = approval[k].user
    /\ codes[k].scopes = approval[k].scopes
    /\ ChallengeColumns \cap DroppedColumns = {} =>
         /\ codes[k].challenge = approval[k].challenge
         /\ codes[k].method = approval[k].method

\* The resolved claims are the approval's.
ClaimAgrees(r) ==
  LET a == approval[form[r].code]
  IN  /\ claim[r].client = a.client
      /\ claim[r].uri = a.uri
      /\ claim[r].user = a.user
      /\ claim[r].scopes = a.scopes
      /\ claim[r].challenge = a.challenge
      /\ claim[r].method = a.method

\* What the checks a request has passed so far tell.
ChecksTell(r) ==
  /\ pc[r] \in Resolved => ClaimAgrees(r)
  /\ pc[r] \in {"user", "scopes", "challenge", "persist"} =>
       claim[r].client = form[r].client /\ claim[r].uri = form[r].uri
  /\ pc[r] \in {"scopes", "challenge", "persist"} => subject[r] \in {claim[r].user, None}
  /\ pc[r] = "persist" /\ claim[r].challenge # None =>
       /\ form[r].verifier # None
       /\ VerifyCodeChallenge(claim[r].method, form[r].verifier, claim[r].challenge)
  /\ tokens[r] # None => pc[r] # "idle" /\ BoundToApproval(r)

BindingInv ==
  /\ \A k \in Codes : RowAgrees(k)
  /\ \A r \in Requests : ChecksTell(r)

LEMMA StoredAgrees ==
  ASSUME NEW c \in Claims
  PROVE  ChallengeColumns \cap DroppedColumns = {} =>
           Stored(c).challenge = c.challenge /\ Stored(c).method = c.method
<1>1. ChallengeColumns \cap DroppedColumns = {} =>
        ~ "codeChallenge" \in DroppedColumns
  BY DEF ChallengeColumns
<1>. QED  BY <1>1 DEF Stored, Claims, ChallengeColumns

\* An approval never changes once the code is stored.
LEMMA ApprovalStays ==
  ASSUME Shape, [Next]_vars, NEW k \in Codes, approval[k] # None
  PROVE  approval'[k] = approval[k]
  BY DEF Shape, TypeOK, Next, vars, Step, PersistCode, DeliverCode, Arrive, Resolve,
       CheckRevoked, RevokeDescendants, LoadUser, FinalizeScopes, CheckChallenge,
       PersistToken, IssueRefreshToken, BurnCode, Respond, Fail, RevokeCode, DeleteUser, Tick

LEMMA RowsAgree ==
  ASSUME Shape, [Next]_vars, NEW k \in Codes, RowAgrees(k)
  PROVE  RowAgrees(k)'
<1>. USE DEF Shape, TypeOK
<1>1. CASE \E j \in Codes, a \in Approvals : PersistCode(j, a)
  <2>. PICK j \in Codes, a \in Approvals : PersistCode(j, a)
    BY <1>1
  <2>1. /\ approval' = [approval EXCEPT ![j] = Entity(a)]
        /\ codes' = [codes EXCEPT ![j] = Stored(Entity(a))]
    BY DEF PersistCode, Entity
  <2>2. CASE k = j
    BY <2>1, <2>2, EntityType, StorageKeepsIdentity, StoredAgrees DEF RowAgrees
  <2>3. CASE k # j
    BY <2>1, <2>3 DEF RowAgrees
  <2>. QED  BY <2>2, <2>3
<1>2. ASSUME NEW j \in Codes, Burn(j), approval' = approval
      PROVE  RowAgrees(k)'
  <2>1. codes'[k] = codes[k] \/ codes'[k] = [codes[k] EXCEPT !.expires = 0]
    BY <1>2 DEF Burn
  <2>2. approval[k] # None => codes[k] \in Claims
    OBVIOUS
  <2>. QED  BY <1>2, <2>1, <2>2 DEF RowAgrees, Claims
<1>3. CASE \E r \in Requests : BurnCode(r)
  BY <1>2, <1>3 DEF BurnCode, Form
<1>4. CASE \E c \in Clients, j \in Codes : RevokeCode(c, j)
  BY <1>2, <1>4 DEF RevokeCode
<1>5. CASE UNCHANGED <<codes, approval>>
  BY <1>5 DEF RowAgrees
<1>. QED
  BY <1>1, <1>3, <1>4, <1>5
     DEF Next, vars, Step, DeliverCode, Arrive, Resolve, CheckRevoked,
         RevokeDescendants, LoadUser, FinalizeScopes, CheckChallenge, PersistToken,
         IssueRefreshToken, Respond, Fail, DeleteUser, Tick

\* A row that is bound to its approval stays so.
LEMMA BoundStays ==
  ASSUME Shape, OneUseInv, [Next]_vars, NEW r \in Requests,
         tokens[r] # None, pc[r] # "idle", BoundToApproval(r), form'[r] = form[r],
         claim'[r] = claim[r], granted'[r] = granted[r]
  PROVE  tokens'[r] # None /\ BoundToApproval(r)'
<1>1. r \in TokenIds
  BY ConstantsAssumption DEF ConstantsAssumption
<1>2. tokens'[r] \in TokenRow /\ SameGrant(tokens'[r], tokens[r])
  BY <1>1, RowsKeep DEF Keeps
<1>3. PICK k \in Codes : k = form[r].code
  BY DEF Shape, Form
<1>4. approval[k] # None /\ approval'[k] = approval[k]
  BY <1>3, ApprovalStays DEF BoundToApproval
<1>5. AddedByHook(r)' = AddedByHook(r)
  BY DEF AddedByHook
<1>. QED  BY <1>2, <1>3, <1>4, <1>5, NoneIsNoRecord DEF BoundToApproval, SameGrant

LEMMA RowStaysBound ==
  ASSUME Shape, OneUseInv, [Next]_vars, NEW r \in Requests, ChecksTell(r),
         form'[r] = form[r], claim'[r] = claim[r], granted'[r] = granted[r],
         ~PersistToken(r)
  PROVE  tokens'[r] # None => pc[r] # "idle" /\ BoundToApproval(r)'
<1>1. r \in TokenIds
  BY ConstantsAssumption DEF ConstantsAssumption
<1>2. tokens[r] = None => tokens'[r] = None
  BY <1>1, OnlyPersistStores
<1>. QED  BY <1>2, BoundStays DEF ChecksTell

LEMMA ClaimStays ==
  ASSUME Shape, [Next]_vars, NEW r \in Requests, pc[r] \in Resolved,
         ClaimAgrees(r), form'[r] = form[r], claim'[r] = claim[r]
  PROVE  ClaimAgrees(r)'
<1>1. PICK k \in Codes : k = form[r].code /\ approval[k] # None
  BY DEF Shape, Form, Resolved, Holding, Minting
<1>2. approval'[k] = approval[k]
  BY <1>1, ApprovalStays
<1>. QED  BY <1>1, <1>2 DEF ClaimAgrees

\* What a request knows survives every step that leaves it where it is.
LEMMA OthersTell ==
  ASSUME Shape, OneUseInv, [Next]_vars, NEW q \in Requests, ChecksTell(q),
         pc'[q] = pc[q], form'[q] = form[q], claim'[q] = claim[q],
         subject'[q] = subject[q], granted'[q] = granted[q], ~PersistToken(q)
  PROVE  ChecksTell(q)'
<1>1. tokens'[q] # None => pc[q] # "idle" /\ BoundToApproval(q)'
  BY RowStaysBound
<1>2. pc[q] \in Resolved => ClaimAgrees(q)'
  BY ClaimStays DEF ChecksTell
<1>. QED  BY <1>1, <1>2 DEF ChecksTell

-----------------------------------------------------------------------------
(***************************************************************************)
(* Each step of a redemption adds to what it knows.                        *)
(***************************************************************************)
LEMMA ArriveTells ==
  ASSUME Shape, OneUseInv, [Next]_vars, NEW r \in Requests, NEW f \in Inputs, Arrive(r, f)
  PROVE  ChecksTell(r)'
<1>1. tokens'[r] = None
  BY DEF Arrive, OneUseInv, OneUseOf, Unminted
<1>2. pc'[r] \in {"resolve", "rejected"}
  BY DEF Arrive, Shape, TypeOK
<1>. QED  BY <1>1, <1>2 DEF ChecksTell, Resolved, Holding, Minting

\* A signed payload is the approval's; a rebuilt one is the row's, which has
\* the challenge unless storage loses it.
LEMMA ResolveTells ==
  ASSUME ChallengeTravels, Shape, OneUseInv, BindingInv, [Next]_vars,
         NEW r \in Requests, Resolve(r)
  PROVE  ChecksTell(r)'
<1>. USE DEF Shape, TypeOK
<1>1. PICK k \in Codes : k = form[r].code /\ approval[k] \in Claims /\ codes[k] \in Claims
  BY DEF Resolve, Form
<1>2. approval[k] # None /\ RowAgrees(k)
  BY <1>1, NoneIsNoRecord DEF BindingInv
<1>3. claim'[r] = ResolvedPayload(k) /\ form' = form /\ approval' = approval /\ pc'[r] = "check"
  BY <1>1 DEF Resolve
<1>4. ResolvedPayload(k) =
        IF OpaqueCodes THEN [codes[k] EXCEPT !.expires = IF HydratesExpiry THEN @ ELSE now]
                       ELSE [approval[k] EXCEPT !.expires = wire[k]]
  BY DEF ResolvedPayload, HydratedRow
<1>5. /\ ResolvedPayload(k).client = approval[k].client
      /\ ResolvedPayload(k).uri = approval[k].uri
      /\ ResolvedPayload(k).user = approval[k].user
      /\ ResolvedPayload(k).scopes = approval[k].scopes
      /\ ResolvedPayload(k).challenge = approval[k].challenge
      /\ ResolvedPayload(k).method = approval[k].method
  BY <1>1, <1>2, <1>4 DEF ChallengeTravels, RowAgrees, Claims
<1>6. ClaimAgrees(r)'
  BY <1>1, <1>3, <1>5 DEF ClaimAgrees
<1>7. tokens'[r] = None
  BY DEF Resolve, OneUseInv, OneUseOf, Unminted
<1>. QED  BY <1>3, <1>6, <1>7 DEF ChecksTell

\* The steps up to the code challenge, none of which stores anything.
LEMMA ChecksAdd ==
  ASSUME Shape, OneUseInv, BindingInv, [Next]_vars, NEW r \in Requests,
         \/ CheckRevoked(r) \/ LoadUser(r) \/ FinalizeScopes(r) \/ CheckChallenge(r)
  PROVE  ChecksTell(r)'
<1>. USE DEF Shape, TypeOK
<1>0. ChecksTell(r)
  BY DEF BindingInv
<1>1. tokens' = tokens /\ tokens[r] = None /\ form' = form /\ claim' = claim
  BY DEF CheckRevoked, LoadUser, FinalizeScopes, CheckChallenge, OneUseInv, OneUseOf, Unminted
<1>2. ClaimAgrees(r)'
  BY <1>0, <1>1, ClaimStays
     DEF CheckRevoked, LoadUser, FinalizeScopes, CheckChallenge, ChecksTell, Resolved,
         Holding, Minting
<1>3. CASE CheckRevoked(r)
  BY <1>1, <1>2, <1>3 DEF CheckRevoked, Admissible, ChecksTell
<1>4. CASE LoadUser(r)
  BY <1>0, <1>1, <1>2, <1>4 DEF LoadUser, ChecksTell
<1>5. CASE FinalizeScopes(r)
  BY <1>0, <1>1, <1>2, <1>5 DEF FinalizeScopes, ChecksTell
<1>6. CASE CheckChallenge(r)
  <2>1. pc[r] = "challenge" /\ subject' = subject /\ granted' = granted
        /\ pc'[r] \in {"persist", "rejected"}
    BY <1>6 DEF CheckChallenge
  <2>2. pc'[r] = "persist" /\ claim[r].challenge # None =>
          /\ form[r].verifier # None
          /\ VerifyCodeChallenge(claim[r].method, form[r].verifier, claim[r].challenge)
    BY <1>6 DEF CheckChallenge, CodeChallengePasses, EnforcedCopy
  <2>. QED  BY <1>0, <1>1, <1>2, <2>1, <2>2 DEF ChecksTell
<1>. QED  BY <1>3, <1>4, <1>5, <1>6

\* The row is stored with everything the checks told.
LEMMA PersistBinds ==
  ASSUME Shape, OneUseInv, BindingInv, [Next]_vars, NEW r \in Requests, PersistToken(r)
  PROVE  ChecksTell(r)'
<1>. USE DEF Shape, TypeOK
<1>0. ChecksTell(r) /\ pc[r] = "persist" /\ pc'[r] = "refresh" /\ r \in TokenIds
  BY ConstantsAssumption DEF ConstantsAssumption, PersistToken, BindingInv
<1>1. PICK k \in Codes : k = form[r].code /\ approval[k] # None
  BY <1>0 DEF Form
<1>2. /\ tokens'[r] = NewToken(r) /\ form' = form /\ claim' = claim /\ approval' = approval
  BY <1>0 DEF PersistToken
<1>3. ClaimAgrees(r) /\ ClaimAgrees(r)'
  BY <1>0, <1>2, ClaimStays DEF ChecksTell, Resolved, Holding, Minting
<1>4. /\ NewToken(r).origin = k /\ NewToken(r).client = form[r].client
      /\ NewToken(r).user = subject[r] /\ NewToken(r).scopes = granted[r]
  BY <1>1 DEF NewToken, FreshRow
<1>5. granted[r] \subseteq approval[k].scopes \cup AddedByHook(r)'
  <2>1. AddedByHook(r)' = granted[r] \ claim[r].scopes
    BY <1>0 DEF PersistToken, AddedByHook
  <2>. QED  BY <1>1, <1>3, <2>1 DEF ClaimAgrees
<1>6. BoundToApproval(r)'
  BY <1>0, <1>1, <1>2, <1>3, <1>4, <1>5, SMTT(30) DEF ChecksTell, ClaimAgrees, BoundToApproval
<1>. QED  BY <1>0, <1>3, <1>6 DEF ChecksTell

\* The rest of a redemption, and its failure.
LEMMA RestKeeps ==
  ASSUME Shape, OneUseInv, BindingInv, [Next]_vars, NEW r \in Requests,
         \/ RevokeDescendants(r) \/ IssueRefreshToken(r) \/ BurnCode(r)
         \/ Respond(r) \/ Fail(r)
  PROVE  ChecksTell(r)'
<1>. USE DEF Shape, TypeOK
<1>0. ChecksTell(r)
  BY DEF BindingInv
<1>1. /\ form' = form /\ claim' = claim /\ granted' = granted
      /\ pc'[r] \in {"replayed", "burn", "respond", "delivered", "refused", "failed"}
  BY DEF RevokeDescendants, IssueRefreshToken, BurnCode, Respond, Fail
<1>2. ~PersistToken(r)
  BY <1>1 DEF PersistToken
<1>3. pc'[r] \in Resolved => pc[r] \in Resolved
  BY DEF RevokeDescendants, IssueRefreshToken, BurnCode, Respond, Fail,
         Resolved, Holding, Minting
<1>4. tokens'[r] # None => BoundToApproval(r)'
  BY <1>0, <1>1, <1>2, RowStaysBound
<1>5. pc'[r] \in Resolved => ClaimAgrees(r)'
  BY <1>0, <1>1, <1>3, ClaimStays DEF ChecksTell
<1>. QED  BY <1>1, <1>4, <1>5 DEF ChecksTell

LEMMA NextBinding ==
  ASSUME ChallengeTravels, Shape, OneUseInv, BindingInv, [Next]_vars
  PROVE  BindingInv'
<1>. USE DEF Shape, TypeOK
<1>1. \A k \in Codes : RowAgrees(k)'
  BY RowsAgree DEF BindingInv
<1>2. ASSUME NEW r \in Requests, Step(r) \/ Fail(r) \/ \E f \in Inputs : Arrive(r, f)
      PROVE  BindingInv'
  <2>1. ChecksTell(r)'
    BY <1>2, ArriveTells, ResolveTells, ChecksAdd, PersistBinds, RestKeeps DEF Step
  <2>2. ASSUME NEW q \in Requests, q # r
        PROVE  /\ pc'[q] = pc[q] /\ form'[q] = form[q] /\ claim'[q] = claim[q]
               /\ subject'[q] = subject[q] /\ granted'[q] = granted[q]
    BY <1>2, <2>2
       DEF Step, Arrive, Resolve, CheckRevoked, RevokeDescendants, LoadUser, FinalizeScopes,
           CheckChallenge, PersistToken, IssueRefreshToken, BurnCode, Respond, Fail
  <2>3. ASSUME NEW q \in Requests, q # r PROVE ~PersistToken(q)
    BY <2>2, <2>3 DEF PersistToken
  <2>4. ASSUME NEW q \in Requests, q # r PROVE ChecksTell(q)'
    BY <2>2, <2>3, <2>4, OthersTell DEF BindingInv
  <2>. QED  BY <1>1, <2>1, <2>4 DEF BindingInv
<1>3. CASE UNCHANGED <<pc, form, claim, subject, granted>>
  <2>1. ASSUME NEW q \in Requests PROVE ChecksTell(q)'
    BY <1>3, OthersTell DEF BindingInv, PersistToken
  <2>. QED  BY <1>1, <2>1 DEF BindingInv
<1>. QED  BY <1>2, <1>3
     DEF Next, vars, PersistCode, DeliverCode, RevokeCode, DeleteUser, Tick

\* A minted token is the approved client's and user's, has no scope beyond the
\* approved ones but what the hook of its redemption added, and was exchanged with the approved redirect URI and by whoever
\* knew the secret behind the challenge, if there was one.
THEOREM MintedTokenIsBound ==
  ASSUME ChallengeTravels PROVE Spec => []TokenBoundToApproval
<1>1. Init => BindingInv
  BY ConstantsAssumption
     DEF ConstantsAssumption, Init, BindingInv, RowAgrees, ChecksTell, Resolved, Holding, Minting
<1>2. Shape /\ OneUseInv /\ BindingInv /\ [Next]_vars => BindingInv'
  BY NextBinding
<1>3. BindingInv => TokenBoundToApproval
  BY DEF BindingInv, ChecksTell, TokenBoundToApproval
<1>. QED  BY <1>1, <1>2, <1>3, ShapeInvariant, OneUseInvariant, PTL DEF Spec

-----------------------------------------------------------------------------
(***************************************************************************)
(* Nonce and freshness.  What an ID token tells of the user and of the     *)
(* authentication reaches it through the claims of the code; a storage     *)
(* that loses the nonce or the authentication time is found out before an  *)
(* opaque code is delivered, and one that loses max_age is not.            *)
(***************************************************************************)
MaxAgeTravels == OpaqueCodes => "maxAge" \notin DroppedColumns

RowTells(k) ==
  approval[k] # None =>
    /\ codes[k].client = approval[k].client
    /\ codes[k].user = approval[k].user
    /\ codes[k].scopes = approval[k].scopes
    /\ codes[k].nonce => approval[k].nonce
    /\ codes[k].staleAt = IF {"authTime", "maxAge"} \cap DroppedColumns # {}
                            THEN None ELSE approval[k].staleAt
    /\ approval[k].nonce \/ approval[k].staleAt # None =>
         IsOpenidRequest(approval[k].scopes)
    /\ wire[k] # 0 => SurvivesStorage(k)

ClaimTells(r) ==
  LET a == approval[form[r].code]
  IN  /\ claim[r].client = a.client
      /\ claim[r].user = a.user
      /\ claim[r].scopes = a.scopes
      /\ claim[r].nonce = a.nonce
      /\ IsOpenidRequest(a.scopes) /\ MaxAgeTravels => claim[r].staleAt = a.staleAt

RequestTells(r) ==
  /\ pc[r] \in Resolved => ClaimTells(r)
  /\ pc[r] \in {"user", "scopes", "challenge", "persist"} => claim[r].client = form[r].client
  /\ pc[r] \in {"scopes", "challenge", "persist"} => subject[r] \in {claim[r].user, None}

TellingInv ==
  /\ \A k \in Codes : RowTells(k)
  /\ \A r \in Requests : RequestTells(r)

\* A stored row only ever changes by being revoked.
LEMMA RowOnlyBurns ==
  ASSUME Shape, [Next]_vars, NEW k \in Codes, codes[k] # None
  PROVE  codes'[k] = codes[k] \/ codes'[k] = [codes[k] EXCEPT !.expires = 0]
<1>. USE DEF Shape, TypeOK
<1>1. CASE \E j \in Codes, a \in Approvals : PersistCode(j, a)
  BY <1>1 DEF PersistCode
<1>2. CASE \E j \in Codes : Burn(j)
  BY <1>2 DEF Burn
<1>3. CASE UNCHANGED codes
  BY <1>3
<1>. QED
  BY <1>1, <1>2, <1>3
     DEF Next, vars, Step, DeliverCode, Arrive, Resolve, CheckRevoked,
         RevokeDescendants, LoadUser, FinalizeScopes, CheckChallenge, PersistToken,
         IssueRefreshToken, BurnCode, Respond, Fail, RevokeCode, DeleteUser, Tick, Form

LEMMA StoredTells ==
  ASSUME NEW c \in Claims
  PROVE  /\ Stored(c).nonce => c.nonce
         /\ Stored(c).staleAt = IF {"authTime", "maxAge"} \cap DroppedColumns # {}
                                  THEN None ELSE c.staleAt
<1>1. Stored(c).nonce = (c.nonce /\ "nonce" \notin DroppedColumns)
  BY ZenonT(60) DEF Stored, Claims
<1>2. Stored(c).staleAt = IF {"authTime", "maxAge"} \cap DroppedColumns # {}
                            THEN None ELSE c.staleAt
  BY DEF Stored, Claims
<1>. QED  BY <1>1, <1>2

LEMMA EntityTells ==
  ASSUME TypeOK, NEW a \in Approvals, Entity(a).nonce \/ Entity(a).staleAt # None
  PROVE  IsOpenidRequest(Entity(a).scopes)
<1>1. a \in Claims
  BY ConstantsAssumption DEF ConstantsAssumption
<1>2. Entity(a).scopes = a.scopes
  BY <1>1 DEF Entity, Claims
<1>3. Entity(a).staleAt = IF IsOpenidRequest(a.scopes) THEN a.staleAt ELSE None
  BY <1>1 DEF Entity, Claims
<1>4. Entity(a).nonce => IsOpenidRequest(a.scopes)
  BY <1>1, ZenonT(60) DEF Entity, Claims
<1>. QED  BY <1>2, <1>3, <1>4

LEMMA RowsTell ==
  ASSUME Shape, [Next]_vars, NEW k \in Codes, RowTells(k)
  PROVE  RowTells(k)'
<1>. USE DEF Shape, TypeOK
<1>1. CASE approval[k] # None
  <2>1. approval'[k] = approval[k] /\ codes[k] \in Claims /\ codes[k] # None
    BY <1>1, ApprovalStays
  <2>2. /\ codes'[k].client = codes[k].client /\ codes'[k].user = codes[k].user
        /\ codes'[k].scopes = codes[k].scopes /\ codes'[k].nonce = codes[k].nonce
        /\ codes'[k].staleAt = codes[k].staleAt
    BY <2>1, RowOnlyBurns DEF Claims
  <2>3. SurvivesStorage(k) => SurvivesStorage(k)'
    BY <2>1, <2>2 DEF SurvivesStorage
  <2>4. wire'[k] = wire[k] \/ SurvivesStorage(k)
    BY DEF Next, vars, Step, PersistCode, DeliverCode, Arrive, Resolve, CheckRevoked,
         RevokeDescendants, LoadUser, FinalizeScopes, CheckChallenge, PersistToken,
         IssueRefreshToken, BurnCode, Respond, Fail, RevokeCode, DeleteUser, Tick
  <2>. QED  BY <1>1, <2>1, <2>2, <2>3, <2>4 DEF RowTells
<1>2. CASE approval[k] = None
  <2>1. CASE \E a \in Approvals : PersistCode(k, a)
    <3>. PICK a \in Approvals : PersistCode(k, a)
      BY <2>1
    <3>1. approval'[k] = Entity(a) /\ codes'[k] = Stored(Entity(a)) /\ wire'[k] = wire[k]
      BY DEF PersistCode, Entity
    <3>2. wire[k] = 0
      BY <1>2
    <3>. QED  BY <3>1, <3>2, EntityType, StorageKeepsIdentity, StoredTells, EntityTells
              DEF RowTells
  <2>2. CASE ~\E a \in Approvals : PersistCode(k, a)
    <3>1. approval'[k] = None
      BY <1>2, <2>2
         DEF Next, vars, Step, PersistCode, DeliverCode, Arrive, Resolve, CheckRevoked,
           RevokeDescendants, LoadUser, FinalizeScopes, CheckChallenge, PersistToken,
           IssueRefreshToken, BurnCode, Respond, Fail, RevokeCode, DeleteUser, Tick
    <3>. QED  BY <3>1 DEF RowTells
  <2>. QED  BY <2>1, <2>2
<1>. QED  BY <1>1, <1>2

\* A signed payload is the approval; a rebuilt one has passed the guard.
LEMMA ResolveGetsTold ==
  ASSUME Shape, TellingInv, NEW r \in Requests, Resolve(r)
  PROVE  ClaimTells(r)'
<1>. USE DEF Shape, TypeOK
<1>1. PICK k \in Codes : /\ k = form[r].code /\ approval[k] \in Claims /\ codes[k] \in Claims
                         /\ wire[k] # 0
  BY DEF Resolve, Form
<1>2. approval[k] # None /\ RowTells(k)
  BY <1>1, NoneIsNoRecord DEF TellingInv
<1>3. claim'[r] = ResolvedPayload(k) /\ form' = form /\ approval' = approval
  BY <1>1 DEF Resolve
<1>4. CASE OpaqueCodes
  <2>1. /\ ResolvedPayload(k).client = codes[k].client
        /\ ResolvedPayload(k).user = codes[k].user
        /\ ResolvedPayload(k).scopes = codes[k].scopes
        /\ ResolvedPayload(k).nonce = codes[k].nonce
        /\ ResolvedPayload(k).staleAt = codes[k].staleAt
    BY <1>1, <1>4 DEF ResolvedPayload, HydratedRow, Claims
  <2>2. codes[k].nonce \in BOOLEAN /\ approval[k].nonce \in BOOLEAN
    BY <1>1 DEF Claims
  <2>3. approval[k].nonce <=> codes[k].nonce
    BY <1>1, <1>2, <1>4 DEF RowTells, SurvivesStorage
  <2>4. approval[k].nonce = codes[k].nonce
    BY <2>2, <2>3
  <2>5. /\ IsOpenidRequest(approval[k].scopes) /\ MaxAgeTravels
        => codes[k].staleAt = approval[k].staleAt
    BY <1>1, <1>2, <1>4 DEF RowTells, SurvivesStorage, MaxAgeTravels
  <2>6. /\ codes[k].client = approval[k].client /\ codes[k].user = approval[k].user
        /\ codes[k].scopes = approval[k].scopes
    BY <1>2 DEF RowTells
  <2>. QED  BY <1>1, <1>3, <2>1, <2>4, <2>5, <2>6 DEF ClaimTells
<1>5. CASE ~OpaqueCodes
  <2>1. /\ ResolvedPayload(k).client = approval[k].client
        /\ ResolvedPayload(k).user = approval[k].user
        /\ ResolvedPayload(k).scopes = approval[k].scopes
        /\ ResolvedPayload(k).nonce = approval[k].nonce
        /\ ResolvedPayload(k).staleAt = approval[k].staleAt
    BY <1>1, <1>5 DEF ResolvedPayload, Claims
  <2>. QED  BY <1>1, <1>3, <2>1 DEF ClaimTells
<1>. QED  BY <1>4, <1>5

\* What was told stays so.
LEMMA StaysTold ==
  ASSUME Shape, [Next]_vars, NEW r \in Requests, pc[r] \in Resolved,
         ClaimTells(r), form'[r] = form[r], claim'[r] = claim[r]
  PROVE  ClaimTells(r)'
<1>1. PICK k \in Codes : k = form[r].code /\ approval[k] # None
  BY DEF Shape, Form, Resolved, Holding, Minting
<1>2. approval'[k] = approval[k]
  BY <1>1, ApprovalStays
<1>. QED  BY <1>1, <1>2 DEF ClaimTells, IsOpenidRequest, MaxAgeTravels

LEMMA NextTelling ==
  ASSUME Shape, TellingInv, [Next]_vars
  PROVE  TellingInv'
<1>. USE DEF Shape, TypeOK
<1>1. \A k \in Codes : RowTells(k)'
  BY RowsTell DEF TellingInv
<1>2. ASSUME NEW r \in Requests, pc'[r] = pc[r], form'[r] = form[r],
             claim'[r] = claim[r], subject'[r] = subject[r], granted'[r] = granted[r]
      PROVE  RequestTells(r)'
  BY <1>2, StaysTold DEF TellingInv, RequestTells
<1>3. ASSUME NEW r \in Requests, Step(r) \/ Fail(r) \/ \E f \in Inputs : Arrive(r, f)
      PROVE  RequestTells(r)'
  <2>0. RequestTells(r)
    BY DEF TellingInv
  <2>1. CASE Resolve(r)
    <3>1. pc'[r] = "check"
      BY <2>1 DEF Resolve
    <3>. QED  BY <2>1, <3>1, ResolveGetsTold DEF RequestTells
  <2>2. CASE FinalizeScopes(r)
    <3>1. /\ form' = form /\ claim' = claim /\ subject' = subject
          /\ pc[r] = "scopes" /\ pc[r] \in Resolved
          /\ pc'[r] \in {"challenge", "rejected"}
      BY <2>2 DEF FinalizeScopes, Resolved, Holding, Minting
    <3>2. ClaimTells(r)'
      BY <2>0, <3>1, StaysTold DEF RequestTells
    <3>. QED  BY <2>0, <3>1, <3>2 DEF RequestTells
  <2>5. CASE CheckRevoked(r) \/ LoadUser(r)
    <3>1. /\ form' = form /\ claim' = claim /\ pc[r] \in Resolved
          /\ pc'[r] \in {"sweep", "user", "scopes", "rejected"}
          /\ pc'[r] = "user" => claim[r].client = form[r].client
          /\ pc'[r] = "scopes" => pc[r] = "user" /\ subject'[r] \in {claim[r].user, None}
      BY <2>5 DEF CheckRevoked, LoadUser, Admissible, Resolved, Holding, Minting
    <3>2. ClaimTells(r)'
      BY <2>0, <3>1, StaysTold DEF RequestTells
    <3>. QED  BY <2>0, <3>1, <3>2 DEF RequestTells
  <2>3. CASE \E f \in Inputs : Arrive(r, f)
    <3>1. pc'[r] \in {"resolve", "rejected"}
      BY <2>3 DEF Arrive
    <3>. QED  BY <3>1 DEF RequestTells, Resolved, Holding, Minting
  <2>4. CASE \/ RevokeDescendants(r) \/ CheckChallenge(r) \/ PersistToken(r)
             \/ IssueRefreshToken(r) \/ BurnCode(r) \/ Respond(r) \/ Fail(r)
    <3>1. form' = form /\ claim' = claim /\ subject' = subject /\ granted' = granted
      BY <2>4
         DEF Fail, RevokeDescendants, CheckChallenge, PersistToken, IssueRefreshToken,
             BurnCode, Respond
    <3>2. /\ pc'[r] \in Resolved => pc[r] \in Resolved
          /\ pc'[r] \in {"user", "scopes", "challenge", "persist"} => pc[r] = "challenge"
      BY <2>4
         DEF Fail, RevokeDescendants, CheckChallenge, PersistToken, IssueRefreshToken,
             BurnCode, Respond, Resolved, Holding, Minting, Persisted
    <3>. QED  BY <2>0, <3>1, <3>2, StaysTold DEF RequestTells
  <2>. QED  BY <1>3, <2>1, <2>2, <2>3, <2>4, <2>5 DEF Step
<1>4. ASSUME NEW r \in Requests
      PROVE  RequestTells(r)'
  <2>1. \/ Step(r) \/ Fail(r) \/ \E f \in Inputs : Arrive(r, f)
        \/ /\ pc'[r] = pc[r] /\ form'[r] = form[r]
           /\ claim'[r] = claim[r] /\ subject'[r] = subject[r] /\ granted'[r] = granted[r]
    <3>1. CASE \E q \in Requests, f \in Inputs : Arrive(q, f)
      BY <3>1 DEF Arrive
    <3>2. CASE \E q \in Requests : Step(q) \/ Fail(q)
      BY <3>2 DEF Step, Fail, Resolve, CheckRevoked, RevokeDescendants, LoadUser,
           FinalizeScopes, CheckChallenge, PersistToken, IssueRefreshToken, BurnCode, Respond
    <3>3. CASE UNCHANGED <<pc, form, claim, subject, granted>>
      BY <3>3
    <3>. QED  BY <3>1, <3>2, <3>3
         DEF Next, vars, PersistCode, DeliverCode, RevokeCode, DeleteUser, Tick
  <2>. QED  BY <1>2, <1>3, <2>1
<1>. QED  BY <1>1, <1>4 DEF TellingInv

LEMMA InitTelling == Init => TellingInv
  BY DEF Init, TellingInv, RowTells, RequestTells, Resolved, Holding, Minting

LEMMA TellingInvariant == Spec => []TellingInv
<1>1. Shape /\ TellingInv /\ [Next]_vars => TellingInv'
  BY NextTelling
<1>. QED  BY <1>1, InitTelling, ShapeInvariant, PTL DEF Spec

\* What a delivered redemption was told holds its nonce.
LEMMA ToldNonceSurvives == Shape /\ TellingInv => NonceSurvives
<1>. SUFFICES ASSUME Shape, TellingInv, NEW r \in Requests, pc[r] = "delivered"
              PROVE  claim[r].nonce = approval[form[r].code].nonce
  BY DEF NonceSurvives
<1>1. ClaimTells(r)
  BY DEF TellingInv, RequestTells, Resolved, Holding
<1>. QED  BY <1>1 DEF ClaimTells

\* The nonce of an openid request reaches the ID token, whatever hooks add and
\* whatever columns the storage loses: if it cannot, no code is delivered.
THEOREM NonceReachesIdToken == Spec => []NonceSurvives
BY ToldNonceSurvives, ShapeInvariant, TellingInvariant, PTL

\* What the check of an admitted redemption has seen.
LEMMA AdmitsFresh ==
  ASSUME MaxAgeTravels, Shape, TellingInv, [Next]_vars, NEW r \in Requests,
         approval[form[r].code].staleAt # None, pc[r] = "check", pc'[r] = "user"
  PROVE  approval[form[r].code].staleAt >= now
<1>1. CheckRevoked(r)
  BY OwnSteps
     DEF Shape, TypeOK, Step, Fail, Arrive, Resolve, RevokeDescendants, LoadUser,
         FinalizeScopes, CheckChallenge, PersistToken, IssueRefreshToken, BurnCode, Respond
<1>2. Admissible(r)
  BY <1>1 DEF CheckRevoked, Shape, TypeOK
<1>3. PICK k \in Codes : k = form[r].code /\ approval[k] # None
  BY <1>1 DEF Shape, TypeOK, Form
<1>4. IsOpenidRequest(approval[k].scopes)
  BY <1>1, <1>3 DEF TellingInv, RowTells
<1>5. ClaimTells(r)
  BY <1>1 DEF TellingInv, RequestTells, Resolved
<1>. QED  BY <1>1, <1>2, <1>3, <1>4, <1>5 DEF Admissible, ClaimTells

\* A redemption is admitted only while the authentication is as recent as
\* max_age asked, unless codes are opaque and storage loses max_age.
THEOREM AdmittedWhileFresh == ASSUME MaxAgeTravels PROVE Spec => FreshWhenAdmitted
<1>1. Shape /\ TellingInv /\ [Next]_vars =>
        [\A r \in Requests :
           LET staleAt == approval[form[r].code].staleAt
           IN  pc[r] = "check" /\ pc'[r] = "user" /\ staleAt # None => staleAt >= now]_vars
  BY AdmitsFresh
<1>. QED  BY <1>1, ShapeInvariant, TellingInvariant, PTL DEF Spec, FreshWhenAdmitted

-----------------------------------------------------------------------------
(***************************************************************************)
(* Families.                                                               *)
(***************************************************************************)
USE DEF redeemer, rotation
HIDE DEF Goto

-----------------------------------------------------------------------------
(***************************************************************************)
(* Shape: that of AuthCodeGrant, the types of the rotations, and the rows  *)
(* a suspended rotation relies on.                                         *)
(***************************************************************************)
Validated == {"scopes", "revoke", "persist", "issue", "respond"}

RotationShape(q) ==
  /\ rpc[q] # "idle" => rform[q] \in R!Form /\ tokens[rform[q].token] \in TokenRow
  /\ rpc[q] \in Validated => old[q] \in TokenRow
  /\ rpc[q] = "issue" => tokens[q] \in TokenRow
  /\ rpc[q] \in {"idle", "validate", "scopes", "revoke", "persist"} => tokens[q] = None

RotationsShaped ==
  /\ rpc \in [Rotations -> {"idle"} \cup R!Running \cup R!Ended]
  /\ rform \in [Rotations -> R!Form \cup {None}]
  /\ old \in [Rotations -> TokenRow \cup {None}]
  /\ rgranted \in [Rotations -> SUBSET Scopes]
  /\ \A q \in Rotations : RotationShape(q)

FamilyShape ==
  /\ Shape
  /\ OneUseInv
  /\ RotationsShaped
  /\ extinct \subseteq Codes

\* Both grants have the operators of one TokenStore.
LEMMA OneStore ==
  ASSUME NEW row
  PROVE  /\ R!Revoked(row) = Revoked(row)
         /\ R!WithRefreshToken(row) = WithRefreshToken(row)
<1>1. R!Revoked(row) = Revoked(row)
  BY Zenon DEF R!Revoked, Revoked
<1>2. R!WithRefreshToken(row) = WithRefreshToken(row)
  BY Zenon DEF R!WithRefreshToken, WithRefreshToken
<1>. QED  BY <1>1, <1>2

-----------------------------------------------------------------------------
(***************************************************************************)
(* What becomes of a row.                                                  *)
(***************************************************************************)
\* It stays, is revoked, or its refresh token expires.
Ages(t) ==
  \/ tokens'[t] = tokens[t]
  \/ tokens[t] # None /\ tokens'[t] = Revoked(tokens[t])
  \/ tokens[t] # None /\ tokens'[t] = [tokens[t] EXCEPT !.refresh = "revoked"]

LEMMA AgesKeeps ==
  ASSUME NEW t \in TokenIds, tokens[t] \in TokenRow, Ages(t)
  PROVE  /\ tokens'[t] \in TokenRow
         /\ SameGrant(tokens'[t], tokens[t])
         /\ tokens[t].access = "revoked" => tokens'[t].access = "revoked"
         /\ IsDead(tokens[t]) => IsDead(tokens'[t])
<1>1. CASE tokens'[t] = tokens[t]
  BY <1>1 DEF SameGrant
<1>2. CASE tokens'[t] = Revoked(tokens[t])
  BY <1>2, RevokedType DEF SameGrant, IsDead
<1>3. CASE tokens'[t] = [tokens[t] EXCEPT !.refresh = "revoked"]
  BY <1>3 DEF SameGrant, IsDead, TokenRow
<1>. QED  BY <1>1, <1>2, <1>3 DEF Ages

\* Redemptions age rows, and each extends the one row it stores.
LEMMA RedeemRows ==
  ASSUME Shape, [Next]_vars, NEW t \in TokenIds
  PROVE  \/ Ages(t)
         \/ t \in Requests /\ PersistToken(t) /\ tokens'[t] = NewToken(t)
         \/ /\ t \in Requests /\ IssueRefreshToken(t)
            /\ tokens'[t] = WithRefreshToken(tokens[t])
<1>. USE DEF Shape, TypeOK
<1>1. CASE \E r \in Requests : PersistToken(r)
  BY <1>1 DEF PersistToken, Ages
<1>2. CASE \E r \in Requests : RevokeDescendants(r)
  BY <1>2 DEF RevokeDescendants, DescendantsOf, Ages
<1>3. CASE \E r \in Requests : IssueRefreshToken(r)
  BY <1>3 DEF IssueRefreshToken, Ages
<1>4. CASE UNCHANGED tokens
  BY <1>4 DEF Ages
<1>. QED  BY <1>1, <1>2, <1>3, <1>4
     DEF Next, vars, Step, PersistCode, DeliverCode, Arrive, Resolve, CheckRevoked,
         LoadUser, FinalizeScopes, CheckChallenge, BurnCode, Respond, Fail,
         RevokeCode, DeleteUser, Tick

\* So do rotations.
LEMMA RotateRows ==
  ASSUME FamilyShape, Rotate, NEW t \in TokenIds
  PROVE  \/ Ages(t)
         \/ t \in Rotations /\ R!PersistNew(t) /\ tokens'[t] = R!NewToken(t)
         \/ /\ t \in Rotations /\ R!IssueRefresh(t)
            /\ tokens'[t] = WithRefreshToken(tokens[t])
<1>. USE DEF FamilyShape, Shape, TypeOK
<1>1. CASE \E q \in Rotations : R!PersistNew(q)
  BY <1>1 DEF R!PersistNew, Ages
<1>2. CASE \E q \in Rotations : R!IssueRefresh(q)
  BY <1>2, OneStore DEF R!IssueRefresh, Ages
<1>3. CASE \/ \E q \in Rotations : R!RevokeOld(q)
           \/ \E c \in Clients, u \in TokenIds : R!RevokeToken(c, u)
  <2>1. PICK u : tokens' = [tokens EXCEPT ![u] = Revoked(tokens[u])] /\ tokens[u] # None
    BY <1>3, OneStore, NoneIsNoRecord
       DEF R!RevokeOld, R!RevokeToken, R!HandedOut, FamilyShape, RotationsShaped, RotationShape
  <2>. QED  BY <2>1 DEF Ages
<1>4. CASE \E u \in TokenIds : R!Lapse(u)
  BY <1>4 DEF R!Lapse, Ages
<1>5. CASE UNCHANGED tokens
  BY <1>5 DEF Ages
<1>. QED  BY <1>1, <1>2, <1>3, <1>4, <1>5
     DEF Rotate, R!Step, R!Arrive, R!Validate, R!FinalizeScopes, R!Respond, R!Fail

-----------------------------------------------------------------------------
(***************************************************************************)
(* The shape is inductive.                                                 *)
(***************************************************************************)
RedeemOrReplay == Redeem \/ \E r \in Requests : Replay(r)

\* To a redemption a family is nothing but its own specification.
LEMMA RedeemIsNext ==
  ASSUME RedeemOrReplay
  PROVE  Next /\ UNCHANGED <<rpc, rform, old, rgranted, rlate>>
  BY DEF RedeemOrReplay, Redeem, RedemptionStep, Replay, Next, Step, rotation

LEMMA RedeemShape ==
  ASSUME FamilyShape, RedeemOrReplay
  PROVE  FamilyShape'
<1>1. [Next]_vars /\ UNCHANGED <<rpc, rform, old, rgranted, rlate>>
  BY RedeemIsNext
<1>2. Shape' /\ OneUseInv'
  BY <1>1, NextShape, NextOneUse DEF FamilyShape
<1>3. extinct' \subseteq Codes
  <2>1. ASSUME NEW r \in Requests, pc[r] # "idle" PROVE form[r].code \in Codes
    BY <2>1 DEF FamilyShape, Shape, Form
  <2>. QED  BY <2>1 DEF FamilyShape, RedeemOrReplay, Redeem, Replay, RevokeDescendants
<1>4. ASSUME NEW t \in TokenIds, tokens[t] \in TokenRow PROVE tokens'[t] \in TokenRow
  BY <1>1, <1>4, RowsKeep, NoneIsNoRecord DEF FamilyShape, Keeps
<1>5. ASSUME NEW t \in TokenIds \ Requests, tokens[t] = None PROVE tokens'[t] = None
  BY <1>1, <1>5, OnlyPersistStores DEF FamilyShape
<1>6. ASSUME NEW q \in Rotations PROVE RotationShape(q)'
  <2>1. rpc[q] # "idle" => rform[q].token \in TokenIds
    BY DEF FamilyShape, RotationsShaped, RotationShape, R!Form
  <2>. QED  BY <1>1, <1>4, <1>5, <2>1, FamilyAssumption DEF FamilyShape, RotationsShaped, RotationShape
<1>. QED  BY <1>1, <1>2, <1>3, <1>6 DEF FamilyShape, RotationsShaped

LEMMA FreshRowType ==
  ASSUME NEW origin \in Codes \cup {None}, NEW client \in Clients,
         NEW user \in Users \cup {None}, NEW scopes \in SUBSET Scopes
  PROVE  FreshRow(origin, client, user, scopes) \in TokenRow
  BY DEF FreshRow, TokenRow

LEMMA NewRotatedRow ==
  ASSUME FamilyShape, NEW q \in Rotations, rpc[q] = "persist"
  PROVE  /\ R!NewToken(q) = FreshRow(old[q].origin, rform[q].client, old[q].user, rgranted[q])
         /\ R!NewToken(q) \in TokenRow
<1>1. /\ old[q] \in TokenRow /\ rform[q] \in R!Form /\ rgranted[q] \subseteq Scopes
  BY DEF FamilyShape, RotationsShaped, RotationShape, Validated
<1>2. R!NewToken(q) = FreshRow(old[q].origin, rform[q].client, old[q].user, rgranted[q])
  BY Zenon DEF R!NewToken, R!FreshRow, FreshRow
<1>3. /\ old[q].origin \in Codes \cup {None} /\ old[q].user \in Users \cup {None}
      /\ rform[q].client \in Clients
  BY <1>1 DEF TokenRow, R!Form
<1>. QED  BY <1>1, <1>2, <1>3, FreshRowType

\* What a rotation does to the rows.
LEMMA RotateKeepsRows ==
  ASSUME FamilyShape, Rotate, NEW t \in TokenIds
  PROVE  /\ tokens'[t] \in TokenRow \cup {None}
         /\ tokens[t] \in TokenRow =>
              /\ tokens'[t] \in TokenRow
              /\ SameGrant(tokens'[t], tokens[t])
              /\ tokens[t].access = "revoked" => tokens'[t].access = "revoked"
         /\ tokens[t] = None /\ ~(t \in Rotations /\ R!PersistNew(t)) => tokens'[t] = None
<1>0. tokens[t] \in TokenRow \cup {None}
  BY DEF FamilyShape, Shape, TypeOK
<1>1. CASE Ages(t)
  BY <1>0, <1>1, AgesKeeps, NoneIsNoRecord DEF Ages
<1>2. CASE t \in Rotations /\ R!PersistNew(t) /\ tokens'[t] = R!NewToken(t)
  <2>1. rpc[t] = "persist" /\ tokens[t] = None
    BY <1>2 DEF R!PersistNew, FamilyShape, RotationsShaped, RotationShape
  <2>. QED  BY <1>2, <2>1, NewRotatedRow, NoneIsNoRecord
<1>3. CASE t \in Rotations /\ R!IssueRefresh(t) /\ tokens'[t] = WithRefreshToken(tokens[t])
  <2>1. tokens[t] \in TokenRow
    BY <1>3 DEF R!IssueRefresh, FamilyShape, RotationsShaped, RotationShape
  <2>. QED  BY <1>3, <2>1, WithRefreshTokenType, NoneIsNoRecord DEF SameGrant
<1>. QED  BY <1>1, <1>2, <1>3, RotateRows

LEMMA RotateShape ==
  ASSUME FamilyShape, Rotate
  PROVE  FamilyShape'
<1>1. UNCHANGED <<stores, pc, request, history, extinct>>
  BY DEF Rotate, redeemer
<1>2. \A t \in TokenIds : /\ tokens'[t] \in TokenRow \cup {None}
                          /\ tokens[t] \in TokenRow => tokens'[t] \in TokenRow
  BY RotateKeepsRows
<1>3. \A r \in Requests : r \in TokenIds /\ (tokens[r] = None => tokens'[r] = None)
  BY RotateKeepsRows, ConstantsAssumption, FamilyAssumption DEF ConstantsAssumption
<1>4. tokens' \in [TokenIds -> TokenRow \cup {None}]
  <2>1. DOMAIN tokens' = TokenIds /\ tokens' = [t \in DOMAIN tokens' |-> tokens'[t]]
    BY DEF FamilyShape, Shape, TypeOK, Rotate, R!Arrive, R!Step, R!Validate, R!FinalizeScopes,
         R!RevokeOld, R!PersistNew, R!IssueRefresh, R!Respond, R!Fail, R!RevokeToken, R!Lapse
  <2>. QED  BY <1>2, <2>1
<1>5. Shape'
  BY <1>1, <1>2, <1>3, <1>4 DEF FamilyShape, Shape, TypeOK
<1>6. OneUseInv'
  BY <1>1, <1>3 DEF FamilyShape, OneUseInv, OneUseOf, Spent
<1>7. ASSUME NEW q \in Rotations, NEW f \in RefreshInputs, R!Arrive(q, f)
      PROVE  RotationsShaped'
  <2>1. f \in R!Form /\ f.token \in TokenIds /\ tokens[f.token] \in TokenRow /\ tokens' = tokens
    BY <1>7, FamilyAssumption DEF R!Arrive, R!HandedOut, R!Form, FamilyShape, Shape, TypeOK
  <2>2. PICK label \in {"validate", "rejected"} : rpc' = [rpc EXCEPT ![q] = label]
    BY <1>7 DEF R!Arrive, R!Goto
  <2>. QED  BY <1>7, <2>1, <2>2
            DEF R!Arrive, FamilyShape, RotationsShaped, RotationShape, Validated, R!Running, R!Ended
<1>8. ASSUME NEW q \in Rotations, R!Step(q) \/ R!Fail(q)
      PROVE  RotationsShaped'
  <2>1. /\ rpc[q] \in R!Running /\ rform' = rform /\ rform[q] \in R!Form
        /\ rform[q].token \in TokenIds /\ tokens[rform[q].token] \in TokenRow
    BY <1>8 DEF R!Step, R!Fail, R!Running, R!Validate, R!FinalizeScopes, R!RevokeOld,
         R!PersistNew, R!IssueRefresh, R!Respond, R!request, R!Form, FamilyShape, RotationsShaped, RotationShape
  <2>2. PICK label \in R!Running \cup R!Ended :
          /\ rpc' = [rpc EXCEPT ![q] = label]
          /\ label # "validate"
          /\ label \in {"scopes", "revoke", "persist"} =>
               rpc[q] \in {"validate", "scopes", "revoke"} /\ ~R!PersistNew(q)
          /\ label = "issue" => R!PersistNew(q)
          /\ label \in Validated => rpc[q] \in Validated \/ R!Validate(q)
    BY <1>8 DEF R!Step, R!Fail, R!Running, R!Ended, R!Validate, R!FinalizeScopes, R!RevokeOld,
         R!PersistNew, R!IssueRefresh, R!Respond, R!Goto, Validated
  <2>3. \/ old' = old
        \/ R!Validate(q) /\ old' = [old EXCEPT ![q] = tokens[rform[q].token]]
    BY <1>8 DEF R!Step, R!Fail, R!Validate, R!FinalizeScopes, R!RevokeOld,
         R!PersistNew, R!IssueRefresh, R!Respond, R!request
  <2>4. \/ rgranted' = rgranted
        \/ \E granting \in SUBSET Scopes : rgranted' = [rgranted EXCEPT ![q] = granting]
    BY <1>8 DEF R!Step, R!Fail, R!Validate, R!FinalizeScopes, R!RevokeOld,
         R!PersistNew, R!IssueRefresh, R!Respond, R!request
  <2>5. /\ old' \in [Rotations -> TokenRow \cup {None}]
        /\ rgranted' \in [Rotations -> SUBSET Scopes]
        /\ rpc' \in [Rotations -> {"idle"} \cup R!Running \cup R!Ended]
        /\ rform' \in [Rotations -> R!Form \cup {None}]
    BY <2>1, <2>2, <2>3, <2>4 DEF FamilyShape, RotationsShaped
  <2>6. ASSUME NEW x \in Rotations \ {q} PROVE RotationShape(x)'
    <3>1. /\ rpc'[x] = rpc[x] /\ old'[x] = old[x] /\ rform'[x] = rform[x] /\ x \in TokenIds
      BY <2>1, <2>2, <2>3, FamilyAssumption DEF FamilyShape, RotationsShaped
    <3>2. ~R!PersistNew(x)
      BY <2>2, <3>1 DEF FamilyShape, RotationsShaped, R!PersistNew, R!Goto
    <3>3. rpc[x] # "idle" => rform[x].token \in TokenIds
      BY DEF FamilyShape, RotationsShaped, RotationShape, R!Form
    <3>. QED  BY <1>2, <3>1, <3>2, <3>3, RotateKeepsRows DEF FamilyShape, RotationsShaped, RotationShape
  <2>7. RotationShape(q)'
    <3>1. rpc'[q] = label /\ q \in TokenIds /\ RotationShape(q)
      BY <2>2, FamilyAssumption DEF FamilyShape, RotationsShaped
    <3>2. label \in Validated => old'[q] \in TokenRow
      <4>1. CASE R!Validate(q)
        BY <2>1, <2>3, <4>1, <3>1 DEF FamilyShape, RotationsShaped, RotationShape, Validated, R!Validate, R!Goto
      <4>2. CASE ~R!Validate(q)
        BY <2>2, <2>3, <3>1, <4>2 DEF RotationShape
      <4>. QED  BY <4>1, <4>2
    <3>3. label = "issue" => tokens'[q] \in TokenRow
      <4>. SUFFICES ASSUME R!PersistNew(q) PROVE tokens'[q] \in TokenRow
        BY <2>2
      <4>1. tokens'[q] = R!NewToken(q) /\ rpc[q] = "persist"
        BY <3>1 DEF R!PersistNew, FamilyShape, Shape, TypeOK
      <4>. QED  BY <3>1, <4>1, NewRotatedRow
    <3>4. label \in {"scopes", "revoke", "persist"} => tokens'[q] = None
      BY <2>2, <3>1, RotateKeepsRows DEF RotationShape
    <3>. QED  BY <1>2, <2>1, <2>2, <3>1, <3>2, <3>3, <3>4 DEF RotationShape, Validated, R!Running, R!Ended
  <2>. QED  BY <2>5, <2>6, <2>7 DEF RotationsShaped
<1>9. ASSUME UNCHANGED <<rpc, rform, old, rgranted>>, ~\E q \in Rotations : R!PersistNew(q)
      PROVE  RotationsShaped'
  <2>1. ASSUME NEW q \in Rotations PROVE RotationShape(q)'
    <3>1. rpc[q] # "idle" => rform[q].token \in TokenIds
      BY DEF FamilyShape, RotationsShaped, RotationShape, R!Form
    <3>. QED  BY <1>2, <1>9, <3>1, RotateKeepsRows, FamilyAssumption
              DEF FamilyShape, RotationsShaped, RotationShape
  <2>. QED  BY <1>9, <2>1 DEF FamilyShape, RotationsShaped
<1>10. RotationsShaped'
  <2>1. CASE \E q \in Rotations : R!PersistNew(q)
    BY <1>8, <2>1 DEF R!Step
  <2>2. CASE ~\E q \in Rotations : R!PersistNew(q)
    BY <1>7, <1>8, <1>9, <2>2 DEF Rotate, R!RevokeToken, R!Lapse, R!request
  <2>. QED  BY <2>1, <2>2
<1>. QED  BY <1>1, <1>5, <1>6, <1>10 DEF FamilyShape

LEMMA NextFamilyShape ==
  ASSUME FamilyShape, [FamilyNext]_<<vars, rotation, extinct>>
  PROVE  FamilyShape'
<1>1. CASE UNCHANGED <<vars, rotation, extinct>>
  BY <1>1 DEF vars, FamilyShape, Shape, TypeOK, OneUseInv, OneUseOf, Spent, RotationsShaped,
       RotationShape
<1>. QED  BY <1>1, RedeemShape, RotateShape DEF FamilyNext, RedeemOrReplay

LEMMA FamilyShapeInvariant == FamilySpec => []FamilyShape
<1>1. FamilyInit => FamilyShape
  <2>. SUFFICES ASSUME FamilyInit PROVE FamilyShape
    OBVIOUS
  <2>1. Shape
    BY InitShape DEF FamilyInit
  <2>2. OneUseInv
    BY ConstantsAssumption
       DEF ConstantsAssumption, FamilyInit, Init, OneUseInv, OneUseOf, Unminted
  <2>3. RotationsShaped
    BY FamilyAssumption
       DEF FamilyInit, Init, RotationsShaped, RotationShape, Validated
  <2>. QED  BY <2>1, <2>2, <2>3 DEF FamilyShape, FamilyInit
<1>. QED  BY <1>1, NextFamilyShape, PTL DEF FamilySpec

-----------------------------------------------------------------------------
(***************************************************************************)
(* What redemptions promise, they promise beside rotations too.            *)
(***************************************************************************)

\* A client holds tokens of a code only once the code is spent, whatever is
\* rotated meanwhile.
THEOREM FamilyCodeSpentBeforeDelivery == FamilySpec => []DeliveredCodeIsSpent
<1>1. FamilyShape => DeliveredCodeIsSpent
  BY DEF FamilyShape, OneUseInv, OneUseOf, DeliveredCodeIsSpent
<1>. QED  BY <1>1, FamilyShapeInvariant, PTL

\* A redemption that arrives after its code was exchanged mints nothing.
THEOREM FamilyLateRedemptionMintsNothing ==
  ASSUME HydratesExpiry PROVE FamilySpec => []NoLateRedemption
<1>1. FamilyShape => NoLateRedemption
  BY DEF FamilyShape, Shape, TypeOK, OneUseInv, OneUseOf, NoLateRedemption
<1>. QED  BY <1>1, FamilyShapeInvariant, PTL

-----------------------------------------------------------------------------
(***************************************************************************)
(* Within the approval.  The row a redemption stored is the root of the    *)
(* rows that are rotated from it: what it has beyond the approval its hook *)
(* added, and a rotation passes on the row it read, or less.               *)
(***************************************************************************)
Root(r, k) ==
  /\ tokens[r] # None
  /\ tokens[r].origin = k
  /\ tokens[r].scopes \subseteq approval[k].scopes \cup AddedByHook(r)

Within(row) ==
  /\ row.origin \in Codes
  /\ LET a == approval[row.origin]
     IN  /\ a # None
         /\ row.client = a.client
         /\ row.user \in {a.user, None}
  /\ \E r \in Requests : Root(r, row.origin) /\ row.scopes \subseteq tokens[r].scopes

RotationWithin(q) ==
  /\ rpc[q] \in Validated => Within(old[q]) /\ old[q].client = rform[q].client
  /\ rpc[q] \in {"revoke", "persist"} => rgranted[q] \subseteq old[q].scopes

WithinInv ==
  /\ TellingInv
  /\ \A t \in TokenIds : tokens[t] # None => Within(tokens[t])
  /\ \A q \in Rotations : RotationWithin(q)

LEMMA SameGrantWithin ==
  ASSUME NEW row, NEW parent, Within(parent), SameGrant(row, parent)
  PROVE  Within(row)
  BY DEF Within, SameGrant

\* A request that has stored its token has settled on its claims and scopes.
LEMMA SettledOnce ==
  ASSUME Shape, OneUseInv, [Next]_vars, NEW r \in Requests, tokens[r] # None
  PROVE  claim'[r] = claim[r] /\ granted'[r] = granted[r]
<1>1. pc[r] \notin Unminted
  BY DEF OneUseInv, OneUseOf
<1>. QED  BY <1>1
     DEF Unminted, Shape, TypeOK, Next, vars, Step, PersistCode, DeliverCode, Arrive,
         Resolve, CheckRevoked, RevokeDescendants, LoadUser, FinalizeScopes,
         CheckChallenge, PersistToken, IssueRefreshToken, BurnCode, Respond, Fail,
         RevokeCode, DeleteUser, Tick

\* What is within the approval stays so while codes are issued and redeemed.
LEMMA RootStays ==
  ASSUME FamilyShape, [Next]_vars, NEW r \in Requests, NEW k \in Codes,
         approval[k] # None, Root(r, k)
  PROVE  Root(r, k)' /\ tokens'[r].scopes = tokens[r].scopes
<1>1. r \in TokenIds /\ Shape /\ OneUseInv
  BY ConstantsAssumption DEF ConstantsAssumption, FamilyShape
<1>2. tokens'[r] \in TokenRow /\ SameGrant(tokens'[r], tokens[r])
  BY <1>1, RowsKeep DEF Keeps, Root
<1>3. AddedByHook(r)' = AddedByHook(r)
  BY <1>1, SettledOnce DEF AddedByHook, Root
<1>4. approval'[k] = approval[k]
  BY <1>1, ApprovalStays
<1>. QED  BY <1>2, <1>3, <1>4, NoneIsNoRecord DEF Root, SameGrant

LEMMA WithinStays ==
  ASSUME FamilyShape, [Next]_vars, NEW row, Within(row)
  PROVE  Within(row)'
<1>1. row.origin \in Codes /\ approval[row.origin] # None
  BY DEF Within
<1>2. PICK r \in Requests : Root(r, row.origin) /\ row.scopes \subseteq tokens[r].scopes
  BY DEF Within
<1>3. Root(r, row.origin)' /\ tokens'[r].scopes = tokens[r].scopes
  <2>1. \A k \in Codes : approval[k] # None /\ Root(r, k) =>
          Root(r, k)' /\ tokens'[r].scopes = tokens[r].scopes
    BY RootStays
  <2>. QED  BY <1>1, <1>2, <2>1
<1>4. approval'[row.origin] = approval[row.origin]
  BY <1>1, ApprovalStays DEF FamilyShape
<1>5. \E x \in Requests : Root(x, row.origin)' /\ row.scopes \subseteq tokens'[x].scopes
  BY <1>2, <1>3
<1>. HIDE DEF Root
<1>. QED  BY <1>4, <1>5 DEF Within

\* The row a redemption stores is a root.
LEMMA PersistedWithin ==
  ASSUME Shape, TellingInv, NEW r \in Requests, PersistToken(r)
  PROVE  Within(tokens[r])'
<1>1. PICK k \in Codes : k = form[r].code /\ approval[k] # None
  BY DEF PersistToken, Shape, Form
<1>2. /\ ClaimTells(r) /\ claim[r].client = form[r].client
      /\ subject[r] \in {claim[r].user, None}
  BY DEF PersistToken, TellingInv, RequestTells, Resolved, Holding, Minting
<1>3. /\ r \in TokenIds /\ NewToken(r) \in TokenRow /\ tokens'[r] = NewToken(r)
      /\ approval' = approval
  BY NewTokenType, ConstantsAssumption DEF ConstantsAssumption, PersistToken, Shape, TypeOK
<1>4. /\ NewToken(r).origin = k /\ NewToken(r).client = form[r].client
      /\ NewToken(r).user = subject[r] /\ NewToken(r).scopes = granted[r]
  BY <1>1 DEF NewToken, FreshRow
<1>5. Root(r, k)'
  <2>1. AddedByHook(r)' = granted[r] \ claim[r].scopes
    BY DEF PersistToken, AddedByHook
  <2>2. granted[r] \subseteq approval[k].scopes \cup AddedByHook(r)'
    BY <1>1, <1>2, <2>1 DEF ClaimTells
  <2>. QED  BY <1>3, <1>4, <2>2, NoneIsNoRecord DEF Root
<1>. HIDE DEF Root
<1>. QED  BY <1>1, <1>2, <1>3, <1>4, <1>5 DEF ClaimTells, Within

LEMMA RedeemWithin ==
  ASSUME FamilyShape, WithinInv, RedeemOrReplay
  PROVE  WithinInv'
<1>1. [Next]_vars /\ UNCHANGED <<rpc, rform, old, rgranted, rlate>> /\ Shape
  BY RedeemIsNext DEF FamilyShape
<1>2. TellingInv'
  BY <1>1, NextTelling DEF WithinInv
<1>. HIDE DEF Within
<1>3. ASSUME NEW t \in TokenIds, tokens'[t] # None
      PROVE  Within(tokens[t])'
  <2>1. CASE tokens[t] # None
    <3>1. SameGrant(tokens'[t], tokens[t]) /\ Within(tokens[t])
      BY <1>1, <2>1, RowsKeep DEF FamilyShape, Keeps, WithinInv
    <3>2. Within(tokens'[t])
      BY <3>1, SameGrantWithin
    <3>. QED  BY <1>1, <3>2, WithinStays
  <2>2. CASE tokens[t] = None
    <3>1. t \in Requests /\ PersistToken(t)
      BY <1>1, <1>3, <2>2, OnlyPersistStores DEF FamilyShape
    <3>. QED  BY <1>1, <3>1, PersistedWithin DEF WithinInv
  <2>. QED  BY <2>1, <2>2
<1>4. ASSUME NEW q \in Rotations PROVE RotationWithin(q)'
  <2>1. Within(old[q]) => Within(old[q])'
    BY <1>1, WithinStays
  <2>. QED  BY <1>1, <2>1 DEF WithinInv, RotationWithin
<1>. QED  BY <1>2, <1>3, <1>4 DEF WithinInv

LEMMA RotatedRowWithin ==
  ASSUME FamilyShape, WithinInv, NEW q \in Rotations, rpc[q] = "persist"
  PROVE  Within(R!NewToken(q))
<1>1. R!NewToken(q) = FreshRow(old[q].origin, rform[q].client, old[q].user, rgranted[q])
  BY NewRotatedRow
<1>2. /\ Within(old[q]) /\ old[q].client = rform[q].client
      /\ rgranted[q] \subseteq old[q].scopes
  BY DEF WithinInv, RotationWithin, Validated
<1>3. Within(FreshRow(old[q].origin, rform[q].client, old[q].user, rgranted[q]))
  BY <1>2 DEF FreshRow, Within
<1>. QED  BY <1>1, <1>3

\* What redemptions know of their codes does not depend on the token rows.
LEMMA TellingIgnoresRows ==
  ASSUME TellingInv, UNCHANGED <<stores, pc, request>>
  PROVE  TellingInv'
<1>1. ASSUME NEW k \in Codes PROVE RowTells(k)'
  BY DEF TellingInv, RowTells, SurvivesStorage, IsOpenidRequest
<1>2. ASSUME NEW r \in Requests PROVE RequestTells(r)'
  BY DEF TellingInv, RequestTells, ClaimTells, IsOpenidRequest
<1>. QED  BY <1>1, <1>2 DEF TellingInv

\* Rotations leave the roots as they are.
LEMMA RotateKeepsWithin ==
  ASSUME FamilyShape, Rotate, NEW row, Within(row)
  PROVE  Within(row)'
<1>1. UNCHANGED <<stores, pc, request>>
  BY DEF Rotate, redeemer
<1>2. PICK r \in Requests : Root(r, row.origin) /\ row.scopes \subseteq tokens[r].scopes
  BY DEF Within
<1>3. r \in TokenIds /\ tokens[r] # None
  BY <1>2, ConstantsAssumption DEF ConstantsAssumption, Root
<1>4. tokens'[r] \in TokenRow /\ SameGrant(tokens'[r], tokens[r])
  BY <1>3, RotateKeepsRows DEF FamilyShape, Shape, TypeOK
<1>5. AddedByHook(r)' = AddedByHook(r)
  BY <1>1 DEF AddedByHook
<1>6. Root(r, row.origin)' /\ row.scopes \subseteq tokens'[r].scopes
  BY <1>1, <1>2, <1>4, <1>5, NoneIsNoRecord DEF Root, SameGrant
<1>. HIDE DEF Root
<1>. QED  BY <1>1, <1>6 DEF Within

LEMMA RotateWithin ==
  ASSUME FamilyShape, WithinInv, Rotate
  PROVE  WithinInv'
<1>. USE DEF FamilyShape, Shape, TypeOK, RotationsShaped
<1>1. UNCHANGED <<stores, pc, request, history>>
  BY DEF Rotate, redeemer
<1>2. TellingInv'
  BY <1>1, TellingIgnoresRows DEF WithinInv
<1>3. ASSUME NEW t \in TokenIds, tokens'[t] # None
      PROVE  Within(tokens[t])'
  <2>1. CASE tokens[t] # None
    <3>1. SameGrant(tokens'[t], tokens[t]) /\ Within(tokens[t])
      BY <2>1, RotateKeepsRows DEF WithinInv
    <3>2. Within(tokens'[t])
      BY <3>1, SameGrantWithin
    <3>. QED  BY <3>2, RotateKeepsWithin
  <2>2. CASE tokens[t] = None
    <3>1. t \in Rotations /\ R!PersistNew(t)
      BY <1>3, <2>2, RotateKeepsRows
    <3>2. tokens'[t] = R!NewToken(t) /\ rpc[t] = "persist"
      BY <3>1 DEF R!PersistNew
    <3>3. Within(R!NewToken(t))
      BY <3>1, <3>2, RotatedRowWithin
    <3>. QED  BY <3>2, <3>3, RotateKeepsWithin
  <2>. QED  BY <2>1, <2>2
<1>4. \A row : Within(row) => Within(row)'
  BY RotateKeepsWithin
<1>5. ASSUME NEW q \in Rotations PROVE RotationWithin(q)'
  <2>1. CASE R!Validate(q)
    <3>1. CASE R!Usable(tokens[rform[q].token], rform[q].client) /\ rpc'[q] = "scopes"
      <4>1. /\ old'[q] = tokens[rform[q].token] /\ rform' = rform
            /\ old'[q].client = rform[q].client
        BY <2>1, <3>1 DEF R!Validate, R!Usable, R!Goto
      <4>2. rform[q].token \in TokenIds /\ tokens[rform[q].token] # None
        BY <2>1, NoneIsNoRecord DEF R!Validate, RotationShape, R!Form
      <4>. QED  BY <1>4, <3>1, <4>1, <4>2 DEF WithinInv, RotationWithin
    <3>2. CASE rpc'[q] = "rejected"
      BY <3>2 DEF RotationWithin, Validated
    <3>. QED  BY <2>1, <3>1, <3>2 DEF R!Validate, R!Goto
  <2>2. CASE R!FinalizeScopes(q)
    BY <1>4, <2>2 DEF WithinInv, RotationWithin, Validated, R!FinalizeScopes, R!Goto, R!WithinOldToken
  <2>3. CASE /\ old'[q] = old[q] /\ rform'[q] = rform[q] /\ rgranted'[q] = rgranted[q]
             /\ rpc'[q] \in Validated => rpc[q] \in Validated
             /\ rpc'[q] \in {"revoke", "persist"} => rpc[q] \in {"revoke", "persist"}
    BY <1>4, <2>3 DEF WithinInv, RotationWithin
  <2>4. CASE \E f \in RefreshInputs : R!Arrive(q, f)
    BY <2>4 DEF RotationWithin, Validated, R!Arrive, R!Goto
  <2>. QED
    <3>1. CASE \E x \in Rotations, f \in RefreshInputs : R!Arrive(x, f)
      BY <2>3, <2>4, <3>1 DEF R!Arrive, R!Goto
    <3>2. CASE \E x \in Rotations : R!Step(x) \/ R!Fail(x)
      BY <2>1, <2>2, <2>3, <3>2
         DEF R!Step, R!Fail, R!Validate, R!FinalizeScopes, R!RevokeOld, R!PersistNew,
             R!IssueRefresh, R!Respond, R!Goto, R!request, Validated
    <3>3. CASE UNCHANGED <<rpc, rform, old, rgranted>>
      BY <2>3, <3>3
    <3>. QED  BY <3>1, <3>2, <3>3 DEF Rotate, R!RevokeToken, R!Lapse, R!request
<1>. QED  BY <1>2, <1>3, <1>5 DEF WithinInv

LEMMA NextWithin ==
  ASSUME FamilyShape, WithinInv, [FamilyNext]_<<vars, rotation, extinct>>
  PROVE  WithinInv'
<1>1. CASE UNCHANGED <<vars, rotation, extinct>>
  BY <1>1, TellingIgnoresRows DEF vars, WithinInv, Within, Root, AddedByHook, RotationWithin
<1>. QED  BY <1>1, RedeemWithin, RotateWithin DEF FamilyNext, RedeemOrReplay

LEMMA WithinInvariant == FamilySpec => []WithinInv
<1>1. FamilyInit => WithinInv
  <2>1. FamilyInit => Init /\ \A q \in Rotations : RotationWithin(q)
    BY DEF FamilyInit, RotationWithin, Validated
  <2>2. FamilyInit => \A t \in TokenIds : tokens[t] = None
    BY DEF FamilyInit, Init
  <2>. QED  BY <2>1, <2>2, InitTelling DEF WithinInv
<1>. QED  BY <1>1, FamilyShapeInvariant, NextWithin, PTL DEF FamilySpec

\* However often a code's tokens are rotated, and whatever else is in
\* flight, each is the approved client's and user's, and a scope beyond the
\* approval was added by the hook of a redemption and by no rotation's.
THEOREM FamilyStaysWithinApproval == FamilySpec => []FamilyWithinApproval
<1>1. WithinInv => FamilyWithinApproval
  BY DEF WithinInv, Within, Root, FamilyWithinApproval
<1>. QED  BY <1>1, WithinInvariant, PTL

-----------------------------------------------------------------------------
(***************************************************************************)
(* Binding, nonce and freshness.  To what a redemption knows a rotation    *)
(* does nothing, and it keeps the grant of the row a redemption stored.    *)
(***************************************************************************)
LEMMA RotateBinding ==
  ASSUME FamilyShape, BindingInv, Rotate
  PROVE  BindingInv'
<1>1. UNCHANGED <<stores, pc, request>>
  BY DEF Rotate, redeemer
<1>2. ASSUME NEW k \in Codes PROVE RowAgrees(k)'
  BY <1>1 DEF BindingInv, RowAgrees
<1>3. ASSUME NEW r \in Requests PROVE ChecksTell(r)'
  <2>1. ChecksTell(r) /\ r \in TokenIds /\ r \notin Rotations
    BY ConstantsAssumption, FamilyAssumption DEF ConstantsAssumption, BindingInv
  <2>2. tokens[r] = None => tokens'[r] = None
    BY <2>1, RotateKeepsRows
  <2>3. tokens[r] # None => SameGrant(tokens'[r], tokens[r])
    BY <2>1, RotateKeepsRows DEF FamilyShape, Shape, TypeOK
  <2>4. tokens'[r] # None => BoundToApproval(r)'
    BY <1>1, <2>1, <2>2, <2>3 DEF ChecksTell, BoundToApproval, AddedByHook, SameGrant
  <2>5. ClaimAgrees(r) => ClaimAgrees(r)'
    BY <1>1 DEF ClaimAgrees
  <2>. QED  BY <1>1, <2>1, <2>2, <2>4, <2>5 DEF ChecksTell
<1>. QED  BY <1>2, <1>3 DEF BindingInv

\* A token minted by a redemption is bound to what the end user approved, PKCE
\* included, and no rotation or replay loosens that.
THEOREM FamilyMintedTokenIsBound ==
  ASSUME ChallengeTravels PROVE FamilySpec => []TokenBoundToApproval
<1>1. FamilyInit => BindingInv
  BY ConstantsAssumption
     DEF ConstantsAssumption, FamilyInit, Init, BindingInv, RowAgrees, ChecksTell, Resolved,
         Holding, Minting
<1>2. ASSUME FamilyShape, BindingInv, [FamilyNext]_<<vars, rotation, extinct>>
      PROVE  BindingInv'
  <2>1. CASE RedeemOrReplay \/ UNCHANGED vars
    BY <1>2, <2>1, RedeemIsNext, NextBinding DEF FamilyShape
  <2>. QED  BY <1>2, <2>1, RotateBinding DEF FamilyNext, RedeemOrReplay
<1>3. BindingInv => TokenBoundToApproval
  BY DEF BindingInv, ChecksTell, TokenBoundToApproval
<1>. QED  BY <1>1, <1>2, <1>3, FamilyShapeInvariant, PTL DEF FamilySpec

\* The nonce reaches the ID token beside rotations, too.
THEOREM FamilyNonceReachesIdToken == FamilySpec => []NonceSurvives
<1>1. FamilyShape /\ WithinInv => NonceSurvives
  BY ToldNonceSurvives DEF FamilyShape, WithinInv
<1>. QED  BY <1>1, FamilyShapeInvariant, WithinInvariant, PTL

\* And a redemption is admitted only while the authentication is fresh.
THEOREM FamilyAdmittedWhileFresh ==
  ASSUME MaxAgeTravels PROVE FamilySpec => FreshWhenAdmitted
<1>1. ASSUME FamilyShape, WithinInv, [FamilyNext]_<<vars, rotation, extinct>>,
             NEW r \in Requests,
             approval[form[r].code].staleAt # None, pc[r] = "check", pc'[r] = "user"
      PROVE  approval[form[r].code].staleAt >= now
  <2>1. [Next]_vars
    BY <1>1, RedeemIsNext DEF FamilyNext, RedeemOrReplay, Rotate, vars
  <2>. QED  BY <1>1, <2>1, AdmitsFresh DEF FamilyShape, WithinInv
<1>2. FamilyShape /\ WithinInv /\ [FamilyNext]_<<vars, rotation, extinct>> =>
        [\A r \in Requests :
           LET staleAt == approval[form[r].code].staleAt
           IN  pc[r] = "check" /\ pc'[r] = "user" /\ staleAt # None => staleAt >= now]_vars
  BY <1>1
<1>. QED  BY <1>2, FamilyShapeInvariant, WithinInvariant, PTL DEF FamilySpec, FreshWhenAdmitted

-----------------------------------------------------------------------------
(***************************************************************************)
(* Extinct families.  A family becomes extinct when a revoked code is      *)
(* swept while nobody mints into it.  The code stays revoked, so no        *)
(* redemption is admitted again; the rows are dead, so no rotation passes  *)
(* its check; and with nobody minting nothing brings a row back.           *)
(***************************************************************************)
ExtinctInv ==
  /\ \A r \in Requests : /\ pc[r] = "sweep" => IsRevoked(form[r].code)
                         /\ pc[r] = "refresh" => tokens[r].origin = form[r].code
  /\ \A q \in Rotations : rpc[q] = "issue" => tokens[q].origin = old[q].origin
  /\ \A k \in extinct : codes[k] # None /\ IsRevoked(k) /\ Quiet(k)
  /\ ExtinctFamilyStaysDead

\* Redemptions keep what ExtinctInv says of one request.
LEMMA RedeemRequests ==
  ASSUME FamilyShape, ExtinctInv, [Next]_vars, NEW r \in Requests
  PROVE  /\ pc'[r] = "sweep" => IsRevoked(form[r].code)'
         /\ pc'[r] = "refresh" => tokens'[r].origin = form'[r].code
<1>. USE DEF FamilyShape, Shape, TypeOK
<1>1. ASSUME pc'[r] = "sweep" PROVE IsRevoked(form[r].code)'
  <2>1. CASE pc[r] = "sweep" /\ form'[r] = form[r]
    BY <2>1, SweepStays DEF ExtinctInv
  <2>2. CASE CheckRevoked(r)
    BY <1>1, <2>2, CheckLeads, SweepStays
  <2>. QED  BY <1>1, <2>1, <2>2, OwnSteps
            DEF Goto, Step, Arrive, Resolve, RevokeDescendants, LoadUser, FinalizeScopes,
                CheckChallenge, PersistToken, IssueRefreshToken, BurnCode, Respond, Fail
<1>2. ASSUME pc'[r] = "refresh" PROVE tokens'[r].origin = form'[r].code
  <2>1. CASE pc[r] = "refresh" /\ form'[r] = form[r]
    <3>1. tokens[r] # None /\ tokens[r].origin = form[r].code
      BY <2>1, NoneIsNoRecord DEF ExtinctInv, Persisted
    <3>. QED  BY <2>1, <3>1, RowsKeep, ConstantsAssumption
              DEF ConstantsAssumption, Keeps, SameGrant
  <2>2. CASE PersistToken(r)
    BY <2>2, ConstantsAssumption DEF ConstantsAssumption, PersistToken, NewToken, FreshRow
  <2>. QED  BY <1>2, <2>1, <2>2, OwnSteps
            DEF Goto, Step, Arrive, Resolve, CheckRevoked, RevokeDescendants, LoadUser,
                FinalizeScopes, CheckChallenge, IssueRefreshToken, BurnCode, Respond, Fail
<1>. QED  BY <1>1, <1>2

\* A revoked code that is quiet stays so.
LEMMA RedeemKeepsQuiet ==
  ASSUME FamilyShape, [Next]_vars, UNCHANGED rotation,
         NEW k \in Codes, codes[k] # None, IsRevoked(k), Quiet(k)
  PROVE  codes'[k] # None /\ IsRevoked(k)' /\ Quiet(k)'
<1>1. codes'[k] # None /\ IsRevoked(k)'
  BY RevokedStays DEF FamilyShape
<1>2. ASSUME NEW q \in Requests, pc'[q] \in Minting, form'[q].code = k
      PROVE  FALSE
  <2>1. ~(pc[q] \in Minting /\ form[q].code = k)
    BY DEF Quiet, MintingFrom
  <2>2. ~CheckRevoked(q)
    BY <1>2, CheckLeads DEF FamilyShape, Minting
  <2>. QED  BY <1>2, <2>1, <2>2, OwnSteps
            DEF FamilyShape, Shape, TypeOK, Goto, Minting, Step, Arrive, Resolve, RevokeDescendants,
                LoadUser, FinalizeScopes, CheckChallenge, PersistToken, IssueRefreshToken,
                BurnCode, Respond, Fail
<1>3. MintingFrom(k)' = {}
  BY <1>2 DEF MintingFrom
<1>4. RotatingFrom(k)' = {}
  BY DEF Quiet, RotatingFrom
<1>. QED  BY <1>1, <1>3, <1>4 DEF Quiet

\* A dead row of a quiet family stays dead, and none is added to it.
LEMMA RedeemKeepsDead ==
  ASSUME FamilyShape, ExtinctInv, [Next]_vars, NEW t \in TokenIds,
         tokens'[t] # None, tokens'[t].origin \in extinct
  PROVE  IsDead(tokens'[t])
<1>. USE DEF FamilyShape, Shape, TypeOK
<1>1. CASE Ages(t)
  <2>1. tokens[t] \in TokenRow /\ tokens[t] # None
    BY <1>1, NoneIsNoRecord DEF Ages
  <2>2. tokens'[t].origin = tokens[t].origin /\ (IsDead(tokens[t]) => IsDead(tokens'[t]))
    BY <1>1, <2>1, AgesKeeps DEF SameGrant
  <2>. QED  BY <2>1, <2>2 DEF ExtinctInv, ExtinctFamilyStaysDead
<1>2. CASE t \in Requests /\ PersistToken(t) /\ tokens'[t] = NewToken(t)
  <2>1. pc[t] \in Minting /\ tokens'[t].origin = form[t].code
    BY <1>2 DEF PersistToken, Minting, NewToken, FreshRow
  <2>. QED  BY <1>2, <2>1 DEF ExtinctInv, Quiet, MintingFrom
<1>3. CASE /\ t \in Requests /\ IssueRefreshToken(t)
           /\ tokens'[t] = WithRefreshToken(tokens[t])
  <2>1. pc[t] = "refresh" /\ tokens[t] \in TokenRow /\ tokens[t].origin = form[t].code
    BY <1>3 DEF IssueRefreshToken, Persisted, ExtinctInv
  <2>2. pc[t] \in Minting /\ tokens'[t].origin = form[t].code
    BY <1>3, <2>1, WithRefreshTokenType DEF Minting, SameGrant
  <2>. QED  BY <1>3, <2>2 DEF ExtinctInv, Quiet, MintingFrom
<1>. QED  BY <1>1, <1>2, <1>3, RedeemRows

\* The sweep kills the family it makes extinct.
LEMMA ReplaySweeps ==
  ASSUME FamilyShape, ExtinctInv, NEW r \in Requests, Replay(r)
  PROVE  /\ \A k \in extinct' : k \in extinct \/ k = form[r].code
         /\ form[r].code \in extinct' =>
              form[r].code \in extinct \/ Quiet(form[r].code)
         /\ codes[form[r].code] # None /\ IsRevoked(form[r].code)
         /\ \A t \in TokenIds :
              tokens'[t] # None /\ tokens'[t].origin = form[r].code => IsDead(tokens'[t])
<1>. USE DEF FamilyShape, Shape, TypeOK
<1>1. codes[form[r].code] # None /\ IsRevoked(form[r].code)
  <2>1. pc[r] = "sweep"
    BY DEF Replay, RevokeDescendants
  <2>2. IsRevoked(form[r].code)
    BY <2>1 DEF ExtinctInv
  <2>3. form[r].code \in Codes /\ wire[form[r].code] # 0
    BY <2>1 DEF Form
  <2>. QED  BY <2>2, <2>3
<1>2. ASSUME NEW t \in TokenIds, tokens'[t] # None, tokens'[t].origin = form[r].code
      PROVE  IsDead(tokens'[t])
  <2>1. CASE t \in DescendantsOf(form[r].code)
    BY <2>1, RevokedType, NoneIsNoRecord DEF Replay, RevokeDescendants, DescendantsOf
  <2>2. CASE t \notin DescendantsOf(form[r].code)
    BY <1>2, <2>2 DEF Replay, RevokeDescendants, DescendantsOf
  <2>. QED  BY <2>1, <2>2
<1>. QED  BY <1>1, <1>2 DEF Replay

LEMMA RedeemExtinct ==
  ASSUME FamilyShape, ExtinctInv, RedeemOrReplay
  PROVE  ExtinctInv'
<1>1. [Next]_vars /\ UNCHANGED rotation
  BY RedeemIsNext
<1>2. \A k \in extinct : k \in Codes /\ codes[k] # None /\ IsRevoked(k) /\ Quiet(k)
  BY DEF FamilyShape, ExtinctInv
<1>3. ASSUME NEW q \in Rotations, rpc'[q] = "issue"
      PROVE  tokens'[q].origin = old'[q].origin
  <2>1. q \in TokenIds /\ tokens[q] # None /\ tokens[q].origin = old[q].origin
    BY <1>1, <1>3, NoneIsNoRecord, FamilyAssumption
       DEF FamilyShape, RotationsShaped, RotationShape, ExtinctInv
  <2>. QED  BY <1>1, <2>1, RowsKeep DEF FamilyShape, Keeps, SameGrant
<1>4. ASSUME NEW k \in extinct'
      PROVE  codes'[k] # None /\ IsRevoked(k)' /\ Quiet(k)'
  <2>1. CASE k \in extinct
    BY <1>1, <1>2, <2>1, RedeemKeepsQuiet
  <2>2. CASE k \notin extinct
    <3>1. PICK r \in Requests : Replay(r)
      BY <1>4, <2>2 DEF RedeemOrReplay, Redeem
    <3>2. k = form[r].code /\ codes[k] # None /\ IsRevoked(k) /\ Quiet(k)
      BY <1>4, <2>2, <3>1, ReplaySweeps
    <3>3. k \in Codes
      BY <3>1, <3>2 DEF FamilyShape, Shape, Form, Replay, RevokeDescendants
    <3>. QED  BY <1>1, <3>2, <3>3, RedeemKeepsQuiet
  <2>. QED  BY <2>1, <2>2
<1>5. ASSUME NEW t \in TokenIds, tokens'[t] # None, tokens'[t].origin \in extinct'
      PROVE  IsDead(tokens'[t])
  <2>1. CASE tokens'[t].origin \in extinct
    BY <1>1, <1>5, <2>1, RedeemKeepsDead
  <2>2. CASE tokens'[t].origin \notin extinct
    <3>1. PICK r \in Requests : Replay(r)
      BY <1>5, <2>2 DEF RedeemOrReplay, Redeem
    <3>. QED  BY <1>5, <2>2, <3>1, ReplaySweeps
  <2>. QED  BY <2>1, <2>2
<1>6. ASSUME NEW r \in Requests
      PROVE  /\ pc'[r] = "sweep" => IsRevoked(form[r].code)'
             /\ pc'[r] = "refresh" => tokens'[r].origin = form'[r].code
  BY <1>1, RedeemRequests
<1>. QED  BY <1>3, <1>4, <1>5, <1>6 DEF ExtinctInv, ExtinctFamilyStaysDead

\* A rotation passes its check with a live token only.
LEMMA RotationStarts ==
  ASSUME FamilyShape, Rotate, NEW q \in Rotations,
         rpc'[q] \in {"scopes", "revoke", "persist", "issue"}
  PROVE  \/ /\ rpc[q] \in {"scopes", "revoke", "persist", "issue"}
            /\ old'[q] = old[q]
         \/ \E t \in TokenIds : /\ tokens[t] # None
                                /\ ~IsDead(tokens[t])
                                /\ old'[q] = tokens[t]
<1>. USE DEF FamilyShape, RotationsShaped
<1>1. CASE R!Validate(q)
  <2>1. /\ R!Usable(tokens[rform[q].token], rform[q].client)
        /\ old'[q] = tokens[rform[q].token]
    BY <1>1 DEF R!Validate, R!Goto
  <2>2. rform[q].token \in TokenIds /\ tokens[rform[q].token] # None
    BY <1>1, NoneIsNoRecord DEF R!Validate, RotationShape, R!Form
  <2>. QED  BY <2>1, <2>2 DEF R!Usable, IsDead
<1>2. CASE ~R!Validate(q)
  BY <1>2 DEF Rotate, R!Arrive, R!Step, R!Validate, R!FinalizeScopes, R!RevokeOld, R!PersistNew,
       R!IssueRefresh, R!Respond, R!Fail, R!RevokeToken, R!Lapse, R!Goto, R!request
<1>. QED  BY <1>1, <1>2

\* What a rotation is about to store belongs to the family it read from.
LEMMA RotateOrigin ==
  ASSUME FamilyShape, ExtinctInv, Rotate, NEW q \in Rotations, rpc'[q] = "issue"
  PROVE  tokens'[q].origin = old'[q].origin
<1>. USE DEF FamilyShape, Shape, TypeOK, RotationsShaped
<1>0. q \in TokenIds
  BY FamilyAssumption
<1>1. CASE R!PersistNew(q)
  <2>1. tokens'[q] = R!NewToken(q) /\ rpc[q] = "persist" /\ old' = old
    BY <1>0, <1>1 DEF R!PersistNew, R!request
  <2>. QED  BY <2>1, NewRotatedRow DEF FreshRow
<1>2. CASE ~R!PersistNew(q)
  <2>1. rpc[q] = "issue" /\ old'[q] = old[q]
    BY <1>2 DEF Rotate, R!Arrive, R!Step, R!Validate, R!FinalizeScopes, R!RevokeOld, R!PersistNew,
         R!IssueRefresh, R!Respond, R!Fail, R!RevokeToken, R!Lapse, R!Goto, R!request
  <2>2. tokens'[q].origin = tokens[q].origin
    BY <1>0, <2>1, RotateKeepsRows DEF RotationShape, SameGrant
  <2>. QED  BY <2>1, <2>2 DEF ExtinctInv
<1>. QED  BY <1>1, <1>2

LEMMA RotateKeepsDead ==
  ASSUME FamilyShape, ExtinctInv, Rotate, NEW t \in TokenIds,
         tokens'[t] # None, tokens'[t].origin \in extinct
  PROVE  IsDead(tokens'[t])
<1>. USE DEF FamilyShape, Shape, TypeOK
<1>1. CASE Ages(t)
  <2>1. tokens[t] \in TokenRow /\ tokens[t] # None
    BY <1>1, NoneIsNoRecord DEF Ages
  <2>2. tokens'[t].origin = tokens[t].origin /\ (IsDead(tokens[t]) => IsDead(tokens'[t]))
    BY <1>1, <2>1, AgesKeeps DEF SameGrant
  <2>. QED  BY <2>1, <2>2 DEF ExtinctInv, ExtinctFamilyStaysDead
<1>2. CASE t \in Rotations /\ R!PersistNew(t) /\ tokens'[t] = R!NewToken(t)
  <2>1. rpc[t] = "persist" /\ tokens'[t].origin = old[t].origin
    BY <1>2, NewRotatedRow DEF R!PersistNew, FreshRow
  <2>. QED  BY <1>2, <2>1 DEF ExtinctInv, Quiet, RotatingFrom
<1>3. CASE t \in Rotations /\ R!IssueRefresh(t) /\ tokens'[t] = WithRefreshToken(tokens[t])
  <2>1. rpc[t] = "issue" /\ tokens[t] \in TokenRow /\ tokens[t].origin = old[t].origin
    BY <1>3 DEF R!IssueRefresh, RotationsShaped, RotationShape, ExtinctInv
  <2>2. tokens'[t].origin = old[t].origin
    BY <1>3, <2>1, WithRefreshTokenType DEF SameGrant
  <2>. QED  BY <1>3, <2>1, <2>2 DEF ExtinctInv, Quiet, RotatingFrom
<1>. QED  BY <1>1, <1>2, <1>3, RotateRows

LEMMA RotateExtinct ==
  ASSUME FamilyShape, ExtinctInv, Rotate
  PROVE  ExtinctInv'
<1>. USE DEF FamilyShape, Shape, TypeOK
<1>1. UNCHANGED <<stores, pc, request, history, extinct>>
  BY DEF Rotate, redeemer
<1>2. ASSUME NEW r \in Requests
      PROVE  /\ pc'[r] = "sweep" => IsRevoked(form[r].code)'
             /\ pc'[r] = "refresh" => tokens'[r].origin = form'[r].code
  <2>1. pc'[r] = "sweep" => IsRevoked(form[r].code)'
    BY <1>1 DEF ExtinctInv, IsRevoked, HydratedRow
  <2>2. pc'[r] = "refresh" => tokens'[r].origin = form'[r].code
    BY <1>1, RotateKeepsRows, ConstantsAssumption
       DEF ConstantsAssumption, ExtinctInv, Persisted, SameGrant
  <2>. QED  BY <2>1, <2>2
<1>3. ASSUME NEW k \in extinct
      PROVE  codes'[k] # None /\ IsRevoked(k)' /\ Quiet(k)'
  <2>1. codes[k] # None /\ IsRevoked(k) /\ Quiet(k)
    BY DEF ExtinctInv
  <2>2. MintingFrom(k)' = {}
    BY <1>1, <2>1 DEF Quiet, MintingFrom
  <2>3. ASSUME NEW q \in Rotations, rpc'[q] \in {"scopes", "revoke", "persist", "issue"},
               old'[q].origin = k
        PROVE  FALSE
    BY <2>1, <2>3, RotationStarts DEF Quiet, RotatingFrom, ExtinctInv, ExtinctFamilyStaysDead
  <2>. QED  BY <1>1, <2>1, <2>2, <2>3 DEF Quiet, RotatingFrom, IsRevoked, HydratedRow
<1>4. \A q \in Rotations : rpc'[q] = "issue" => tokens'[q].origin = old'[q].origin
  BY RotateOrigin
<1>5. ExtinctFamilyStaysDead'
  BY <1>1, RotateKeepsDead DEF ExtinctFamilyStaysDead
<1>. QED  BY <1>1, <1>2, <1>3, <1>4, <1>5 DEF ExtinctInv

LEMMA NextExtinct ==
  ASSUME FamilyShape, ExtinctInv, [FamilyNext]_<<vars, rotation, extinct>>
  PROVE  ExtinctInv'
<1>1. CASE UNCHANGED <<vars, rotation, extinct>>
  BY <1>1 DEF vars, ExtinctInv, IsRevoked, HydratedRow, Quiet, MintingFrom, RotatingFrom,
       ExtinctFamilyStaysDead, IsDead
<1>. QED  BY <1>1, RedeemExtinct, RotateExtinct DEF FamilyNext, RedeemOrReplay

\* A family that a replay swept while nobody was minting into it is dead for
\* good: neither a late redemption nor a rotation revives it or adds to it.
THEOREM ExtinctFamilyIsDead == FamilySpec => []ExtinctFamilyStaysDead
<1>1. FamilyInit => ExtinctInv
  BY DEF FamilyInit, Init, ExtinctInv, ExtinctFamilyStaysDead
<1>2. ExtinctInv => ExtinctFamilyStaysDead
  BY DEF ExtinctInv
<1>. QED  BY <1>1, <1>2, FamilyShapeInvariant, NextExtinct, PTL DEF FamilySpec

-----------------------------------------------------------------------------
(***************************************************************************)
(* Revocation sticks, whichever grant minted the row.                      *)
(***************************************************************************)
LEMMA FamilyRows ==
  ASSUME FamilyShape, [FamilyNext]_<<vars, rotation, extinct>>,
         NEW t \in TokenIds, tokens[t] # None
  PROVE  \/ Ages(t)
         \/ t \in Unissued /\ tokens'[t] = WithRefreshToken(tokens[t])
<1>1. CASE RedeemOrReplay
  <2>1. [Next]_vars /\ Shape
    BY <1>1, RedeemIsNext DEF FamilyShape
  <2>2. ~(t \in Requests /\ PersistToken(t))
    BY DEF FamilyShape, OneUseInv, OneUseOf, Unminted, PersistToken
  <2>. QED  BY <2>1, <2>2, RedeemRows DEF Unissued, IssueRefreshToken
<1>2. CASE Rotate
  <2>1. ~(t \in Rotations /\ R!PersistNew(t))
    BY DEF FamilyShape, RotationsShaped, RotationShape, R!PersistNew
  <2>. QED  BY <1>2, <2>1, RotateRows DEF Unissued, R!IssueRefresh
<1>3. CASE UNCHANGED <<vars, rotation, extinct>>
  BY <1>3 DEF vars, Ages
<1>. QED  BY <1>1, <1>2, <1>3 DEF FamilyNext, RedeemOrReplay

\* What a step can do to a row that is there.
LEMMA FamilyRowsKeep ==
  ASSUME FamilyShape, [FamilyNext]_<<vars, rotation, extinct>>,
         NEW t \in TokenIds, tokens[t] # None
  PROVE  /\ tokens[t] \in TokenRow /\ tokens'[t] \in TokenRow
         /\ SameGrant(tokens'[t], tokens[t])
         /\ tokens[t].access = "revoked" => tokens'[t].access = "revoked"
         /\ IsDead(tokens[t]) /\ (t \in Unissued => FlagRevocation) => IsDead(tokens'[t])
<1>1. tokens[t] \in TokenRow
  BY DEF FamilyShape, Shape, TypeOK
<1>2. CASE Ages(t)
  BY <1>1, <1>2, AgesKeeps
<1>3. CASE t \in Unissued /\ tokens'[t] = WithRefreshToken(tokens[t])
  BY <1>1, <1>3, WithRefreshTokenType
<1>. QED  BY <1>2, <1>3, FamilyRows

\* Neither grant revives a row the other, or a replay of the code, revoked:
\* but for a refresh token issued late on storage without a flag.
THEOREM FamilyRevocationSticks == FamilySpec => RevocationSticks
<1>1. FamilyShape /\ [FamilyNext]_<<vars, rotation, extinct>> =>
        [\A t \in TokenIds :
           tokens[t] # None =>
             /\ tokens[t].access = "revoked" => tokens'[t].access = "revoked"
             /\ IsDead(tokens[t]) /\ (t \in Unissued => FlagRevocation)
                  => IsDead(tokens'[t])]_<<vars, rotation, extinct>>
  BY FamilyRowsKeep
<1>. QED  BY <1>1, FamilyShapeInvariant, PTL DEF FamilySpec, RevocationSticks

-----------------------------------------------------------------------------
(***************************************************************************)
(* Rotations beside redemptions.  The token a rotation presents was handed *)
(* out by the grant that minted it, so neither grant extends its row any   *)
(* more; a replay may revoke it at any moment, but can no more revive it   *)
(* than a rotation can.  Up to RevokeOld the row the rotation read agrees  *)
(* with the stored one in everything but its revocation, and from then on  *)
(* the stored one is dead.                                                 *)
(***************************************************************************)
Presentable(t) == Answered(t) /\ R!HandedOut(t)

PresentsToken(q) ==
  rpc[q] # "idle" => rform[q] \in R!Form /\ rform[q].token # q /\ Presentable(rform[q].token)

RotatedHasRow(q) ==
  /\ rpc[q] \in {"idle", "validate", "scopes", "revoke", "persist", "rejected"}
       => tokens[q] = None
  /\ rpc[q] \in {"issue", "respond", "delivered"} => tokens[q] # None

OldIsCurrent(q) ==
  /\ rpc[q] \in {"idle", "validate"} => old[q] = None
  /\ rpc[q] \in {"scopes", "revoke", "persist"} =>
       /\ old[q] \in TokenRow
       /\ SameGrant(old[q], tokens[rform[q].token])
       /\ old[q].client = rform[q].client
  /\ rpc[q] \in {"revoke", "persist"} => rgranted[q] \subseteq old[q].scopes

ChildWithinParent(q) ==
  tokens[q] # None =>
    LET parent == tokens[rform[q].token]
    IN  /\ tokens[q].origin = parent.origin
        /\ tokens[q].client = parent.client
        /\ tokens[q].user = parent.user
        /\ tokens[q].scopes \subseteq parent.scopes

ReplacedIsDead(q) ==
  rpc[q] \in {"persist", "issue", "respond", "delivered"} \/ tokens[q] # None
    => IsDead(tokens[rform[q].token])

LateIsStopped(q) ==
  q \in rlate => /\ rpc[q] \in {"validate", "rejected", "failed"}
                 /\ tokens[q] = None
                 /\ IsDead(tokens[rform[q].token])

RotationOk(q) ==
  /\ PresentsToken(q)     /\ RotatedHasRow(q)  /\ OldIsCurrent(q)
  /\ ChildWithinParent(q) /\ ReplacedIsDead(q) /\ LateIsStopped(q)

RotationInv == rlate \subseteq Rotations /\ \A q \in Rotations : RotationOk(q)

\* Who was answered stays so.
LEMMA AnswersStay ==
  ASSUME FamilyShape, [FamilyNext]_<<vars, rotation, extinct>>
  PROVE  /\ \A r \in Requests : pc[r] = "delivered" => pc'[r] = "delivered"
         /\ \A q \in Rotations : rpc[q] = "delivered" => rpc'[q] = "delivered"
<1>1. CASE RedeemOrReplay
  <2>1. [Next]_vars /\ Shape /\ rpc' = rpc
    BY <1>1, RedeemIsNext DEF FamilyShape
  <2>2. ASSUME NEW r \in Requests, pc[r] = "delivered" PROVE pc'[r] = "delivered"
    BY <2>1, <2>2, OwnSteps
       DEF Step, Fail, Running, Minting, Arrive, Resolve, CheckRevoked, RevokeDescendants, LoadUser,
           FinalizeScopes, CheckChallenge, PersistToken, IssueRefreshToken, BurnCode, Respond
  <2>. QED  BY <2>1, <2>2
<1>2. CASE Rotate
  BY <1>2 DEF FamilyShape, RotationsShaped, Rotate, R!Arrive, R!Step, R!Validate,
       R!FinalizeScopes, R!RevokeOld, R!PersistNew, R!IssueRefresh, R!Respond, R!Fail,
       R!Running, R!RevokeToken, R!Lapse, R!Goto
<1>3. CASE UNCHANGED <<vars, rotation, extinct>>
  BY <1>3 DEF vars
<1>. QED  BY <1>1, <1>2, <1>3 DEF FamilyNext, RedeemOrReplay

\* A token that was handed out stays so, and once dead it stays dead.
LEMMA PresentableAges ==
  ASSUME FamilyShape, [FamilyNext]_<<vars, rotation, extinct>>,
         NEW t \in TokenIds, Presentable(t)
  PROVE  /\ tokens[t] \in TokenRow
         /\ Presentable(t)'
         /\ SameGrant(tokens'[t], tokens[t])
         /\ IsDead(tokens[t]) => IsDead(tokens'[t])
<1>1. /\ tokens[t] # None /\ tokens[t].refresh # "none"
      /\ t \in Requests => pc[t] = "delivered"
      /\ t \in Rotations => rpc[t] = "delivered"
  BY DEF Presentable, Answered, R!HandedOut
<1>2. t \notin Unissued
  BY <1>1 DEF Unissued
<1>3. tokens[t] \in TokenRow /\ Ages(t)
  BY <1>1, <1>2, FamilyRows, FamilyRowsKeep
<1>4. tokens'[t] # None /\ tokens'[t].refresh # "none"
  <2>1. CASE tokens'[t] = tokens[t]
    BY <1>1, <2>1
  <2>2. CASE tokens'[t] = Revoked(tokens[t])
    BY <1>3, <2>2, RevokedType, NoneIsNoRecord DEF IsDead
  <2>3. CASE tokens'[t] = [tokens[t] EXCEPT !.refresh = "revoked"]
    BY <1>3, <2>3, AgesKeeps, NoneIsNoRecord DEF TokenRow
  <2>. QED  BY <1>3, <2>1, <2>2, <2>3 DEF Ages
<1>5. Presentable(t)'
  BY <1>1, <1>4, AnswersStay DEF Presentable, Answered, R!HandedOut
<1>. QED  BY <1>3, <1>5, AgesKeeps

\* Only its own PersistNew stores the row of a rotation.
LEMMA RotationStores ==
  ASSUME FamilyShape, [FamilyNext]_<<vars, rotation, extinct>>,
         NEW q \in Rotations, tokens[q] = None, rpc'[q] # "issue" \/ rpc'[q] = rpc[q]
  PROVE  tokens'[q] = None
<1>0. q \in TokenIds /\ q \notin Requests
  BY FamilyAssumption
<1>1. CASE RedeemOrReplay
  BY <1>0, <1>1, RedeemIsNext, OnlyPersistStores DEF FamilyShape
<1>2. CASE Rotate
  <2>1. ~R!PersistNew(q)
    BY DEF FamilyShape, RotationsShaped, R!PersistNew, R!Goto
  <2>. QED  BY <1>0, <1>2, <2>1, RotateKeepsRows
<1>3. CASE UNCHANGED <<vars, rotation, extinct>>
  BY <1>3 DEF vars
<1>. QED  BY <1>1, <1>2, <1>3 DEF FamilyNext, RedeemOrReplay

\* What a rotation relies on beside its own variables survives every step
\* that leaves it where it is.
LEMMA OthersKeepRotationOk ==
  ASSUME FamilyShape, [FamilyNext]_<<vars, rotation, extinct>>,
         NEW q \in Rotations, RotationOk(q),
         rpc'[q] = rpc[q], rform'[q] = rform[q], old'[q] = old[q],
         rgranted'[q] = rgranted[q], q \in rlate' => q \in rlate
  PROVE  RotationOk(q)'
<1>0. q \in TokenIds
  BY FamilyAssumption
<1>1. tokens[q] = None => tokens'[q] = None
  BY RotationStores
<1>2. tokens[q] # None => tokens'[q] # None /\ SameGrant(tokens'[q], tokens[q])
  BY <1>0, FamilyRowsKeep, NoneIsNoRecord
<1>3. CASE rpc[q] = "idle"
  BY <1>1, <1>3
     DEF RotationOk, PresentsToken, RotatedHasRow, OldIsCurrent, ChildWithinParent,
         ReplacedIsDead, LateIsStopped
<1>4. CASE rpc[q] # "idle"
  <2>1. PICK t \in TokenIds : t = rform[q].token /\ Presentable(t)
    BY <1>4 DEF RotationOk, PresentsToken, R!Form
  <2>2. /\ Presentable(t)' /\ SameGrant(tokens'[t], tokens[t])
        /\ IsDead(tokens[t]) => IsDead(tokens'[t])
    BY <2>1, PresentableAges
  <2>3. PresentsToken(q)'
    BY <1>4, <2>1, <2>2 DEF RotationOk, PresentsToken, Presentable, Answered, R!HandedOut
  <2>4. RotatedHasRow(q)'
    BY <1>1, <1>2 DEF RotationOk, RotatedHasRow
  <2>5. OldIsCurrent(q)'
    BY <2>1, <2>2 DEF RotationOk, OldIsCurrent, SameGrant
  <2>6. ChildWithinParent(q)'
    BY <1>1, <1>2, <2>1, <2>2 DEF RotationOk, ChildWithinParent, SameGrant
  <2>7. ReplacedIsDead(q)'
    BY <1>1, <2>1, <2>2 DEF RotationOk, ReplacedIsDead
  <2>8. LateIsStopped(q)'
    BY <1>1, <2>1, <2>2 DEF RotationOk, LateIsStopped
  <2>. QED  BY <2>3, <2>4, <2>5, <2>6, <2>7, <2>8 DEF RotationOk
<1>. QED  BY <1>3, <1>4

\* What every step of a rotation relies on: the token it presents, named t,
\* was handed out and stays so.
Resumes(q, t) ==
  /\ t = rform[q].token /\ rform' = rform /\ t # q /\ rlate' = rlate
  /\ tokens[t] \in TokenRow /\ Presentable(t) /\ PresentsToken(q)'
  /\ SameGrant(tokens'[t], tokens[t])
  /\ IsDead(tokens[t]) => IsDead(tokens'[t])

LEMMA StepResumes ==
  ASSUME FamilyShape, Rotate, NEW q \in Rotations, RotationOk(q), R!Step(q) \/ R!Fail(q)
  PROVE  \E t \in TokenIds : Resumes(q, t)
<1>1. rpc[q] # "idle" /\ rform' = rform /\ rlate' = rlate
  BY DEF R!Step, R!Validate, R!FinalizeScopes, R!RevokeOld, R!PersistNew, R!IssueRefresh,
         R!Respond, R!Fail, R!Running, R!request
<1>2. PICK t \in TokenIds : t = rform[q].token /\ Presentable(t) /\ t # q
  BY <1>1 DEF RotationOk, PresentsToken, R!Form
<1>3. /\ tokens[t] \in TokenRow /\ Presentable(t)' /\ SameGrant(tokens'[t], tokens[t])
      /\ IsDead(tokens[t]) => IsDead(tokens'[t])
  BY <1>2, PresentableAges DEF FamilyNext
<1>4. PresentsToken(q)'
  BY <1>1, <1>2, <1>3 DEF RotationOk, PresentsToken, Presentable, Answered, R!HandedOut
<1>. QED  BY <1>1, <1>2, <1>3, <1>4 DEF Resumes

LEMMA RotationArrives ==
  ASSUME FamilyShape, RotationInv, Rotate, NEW q \in Rotations, NEW f \in RefreshInputs,
         Answered(f.token), R!Arrive(q, f)
  PROVE  RotationOk(q)'
<1>. USE DEF FamilyShape, Shape, TypeOK, RotationsShaped
<1>1. f \in R!Form /\ f.token \in TokenIds
  BY FamilyAssumption DEF R!Form
<1>2. /\ rpc[q] = "idle" /\ tokens[q] = None /\ tokens' = tokens /\ old'[q] = None
      /\ rform'[q] = f /\ Presentable(f.token) /\ rpc'[q] \in {"validate", "rejected"}
  BY DEF R!Arrive, R!Goto, Presentable, RotationInv, RotationOk, RotatedHasRow, OldIsCurrent
<1>3. f.token # q
  BY <1>2 DEF Presentable, R!HandedOut
<1>4. Presentable(f.token)'
  BY <1>1, <1>2, PresentableAges DEF FamilyNext
<1>5. q \notin rlate
  BY <1>2 DEF RotationInv, RotationOk, LateIsStopped
<1>6. q \in rlate' => IsDead(tokens[f.token])
  BY <1>5 DEF R!Arrive, R!Rotated, RotationInv, RotationOk, ReplacedIsDead
<1>. QED  BY <1>1, <1>2, <1>3, <1>4, <1>6
       DEF RotationOk, PresentsToken, RotatedHasRow, OldIsCurrent, ChildWithinParent,
           ReplacedIsDead, LateIsStopped, Presentable, Answered, R!HandedOut

LEMMA RotationValidates ==
  ASSUME FamilyShape, NEW q \in Rotations, NEW t \in TokenIds,
         RotationOk(q), Resumes(q, t), R!Validate(q)
  PROVE  RotationOk(q)'
<1>. USE DEF FamilyShape, RotationsShaped
<1>1. rpc[q] = "validate" /\ tokens[q] = None /\ tokens' = tokens
  BY DEF R!Validate, RotationOk, RotatedHasRow
<1>2. rpc'[q] \in {"scopes", "rejected"}
  BY DEF R!Validate, R!Goto
<1>3. q \in rlate => rpc'[q] = "rejected" /\ IsDead(tokens[t])
  <2>1. q \in rlate => IsDead(tokens[t])
    BY DEF RotationOk, LateIsStopped, Resumes
  <2>. QED  BY <2>1 DEF R!Validate, R!Goto, R!Usable, IsDead, Resumes
<1>4. OldIsCurrent(q)'
  BY <1>1, <1>2 DEF R!Validate, R!Goto, R!Usable, Resumes, OldIsCurrent, SameGrant
<1>. QED  BY <1>1, <1>2, <1>3, <1>4
       DEF Resumes, RotationOk, RotatedHasRow, ChildWithinParent, ReplacedIsDead, LateIsStopped

LEMMA RotationFinalizes ==
  ASSUME FamilyShape, NEW q \in Rotations, NEW t \in TokenIds,
         RotationOk(q), Resumes(q, t), R!FinalizeScopes(q)
  PROVE  RotationOk(q)'
<1>. USE DEF FamilyShape, RotationsShaped
<1>1. rpc[q] = "scopes" /\ tokens[q] = None /\ tokens' = tokens /\ old' = old
  BY DEF R!FinalizeScopes, RotationOk, RotatedHasRow
<1>2. rpc'[q] \in {"revoke", "rejected"} /\ q \notin rlate
  BY <1>1 DEF R!FinalizeScopes, R!Goto, RotationOk, LateIsStopped
<1>3. OldIsCurrent(q)'
  BY <1>1, <1>2
     DEF R!FinalizeScopes, R!Goto, R!WithinOldToken, Resumes, RotationOk, OldIsCurrent, SameGrant
<1>. QED  BY <1>1, <1>2, <1>3
       DEF Resumes, RotationOk, RotatedHasRow, ChildWithinParent, ReplacedIsDead, LateIsStopped

LEMMA RotationRevokes ==
  ASSUME FamilyShape, NEW q \in Rotations, NEW t \in TokenIds,
         RotationOk(q), Resumes(q, t), R!RevokeOld(q)
  PROVE  RotationOk(q)'
<1>. USE DEF FamilyShape, Shape, TypeOK, RotationsShaped
<1>1. /\ rpc[q] = "revoke" /\ rpc'[q] = "persist" /\ tokens[q] = None
      /\ old' = old /\ rgranted' = rgranted
  BY DEF R!RevokeOld, R!Goto, R!request, RotationOk, RotatedHasRow
<1>2. tokens' = [tokens EXCEPT ![t] = Revoked(tokens[t])]
  BY OneStore DEF R!RevokeOld, Resumes
<1>3. tokens'[q] = None /\ IsDead(tokens'[t]) /\ SameGrant(tokens'[t], tokens[t])
  BY <1>1, <1>2, RevokedType, FamilyAssumption DEF Resumes
<1>4. OldIsCurrent(q)'
  BY <1>1, <1>3 DEF Resumes, RotationOk, OldIsCurrent, SameGrant
<1>5. q \notin rlate
  BY <1>1 DEF RotationOk, LateIsStopped
<1>. QED  BY <1>1, <1>3, <1>4, <1>5
       DEF Resumes, RotationOk, RotatedHasRow, ChildWithinParent, ReplacedIsDead, LateIsStopped

LEMMA RotationPersists ==
  ASSUME FamilyShape, NEW q \in Rotations, NEW t \in TokenIds,
         RotationOk(q), Resumes(q, t), R!PersistNew(q)
  PROVE  RotationOk(q)'
<1>. USE DEF FamilyShape, Shape, TypeOK, RotationsShaped
<1>1. rpc[q] = "persist" /\ rpc'[q] = "issue" /\ IsDead(tokens[t])
  BY DEF R!PersistNew, R!Goto, RotationOk, ReplacedIsDead, Resumes
<1>2. /\ SameGrant(old[q], tokens[t]) /\ old[q].client = rform[q].client
      /\ rgranted[q] \subseteq old[q].scopes
  BY <1>1 DEF RotationOk, OldIsCurrent, Resumes
<1>3. tokens'[q] = R!NewToken(q) /\ tokens'[t] = tokens[t]
  BY FamilyAssumption DEF R!PersistNew, Resumes
<1>4. /\ tokens'[q] \in TokenRow
      /\ tokens'[q] = FreshRow(old[q].origin, rform[q].client, old[q].user, rgranted[q])
  BY <1>1, <1>3, NewRotatedRow
<1>5. ChildWithinParent(q)'
  BY <1>2, <1>3, <1>4 DEF Resumes, ChildWithinParent, FreshRow, SameGrant
<1>6. q \notin rlate
  BY <1>1 DEF RotationOk, LateIsStopped
<1>. QED  BY <1>1, <1>3, <1>4, <1>5, <1>6, NoneIsNoRecord
       DEF Resumes, RotationOk, RotatedHasRow, OldIsCurrent, ReplacedIsDead, LateIsStopped

LEMMA RotationIssues ==
  ASSUME FamilyShape, NEW q \in Rotations, NEW t \in TokenIds,
         RotationOk(q), Resumes(q, t), R!IssueRefresh(q)
  PROVE  RotationOk(q)'
<1>. USE DEF FamilyShape, Shape, TypeOK, RotationsShaped
<1>0. q \in TokenIds
  BY FamilyAssumption
<1>1. /\ rpc[q] = "issue" /\ rpc'[q] = "respond" /\ IsDead(tokens[t])
      /\ tokens[q] # None /\ tokens[q] \in TokenRow
  BY <1>0 DEF R!IssueRefresh, R!Goto, RotationOk, ReplacedIsDead, RotatedHasRow, Resumes
<1>2. tokens'[q] = WithRefreshToken(tokens[q]) /\ tokens'[t] = tokens[t]
  BY <1>0, OneStore DEF R!IssueRefresh, Resumes
<1>3. tokens'[q] \in TokenRow /\ SameGrant(tokens'[q], tokens[q])
  BY <1>1, <1>2, WithRefreshTokenType
<1>4. ChildWithinParent(q)'
  BY <1>1, <1>2, <1>3 DEF RotationOk, ChildWithinParent, Resumes, SameGrant
<1>5. q \notin rlate
  BY <1>1 DEF RotationOk, LateIsStopped
<1>. QED  BY <1>1, <1>2, <1>3, <1>4, <1>5, NoneIsNoRecord
       DEF Resumes, RotationOk, RotatedHasRow, OldIsCurrent, ReplacedIsDead, LateIsStopped

LEMMA RotationEnds ==
  ASSUME FamilyShape, NEW q \in Rotations, NEW t \in TokenIds,
         RotationOk(q), Resumes(q, t), R!Respond(q) \/ R!Fail(q)
  PROVE  RotationOk(q)'
<1>1. /\ tokens' = tokens /\ rpc[q] # "idle"
      /\ \/ rpc[q] = "respond" /\ rpc'[q] = "delivered"
         \/ rpc'[q] = "failed"
  BY DEF FamilyShape, RotationsShaped, R!Respond, R!Fail, R!Goto, R!Running
<1>. QED  BY <1>1
       DEF Resumes, RotationOk, RotatedHasRow, OldIsCurrent, ChildWithinParent,
           ReplacedIsDead, LateIsStopped

LEMMA RotateOk ==
  ASSUME FamilyShape, RotationInv, Rotate, NEW q \in Rotations
  PROVE  RotationOk(q)'
<1>. USE DEF FamilyShape, RotationsShaped
<1>1. CASE R!Step(q) \/ R!Fail(q)
  <2>1. PICK t \in TokenIds : Resumes(q, t)
    BY <1>1, StepResumes DEF RotationInv
  <2>. QED  BY <1>1, <2>1, RotationValidates, RotationFinalizes, RotationRevokes,
            RotationPersists, RotationIssues, RotationEnds DEF R!Step, RotationInv
<1>2. CASE \E f \in RefreshInputs : Answered(f.token) /\ R!Arrive(q, f)
  BY <1>2, RotationArrives
<1>3. CASE /\ rpc'[q] = rpc[q] /\ rform'[q] = rform[q] /\ old'[q] = old[q]
           /\ rgranted'[q] = rgranted[q] /\ (q \in rlate' => q \in rlate)
  BY <1>3, OthersKeepRotationOk DEF RotationInv, FamilyNext
<1>. QED
  <2>1. CASE \E x \in Rotations, f \in RefreshInputs : Answered(f.token) /\ R!Arrive(x, f)
    BY <1>2, <1>3, <2>1 DEF R!Arrive, R!Goto
  <2>2. CASE \E x \in Rotations : R!Step(x) \/ R!Fail(x)
    BY <1>1, <1>3, <2>2
       DEF R!Step, R!Fail, R!Validate, R!FinalizeScopes, R!RevokeOld, R!PersistNew,
           R!IssueRefresh, R!Respond, R!Goto, R!request
  <2>3. CASE UNCHANGED <<rpc, rform, old, rgranted, rlate>>
    BY <1>3, <2>3
  <2>. QED  BY <2>1, <2>2, <2>3 DEF Rotate, R!RevokeToken, R!Lapse, R!request

LEMMA NextRotation ==
  ASSUME FamilyShape, RotationInv, [FamilyNext]_<<vars, rotation, extinct>>
  PROVE  RotationInv'
<1>1. CASE UNCHANGED <<rpc, rform, old, rgranted, rlate>>
  BY <1>1, OthersKeepRotationOk DEF RotationInv
<1>2. CASE Rotate
  <2>1. rlate' \subseteq Rotations
    BY <1>2 DEF RotationInv, Rotate, R!Arrive, R!Step, R!Fail, R!Validate, R!FinalizeScopes,
         R!RevokeOld, R!PersistNew, R!IssueRefresh, R!Respond, R!RevokeToken, R!Lapse
  <2>. QED  BY <1>2, <2>1, RotateOk DEF RotationInv
<1>. QED  BY <1>1, <1>2, RedeemIsNext DEF FamilyNext, RedeemOrReplay

LEMMA RotationInvariant == FamilySpec => []RotationInv
<1>1. FamilyInit => RotationInv
  <2>1. FamilyInit => \A q \in Rotations : rpc[q] = "idle" /\ tokens[q] = None /\ old[q] = None
    BY FamilyAssumption DEF FamilyInit, Init
  <2>. QED  BY <2>1
       DEF FamilyInit, RotationInv, RotationOk, PresentsToken, RotatedHasRow, OldIsCurrent,
           ChildWithinParent, ReplacedIsDead, LateIsStopped
<1>. QED  BY <1>1, FamilyShapeInvariant, NextRotation, PTL DEF FamilySpec

\* A token that was rotated is dead, and no redemption, replay or rotation
\* that runs beside brings it back.
THEOREM FamilyRotatedDies == FamilySpec => []R!RotatedTokenIsDead
<1>1. RotationInv => R!RotatedTokenIsDead
  BY DEF RotationInv, RotationOk, ReplacedIsDead, R!RotatedTokenIsDead, R!IsDead, IsDead
<1>. QED  BY <1>1, RotationInvariant, PTL

\* A refresh that arrives after its token was rotated mints nothing, be the
\* token a redemption's or a rotation's.
THEOREM FamilyLateRotationMintsNothing == FamilySpec => []R!NoLateRotation
<1>1. RotationInv => R!NoLateRotation
  BY DEF RotationInv, RotationOk, LateIsStopped, R!NoLateRotation
<1>. QED  BY <1>1, RotationInvariant, PTL

\* A rotation keeps the code, client and user of the token it replaces and
\* widens nothing, while redemptions and replays write the same rows.
THEOREM FamilyRotationNarrows == FamilySpec => []R!RotationKeepsGrant
<1>1. RotationInv => R!RotationKeepsGrant
  BY DEF RotationInv, RotationOk, ChildWithinParent, R!RotationKeepsGrant
<1>. QED  BY <1>1, RotationInvariant, PTL

-----------------------------------------------------------------------------
(***************************************************************************)
(* Refinement.  Beside redemptions a rotation still admits by Validate and *)
(* answers by Respond; whatever else happens, on either side, spends       *)
(* tokens or none.  And to the codes a rotation is no step at all.         *)
(***************************************************************************)
SpentRefreshTokens ==
  {t \in TokenIds \ Unissued : tokens[t] # None /\ tokens[t].refresh = "revoked"}
Presenter == [q \in Rotations |-> IF old[q] # None THEN rform[q].token ELSE None]
AnsweredRotations == {q \in Rotations : rpc[q] = "delivered"}

\* A row is there from the start of its issuing on.
LEMMA UnissuedIsNew ==
  ASSUME FamilyShape, [FamilyNext]_<<vars, rotation, extinct>>,
         NEW t \in TokenIds, t \in Unissued', t \notin Unissued
  PROVE  tokens[t] = None
<1>1. CASE RedeemOrReplay
  <2>1. [Next]_vars /\ rpc' = rpc /\ t \in Requests /\ pc'[t] = "refresh" /\ pc[t] # "refresh"
    BY <1>1, RedeemIsNext DEF Unissued
  <2>2. PersistToken(t)
    BY <2>1, OwnSteps
       DEF FamilyShape, Shape, TypeOK, Goto, Step, Fail, Arrive, Resolve, CheckRevoked,
           RevokeDescendants, LoadUser, FinalizeScopes, CheckChallenge, IssueRefreshToken,
           BurnCode, Respond
  <2>. QED  BY <2>1, <2>2 DEF FamilyShape, OneUseInv, OneUseOf, Unminted, PersistToken
<1>2. CASE Rotate
  <2>1. t \in Rotations /\ rpc'[t] = "issue" /\ rpc[t] # "issue"
    BY <1>2 DEF Unissued, Rotate
  <2>2. rpc[t] = "persist"
    BY <1>2, <2>1
       DEF FamilyShape, RotationsShaped, Rotate, R!Arrive, R!Step, R!Validate, R!FinalizeScopes,
           R!RevokeOld, R!PersistNew, R!IssueRefresh, R!Respond, R!Fail, R!RevokeToken,
           R!Lapse, R!Goto
  <2>. QED  BY <2>1, <2>2 DEF FamilyShape, RotationsShaped, RotationShape
<1>3. CASE UNCHANGED <<vars, rotation, extinct>>
  BY <1>3 DEF vars, Unissued
<1>. QED  BY <1>1, <1>2, <1>3 DEF FamilyNext, RedeemOrReplay

\* A spent token stays spent.
LEMMA SpentRefreshGrows ==
  ASSUME FamilyShape, [FamilyNext]_<<vars, rotation, extinct>>
  PROVE  SpentRefreshTokens \subseteq SpentRefreshTokens'
<1>. SUFFICES ASSUME NEW t \in TokenIds, t \in SpentRefreshTokens
              PROVE  t \in SpentRefreshTokens'
  BY DEF SpentRefreshTokens
<1>1. tokens[t] # None /\ tokens[t].refresh = "revoked" /\ t \notin Unissued
  BY DEF SpentRefreshTokens
<1>2. t \notin Unissued'
  BY <1>1, UnissuedIsNew
<1>3. Ages(t) /\ tokens[t] \in TokenRow /\ tokens'[t] \in TokenRow
  BY <1>1, FamilyRows, FamilyRowsKeep
<1>4. tokens'[t].refresh = "revoked"
  <2>1. CASE tokens'[t] = tokens[t]
    BY <1>1, <2>1
  <2>2. CASE tokens'[t] = Revoked(tokens[t])
    BY <1>3, <2>2, RevokedType DEF IsDead
  <2>3. CASE tokens'[t] = [tokens[t] EXCEPT !.refresh = "revoked"]
    BY <1>3, <2>3 DEF TokenRow
  <2>. QED  BY <1>3, <2>1, <2>2, <2>3 DEF Ages
<1>. QED  BY <1>2, <1>3, <1>4, NoneIsNoRecord DEF SpentRefreshTokens

\* A step that admits and answers no rotation spends what is spent after it.
LEMMA OtherStepsSpend ==
  ASSUME FamilyShape, [FamilyNext]_<<vars, rotation, extinct>>,
         Presenter' = Presenter, AnsweredRotations' = AnsweredRotations
  PROVE  RefreshOneUse!Next
<1>1. /\ SpentRefreshTokens \subseteq SpentRefreshTokens'
      /\ SpentRefreshTokens' \subseteq TokenIds
  BY SpentRefreshGrows DEF SpentRefreshTokens
<1>2. RefreshOneUse!Spend
  BY <1>1 DEF RefreshOneUse!Spend, Presenter, AnsweredRotations, SpentRefreshTokens
<1>. QED  BY <1>2 DEF RefreshOneUse!Next

LEMMA ValidateAdmits ==
  ASSUME FamilyShape, RotationInv, Rotate, NEW q \in Rotations, R!Validate(q)
  PROVE  RefreshOneUse!Next
<1>. USE DEF FamilyShape, RotationsShaped
<1>1. PICK t \in TokenIds : t = rform[q].token /\ Presentable(t)
  BY DEF R!Validate, RotationInv, RotationOk, PresentsToken, R!Form
<1>2. /\ rpc[q] = "validate" /\ old[q] = None /\ rform' = rform
      /\ rpc' = [rpc EXCEPT ![q] = "scopes"] \/ rpc' = [rpc EXCEPT ![q] = "rejected"]
      /\ tokens' = tokens /\ pc' = pc
  BY DEF R!Validate, R!Goto, RotationInv, RotationOk, OldIsCurrent, Rotate
<1>3. AnsweredRotations' = AnsweredRotations
  BY <1>2 DEF AnsweredRotations
<1>4. CASE R!Usable(tokens[t], rform[q].client)
  <2>1. t \notin SpentRefreshTokens /\ tokens[t] # None
    BY <1>1, <1>4 DEF R!Usable, SpentRefreshTokens, Presentable, R!HandedOut
  <2>2. old' = [old EXCEPT ![q] = tokens[t]]
    BY <1>1, <1>4 DEF R!Validate
  <2>3. Presenter' = [Presenter EXCEPT ![q] = t] /\ Presenter[q] = None
    BY <1>1, <1>2, <2>1, <2>2 DEF Presenter
  <2>4. Unissued' = Unissued
    BY <1>2 DEF Unissued
  <2>5. SpentRefreshTokens' = SpentRefreshTokens
    BY <1>2, <2>4 DEF SpentRefreshTokens
  <2>6. RefreshOneUse!Admit(q, t)
    BY <1>3, <2>1, <2>3, <2>5
       DEF RefreshOneUse!Admit, Presenter, AnsweredRotations, SpentRefreshTokens
  <2>. QED  BY <2>6 DEF RefreshOneUse!Next
<1>5. CASE ~R!Usable(tokens[t], rform[q].client)
  <2>1. Presenter' = Presenter
    BY <1>1, <1>2, <1>5 DEF R!Validate, Presenter
  <2>. QED  BY <1>3, <2>1, OtherStepsSpend DEF FamilyNext
<1>. QED  BY <1>4, <1>5

LEMMA RespondAnswers ==
  ASSUME FamilyShape, RotationInv, Rotate, NEW q \in Rotations, R!Respond(q)
  PROVE  RefreshOneUse!Next
<1>. USE DEF FamilyShape, RotationsShaped
<1>1. PICK t \in TokenIds : t = rform[q].token /\ Presentable(t)
  BY DEF R!Respond, RotationInv, RotationOk, PresentsToken, R!Form
<1>2. /\ rpc[q] = "respond" /\ rpc' = [rpc EXCEPT ![q] = "delivered"]
      /\ UNCHANGED <<tokens, pc, rform, old>>
  BY DEF R!Respond, R!Goto, R!request, Rotate
<1>3. old[q] # None /\ IsDead(tokens[t])
  BY <1>1, <1>2, NoneIsNoRecord
     DEF RotationShape, Validated, RotationInv, RotationOk, ReplacedIsDead
<1>4. Presenter[q] \in SpentRefreshTokens
  BY <1>1, <1>3
     DEF Presenter, SpentRefreshTokens, Presentable, Answered, R!HandedOut, Unissued, IsDead
<1>5. AnsweredRotations' = AnsweredRotations \cup {q} /\ Presenter' = Presenter
  BY <1>2 DEF AnsweredRotations, Presenter
<1>6. Unissued' = Unissued
  BY <1>2 DEF Unissued
<1>7. SpentRefreshTokens' = SpentRefreshTokens
  BY <1>2, <1>6 DEF SpentRefreshTokens
<1>8. RefreshOneUse!Answer(q)
  BY <1>4, <1>5, <1>7
     DEF RefreshOneUse!Answer, Presenter, AnsweredRotations, SpentRefreshTokens
<1>. QED  BY <1>8 DEF RefreshOneUse!Next

LEMMA FamilyRotatesOnce ==
  ASSUME FamilyShape, RotationInv, [FamilyNext]_<<vars, rotation, extinct>>
  PROVE  [RefreshOneUse!Next]_(RefreshOneUse!promise)
<1>1. CASE Rotate
  <2>. USE DEF FamilyShape, RotationsShaped
  <2>1. CASE \E q \in Rotations : R!Validate(q)
    BY <1>1, <2>1, ValidateAdmits
  <2>2. CASE \E q \in Rotations : R!Respond(q)
    BY <1>1, <2>2, RespondAnswers
  <2>3. CASE \E q \in Rotations, f \in RefreshInputs : R!Arrive(q, f)
    <3>1. Presenter' = Presenter /\ AnsweredRotations' = AnsweredRotations
      BY <2>3 DEF R!Arrive, R!Goto, RotationInv, RotationOk, OldIsCurrent, Presenter,
           AnsweredRotations
    <3>. QED  BY <1>1, <3>1, OtherStepsSpend DEF FamilyNext
  <2>4. CASE \E q \in Rotations : \/ R!FinalizeScopes(q) \/ R!RevokeOld(q) \/ R!PersistNew(q)
                                  \/ R!IssueRefresh(q)   \/ R!Fail(q)
    <3>1. AnsweredRotations' = AnsweredRotations
      BY <2>4 DEF R!FinalizeScopes, R!RevokeOld, R!PersistNew, R!IssueRefresh, R!Fail,
           R!Running, R!Goto, AnsweredRotations
    <3>2. Presenter' = Presenter
      BY <2>4 DEF R!FinalizeScopes, R!RevokeOld, R!PersistNew, R!IssueRefresh, R!Fail,
           R!request, Presenter
    <3>. QED  BY <1>1, <3>1, <3>2, OtherStepsSpend DEF FamilyNext
  <2>5. CASE UNCHANGED <<rpc, rform, old>>
    BY <1>1, <2>5, OtherStepsSpend DEF FamilyNext, Presenter, AnsweredRotations
  <2>. QED  BY <1>1, <2>1, <2>2, <2>3, <2>4, <2>5
            DEF Rotate, R!Step, R!RevokeToken, R!Lapse, R!request
<1>2. CASE UNCHANGED <<rpc, rform, old>>
  BY <1>2, OtherStepsSpend DEF Presenter, AnsweredRotations
<1>. QED  BY <1>1, <1>2, RedeemIsNext DEF FamilyNext, RedeemOrReplay

\* To the codes a rotation is a stutter.
LEMMA FamilyRedeemsOnce ==
  ASSUME HydratesExpiry, FamilyShape, [FamilyNext]_<<vars, rotation, extinct>>
  PROVE  [OneUse!Next]_(OneUse!promise)
<1>1. CASE RedeemOrReplay
  BY <1>1, RedeemIsNext, NextRefines DEF FamilyShape
<1>2. CASE UNCHANGED <<codes, pc, form>>
  BY <1>2 DEF OneUse!promise, Spent
<1>. QED  BY <1>1, <1>2 DEF FamilyNext, RedeemOrReplay, Rotate, vars

\* On one store codes and refresh tokens both keep the promise of
\* OneUseCredential, whichever grant minted a token and however redemptions,
\* replays and rotations overlap: whoever comes after an answer is not
\* admitted, and nobody is answered before the credential is spent.
THEOREM FamilyCredentialsAreOneUse ==
  ASSUME HydratesExpiry PROVE FamilySpec => CredentialsAreOneUse
<1>1. FamilyInit => OneUse!Init /\ RefreshOneUse!Init
  BY InitRefines DEF FamilyInit, Init, RefreshOneUse!Init
<1>2. FamilyShape /\ [FamilyNext]_<<vars, rotation, extinct>> =>
        [OneUse!Next]_(OneUse!promise)
  BY FamilyRedeemsOnce
<1>3. FamilyShape /\ RotationInv /\ [FamilyNext]_<<vars, rotation, extinct>> =>
        [RefreshOneUse!Next]_(RefreshOneUse!promise)
  BY FamilyRotatesOnce
<1>. QED  BY <1>1, <1>2, <1>3, FamilyShapeInvariant, RotationInvariant, PTL
          DEF FamilySpec, CredentialsAreOneUse, ImplementsOneUse, OneUse!Spec, RefreshOneUse!Spec
=============================================================================
