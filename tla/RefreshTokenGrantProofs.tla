------------------------ MODULE RefreshTokenGrantProofs ------------------------
(***************************************************************************)
(* Proofs about the refresh token grant, for any number of refreshes,      *)
(* tokens, clients and scopes, and for both ways to store a revocation.    *)
(***************************************************************************)
EXTENDS RefreshTokenGrant, TLAPS

USE DEF Goto, request

-----------------------------------------------------------------------------
(***************************************************************************)
(* The rows.                                                               *)
(***************************************************************************)
\* The grant a row records: whose token it is, and for what.
SameGrant(a, b) ==
  a.origin = b.origin /\ a.client = b.client /\ a.user = b.user /\ a.scopes = b.scopes

\* Revoking kills both tokens of a row and keeps its grant.
LEMMA RevokedType ==
  ASSUME NEW row \in TokenRow
  PROVE  Revoked(row) \in TokenRow /\ SameGrant(Revoked(row), row) /\ IsDead(Revoked(row))
  BY DEF Revoked, TokenRow, SameGrant, IsDead

\* Issuing the refresh token keeps the grant and the access token, and with
\* flag revocation a dead row stays dead.
LEMMA WithRefreshTokenType ==
  ASSUME NEW row \in TokenRow
  PROVE  /\ WithRefreshToken(row) \in TokenRow
         /\ SameGrant(WithRefreshToken(row), row)
         /\ WithRefreshToken(row).access = row.access
         /\ FlagRevocation /\ IsDead(row) => IsDead(WithRefreshToken(row))
  BY DEF WithRefreshToken, TokenRow, SameGrant, IsDead

-----------------------------------------------------------------------------
(***************************************************************************)
(* The invariant of one refresh.  The token it presents was handed out, so *)
(* nobody is still minting it: its row is never extended any more, only    *)
(* revoked.  Up to RevokeOld the row it read agrees with the stored one in *)
(* everything but its revocation, and from then on the stored one is dead. *)
(***************************************************************************)
Unminted  == {"idle", "validate", "scopes", "revoke", "persist", "rejected"}
Minted    == {"issue", "respond", "delivered"}
Validated == {"scopes", "revoke", "persist"}
Replaced  == {"persist", "issue", "respond", "delivered"}
Stopped   == {"validate", "rejected", "failed"}

PresentedIsHandedOut(r) ==
  pc[r] # "idle" =>
    form[r] \in Form /\ form[r].token # r /\ HandedOut(form[r].token)

MintedHasRow(r) ==
  /\ pc[r] \in Unminted => tokens[r] = None
  /\ pc[r] \in Minted => tokens[r] # None

OldIsCurrent(r) ==
  /\ pc[r] \in Validated =>
       /\ old[r] \in TokenRow
       /\ SameGrant(old[r], tokens[form[r].token])
       /\ old[r].client = form[r].client
  /\ pc[r] \in {"revoke", "persist"} => granted[r] \subseteq old[r].scopes

ChildWithinParent(r) ==
  tokens[r] # None =>
    LET parent == tokens[form[r].token]
    IN  /\ tokens[r].origin = parent.origin
        /\ tokens[r].client = parent.client
        /\ tokens[r].user = parent.user
        /\ tokens[r].scopes \subseteq parent.scopes

ReplacedIsDead(r) ==
  pc[r] \in Replaced \/ tokens[r] # None => IsDead(tokens[form[r].token])

LateIsStopped(r) ==
  r \in late => /\ pc[r] \in Stopped
                /\ tokens[r] = None
                /\ IsDead(tokens[form[r].token])

RefreshOk(r) ==
  /\ PresentedIsHandedOut(r) /\ MintedHasRow(r)    /\ OldIsCurrent(r)
  /\ ChildWithinParent(r)    /\ ReplacedIsDead(r)  /\ LateIsStopped(r)

Inv == TypeOK /\ \A r \in Requests : RefreshOk(r)

LEMMA NoneIsNoRecord == None \notin TokenRow /\ None \notin Form
  BY ConstantsAssumption DEF ConstantsAssumption

LEMMA InitInv == Init => Inv
<1>. SUFFICES ASSUME Init PROVE Inv
  OBVIOUS
<1>1. TypeOK
  BY ConstantsAssumption DEF ConstantsAssumption, Init, TypeOK
<1>2. ASSUME NEW r \in Requests PROVE RefreshOk(r)
  <2>1. pc[r] = "idle" /\ tokens[r] = None /\ late = {}
    BY ConstantsAssumption DEF ConstantsAssumption, Init
  <2>. QED  BY <2>1 DEF RefreshOk, PresentedIsHandedOut, MintedHasRow, OldIsCurrent,
         ChildWithinParent, ReplacedIsDead, LateIsStopped, Unminted, Minted,
         Validated, Replaced
<1>. QED  BY <1>1, <1>2 DEF Inv

-----------------------------------------------------------------------------
(***************************************************************************)
(* What a step can do to a row that is there: its grant never changes, its *)
(* revocation is only ever added to -- but for a refresh token that is     *)
(* issued late, on storage without a flag.                                 *)
(***************************************************************************)
Ages(t) ==
  /\ tokens'[t] \in TokenRow
  /\ SameGrant(tokens'[t], tokens[t])
  /\ tokens[t].access = "revoked" => tokens'[t].access = "revoked"
  /\ tokens[t].refresh # "none" => tokens'[t].refresh # "none"
  /\ IsDead(tokens[t]) /\ (t \in Requests /\ pc[t] = "issue" => FlagRevocation)
       => IsDead(tokens'[t])

LEMMA RevokedAges ==
  ASSUME TypeOK, NEW t \in TokenIds, tokens[t] \in TokenRow,
         tokens'[t] = Revoked(tokens[t])
  PROVE  Ages(t)
  BY RevokedType DEF Ages, IsDead

LEMMA UnchangedAges ==
  ASSUME NEW t \in TokenIds, tokens[t] \in TokenRow, tokens'[t] = tokens[t]
  PROVE  Ages(t)
  BY DEF Ages, SameGrant

LEMMA StepAges ==
  ASSUME Inv, NEW r \in Requests, Step(r) \/ Fail(r),
         NEW t \in TokenIds, tokens[t] # None
  PROVE  Ages(t)
<1>. USE DEF Inv, TypeOK
<1>0. tokens[t] \in TokenRow /\ r \in TokenIds /\ RefreshOk(r)
  BY ConstantsAssumption DEF ConstantsAssumption
<1>1. CASE RevokeOld(r)
  <2>1. form[r].token \in TokenIds
    BY <1>0, <1>1 DEF RevokeOld, RefreshOk, PresentedIsHandedOut, Form
  <2>. QED  BY <1>0, <1>1, <2>1, RevokedAges, UnchangedAges DEF RevokeOld
<1>2. CASE PersistNew(r)
  <2>1. t # r
    BY <1>0, <1>2 DEF PersistNew, RefreshOk, MintedHasRow, Unminted
  <2>. QED  BY <1>0, <1>2, <2>1, UnchangedAges DEF PersistNew
<1>3. CASE IssueRefresh(r)
  <2>1. CASE t = r
    <3>1. tokens'[t] = WithRefreshToken(tokens[t]) /\ pc[t] = "issue"
      BY <1>3, <2>1, <1>0 DEF IssueRefresh
    <3>2. WithRefreshToken(tokens[t]).refresh # "none"
      BY <1>0 DEF WithRefreshToken, TokenRow
    <3>. QED  BY <1>0, <2>1, <3>1, <3>2, WithRefreshTokenType DEF Ages
  <2>2. CASE t # r
    BY <1>0, <1>3, <2>2, UnchangedAges DEF IssueRefresh
  <2>. QED  BY <2>1, <2>2
<1>4. CASE UNCHANGED tokens
  BY <1>0, <1>4, UnchangedAges
<1>. QED  BY <1>1, <1>2, <1>3, <1>4 DEF Step, Validate, FinalizeScopes, Respond, Fail

LEMMA RowsAge ==
  ASSUME Inv, [Next]_vars, NEW t \in TokenIds, tokens[t] # None
  PROVE  Ages(t)
<1>. USE DEF Inv, TypeOK
<1>0. tokens[t] \in TokenRow
  OBVIOUS
<1>1. CASE \E r \in Requests : Step(r) \/ Fail(r)
  BY <1>1, StepAges
<1>2. CASE \E c \in Clients, u \in TokenIds : RevokeToken(c, u)
  <2>1. tokens'[t] = Revoked(tokens[t]) \/ tokens'[t] = tokens[t]
    BY <1>2 DEF RevokeToken
  <2>. QED  BY <1>0, <2>1, RevokedAges, UnchangedAges
<1>3. CASE \E k \in Codes : SweepFamily(k)
  <2>1. tokens'[t] = Revoked(tokens[t]) \/ tokens'[t] = tokens[t]
    BY <1>3 DEF SweepFamily
  <2>. QED  BY <1>0, <2>1, RevokedAges, UnchangedAges
<1>4. CASE \E u \in TokenIds : Lapse(u)
  <2>1. \/ tokens'[t] = tokens[t]
        \/ /\ tokens[t].refresh = "live"
           /\ tokens'[t] = [tokens[t] EXCEPT !.refresh = "revoked"]
    BY <1>4 DEF Lapse
  <2>. QED  BY <1>0, <2>1 DEF Ages, TokenRow, SameGrant, IsDead
<1>5. CASE UNCHANGED tokens
  BY <1>0, <1>5, UnchangedAges
<1>. QED  BY <1>1, <1>2, <1>3, <1>4, <1>5 DEF Next, vars, Arrive

\* A row that is not there is stored by the request it is named for only.
LEMMA OnlyMinterStores ==
  ASSUME Inv, [Next]_vars, NEW t \in TokenIds, tokens[t] = None,
         t \in Requests => ~PersistNew(t)
  PROVE  tokens'[t] = None
<1>. USE DEF Inv, TypeOK
<1>1. CASE \E r \in Requests : RevokeOld(r)
  <2>. PICK r \in Requests : RevokeOld(r)
    BY <1>1
  <2>1. form[r].token # t
    BY DEF RevokeOld, RefreshOk, PresentedIsHandedOut, HandedOut
  <2>. QED  BY <2>1 DEF RevokeOld
<1>2. CASE \E r \in Requests : PersistNew(r)
  BY <1>2, ConstantsAssumption DEF ConstantsAssumption, PersistNew
<1>3. CASE \E r \in Requests : IssueRefresh(r)
  <2>. PICK r \in Requests : IssueRefresh(r)
    BY <1>3
  <2>1. r # t
    BY DEF IssueRefresh, RefreshOk, MintedHasRow, Minted
  <2>. QED  BY <2>1 DEF IssueRefresh
<1>4. CASE \E c \in Clients, u \in TokenIds : RevokeToken(c, u)
  BY <1>4 DEF RevokeToken, HandedOut
<1>5. CASE \E k \in Codes : SweepFamily(k)
  BY <1>5 DEF SweepFamily
<1>6. CASE \E u \in TokenIds : Lapse(u)
  BY <1>6 DEF Lapse
<1>7. CASE UNCHANGED tokens
  BY <1>7
<1>. QED  BY <1>1, <1>2, <1>3, <1>4, <1>5, <1>6, <1>7
       DEF Next, vars, Step, Arrive, Validate, FinalizeScopes, Respond, Fail

\* A delivered refresh is over.
LEMMA DeliveredStays ==
  ASSUME Inv, [Next]_vars, NEW r \in Requests, pc[r] = "delivered"
  PROVE  pc'[r] = "delivered"
  BY DEF Inv, TypeOK, Next, vars, Step, Arrive, Validate, FinalizeScopes, RevokeOld,
         PersistNew, IssueRefresh, Respond, Fail, Running, RevokeToken,
         SweepFamily, Lapse

\* A token that was handed out stays so, and once dead it stays dead.
LEMMA HandedOutAges ==
  ASSUME Inv, [Next]_vars, NEW t \in TokenIds, HandedOut(t)
  PROVE  /\ tokens[t] \in TokenRow
         /\ HandedOut(t)'
         /\ Ages(t)
         /\ IsDead(tokens[t]) => IsDead(tokens'[t])
<1>1. tokens[t] # None /\ tokens[t] \in TokenRow
  BY DEF HandedOut, Inv, TypeOK
<1>2. Ages(t)
  BY <1>1, RowsAge
<1>3. t \in Requests => pc[t] = "delivered" /\ pc'[t] = "delivered"
  BY DeliveredStays DEF HandedOut
<1>4. HandedOut(t)'
  BY <1>2, <1>3, NoneIsNoRecord DEF HandedOut, Ages
<1>. QED  BY <1>1, <1>2, <1>3, <1>4 DEF Ages

\* What a refresh relies on beside its own variables survives every step that
\* leaves it where it is.
LEMMA OthersKeepRefreshOk ==
  ASSUME Inv, [Next]_vars, NEW q \in Requests,
         pc'[q] = pc[q], form'[q] = form[q], old'[q] = old[q],
         granted'[q] = granted[q], q \in late' => q \in late,
         pc[q] # "persist" \/ ~PersistNew(q)
  PROVE  RefreshOk(q)'
<1>0. RefreshOk(q) /\ q \in TokenIds
  BY ConstantsAssumption DEF ConstantsAssumption, Inv
<1>1. ~PersistNew(q)
  BY DEF PersistNew
<1>2. tokens[q] = None => tokens'[q] = None
  BY <1>0, <1>1, OnlyMinterStores
<1>3. tokens[q] # None => Ages(q)
  BY <1>0, RowsAge
<1>4. CASE pc[q] = "idle"
  BY <1>0, <1>2, <1>4
     DEF RefreshOk, PresentedIsHandedOut, MintedHasRow, OldIsCurrent, ChildWithinParent,
         ReplacedIsDead, LateIsStopped, Unminted, Minted, Validated, Replaced, Stopped
<1>5. CASE pc[q] # "idle"
  <2>1. PICK t \in TokenIds : t = form[q].token /\ HandedOut(t)
    BY <1>0, <1>5 DEF RefreshOk, PresentedIsHandedOut, Form
  <2>2. HandedOut(t)' /\ Ages(t) /\ (IsDead(tokens[t]) => IsDead(tokens'[t]))
    BY <2>1, HandedOutAges
  <2>3. PresentedIsHandedOut(q)'
    BY <1>0, <1>5, <2>1, <2>2 DEF RefreshOk, PresentedIsHandedOut, HandedOut
  <2>4. MintedHasRow(q)'
    BY <1>0, <1>2, <1>3, NoneIsNoRecord DEF RefreshOk, MintedHasRow, Ages
  <2>5. OldIsCurrent(q)'
    BY <1>0, <2>1, <2>2 DEF RefreshOk, OldIsCurrent, Ages, SameGrant
  <2>6. ChildWithinParent(q)'
    BY <1>0, <1>2, <1>3, <2>1, <2>2 DEF RefreshOk, ChildWithinParent, Ages, SameGrant
  <2>7. ReplacedIsDead(q)'
    BY <1>0, <1>2, <2>1, <2>2 DEF RefreshOk, ReplacedIsDead
  <2>8. LateIsStopped(q)'
    BY <1>0, <1>2, <2>1, <2>2 DEF RefreshOk, LateIsStopped
  <2>. QED  BY <2>3, <2>4, <2>5, <2>6, <2>7, <2>8 DEF RefreshOk
<1>. QED  BY <1>4, <1>5

-----------------------------------------------------------------------------
(***************************************************************************)
(* Types.                                                                  *)
(***************************************************************************)
LEMMA NewTokenRow ==
  ASSUME NEW r \in Requests, old[r] \in TokenRow, form[r] \in Form,
         granted[r] \in SUBSET Scopes
  PROVE  /\ NewToken(r) \in TokenRow
         /\ NewToken(r).origin = old[r].origin /\ NewToken(r).client = form[r].client
         /\ NewToken(r).user = old[r].user /\ NewToken(r).scopes = granted[r]
<1>1. /\ old[r].origin \in Codes \cup {None} /\ form[r].client \in Clients
      /\ old[r].user \in Users \cup {None}
  BY DEF TokenRow, Form
<1>. QED  BY <1>1 DEF NewToken, FreshRow, TokenRow

LEMMA RowTypes ==
  ASSUME Inv, [Next]_vars, NEW t \in TokenIds
  PROVE  tokens'[t] \in TokenRow \cup {None}
<1>1. CASE tokens[t] # None
  BY <1>1, RowsAge DEF Ages
<1>2. CASE tokens[t] = None /\ t \in Requests /\ PersistNew(t)
  <2>1. /\ old[t] \in TokenRow /\ form[t] \in Form /\ granted[t] \in SUBSET Scopes
    BY <1>2 DEF Inv, TypeOK, RefreshOk, OldIsCurrent, PresentedIsHandedOut, PersistNew, Validated
  <2>2. NewToken(t) \in TokenRow
    BY <1>2, <2>1, NewTokenRow
  <2>. QED  BY <1>2, <2>2 DEF PersistNew, Inv, TypeOK
<1>3. CASE tokens[t] = None /\ ~(t \in Requests /\ PersistNew(t))
  BY <1>3, OnlyMinterStores
<1>. QED  BY <1>1, <1>2, <1>3

LEMMA NextTypes ==
  ASSUME Inv, [Next]_vars
  PROVE  TypeOK'
<1>. USE DEF Inv, TypeOK
<1>1. tokens' \in [TokenIds -> TokenRow \cup {None}]
  <2>1. tokens' = [t \in TokenIds |-> tokens'[t]]
    BY DEF Next, vars, Step, Arrive, Validate, FinalizeScopes, RevokeOld,
         PersistNew, IssueRefresh, Respond, Fail, RevokeToken, SweepFamily, Lapse
  <2>2. \A t \in TokenIds : tokens'[t] \in TokenRow \cup {None}
    BY RowTypes
  <2>. QED  BY <2>1, <2>2
<1>2. pc' \in [Requests -> {"idle"} \cup Running \cup Ended]
  BY DEF Next, vars, Step, Arrive, Validate, FinalizeScopes, RevokeOld,
         PersistNew, IssueRefresh, Respond, Fail, RevokeToken, SweepFamily, Lapse,
         Running, Ended
<1>3. form' \in [Requests -> Form \cup {None}] /\ late' \subseteq Requests
  BY ConstantsAssumption
     DEF ConstantsAssumption, Next, vars, Step, Arrive, Validate, FinalizeScopes, RevokeOld,
         PersistNew, IssueRefresh, Respond, Fail, RevokeToken, SweepFamily, Lapse
<1>4. old' \in [Requests -> TokenRow \cup {None}]
  <2>1. CASE \E r \in Requests : Validate(r)
    <3>. PICK r \in Requests : Validate(r)
      BY <2>1
    <3>1. form[r].token \in TokenIds
      BY DEF Validate, RefreshOk, PresentedIsHandedOut, Form
    <3>. QED  BY <3>1 DEF Validate
  <2>2. CASE UNCHANGED old
    BY <2>2
  <2>. QED  BY <2>1, <2>2
       DEF Next, vars, Step, Arrive, FinalizeScopes, RevokeOld,
         PersistNew, IssueRefresh, Respond, Fail, RevokeToken, SweepFamily, Lapse
<1>5. granted' \in [Requests -> SUBSET Scopes]
  BY DEF Next, vars, Step, Arrive, Validate, FinalizeScopes, RevokeOld,
         PersistNew, IssueRefresh, Respond, Fail, RevokeToken, SweepFamily, Lapse
<1>. QED  BY <1>1, <1>2, <1>3, <1>4, <1>5

-----------------------------------------------------------------------------
(***************************************************************************)
(* Each action keeps the invariant of the refresh that takes it.           *)
(***************************************************************************)
Keeps(r) == \A q \in Requests : q # r => RefreshOk(q)'

LEMMA OthersKeep ==
  ASSUME Inv, [Next]_vars, NEW r \in Requests,
         Step(r) \/ Fail(r) \/ \E f \in Inputs : Arrive(r, f)
  PROVE  Keeps(r)
<1>1. ASSUME NEW q \in Requests, q # r
      PROVE  /\ pc'[q] = pc[q] /\ form'[q] = form[q] /\ old'[q] = old[q]
             /\ granted'[q] = granted[q] /\ (q \in late' => q \in late)
  BY <1>1 DEF Inv, TypeOK, Step, Arrive, Validate, FinalizeScopes, RevokeOld,
       PersistNew, IssueRefresh, Respond, Fail
<1>2. ASSUME NEW q \in Requests, q # r PROVE pc[q] # "persist" \/ ~PersistNew(q)
  BY <1>1, <1>2 DEF PersistNew, Inv, TypeOK
<1>. QED  BY <1>1, <1>2, OthersKeepRefreshOk DEF Keeps

LEMMA ArriveOk ==
  ASSUME Inv, [Next]_vars, NEW r \in Requests, NEW f \in Inputs, Arrive(r, f)
  PROVE  RefreshOk(r)'
<1>. USE DEF Inv, TypeOK
<1>1. f \in Form /\ f.token \in TokenIds /\ r \in TokenIds
  BY ConstantsAssumption DEF ConstantsAssumption, Form
<1>2. /\ pc[r] = "idle" /\ tokens[r] = None /\ tokens' = tokens
      /\ form'[r] = f /\ HandedOut(f.token)
      /\ pc'[r] \in {"validate", "rejected"}
  BY DEF Arrive, RefreshOk, MintedHasRow, Unminted
<1>3. f.token # r
  BY <1>2 DEF HandedOut
<1>4. HandedOut(f.token)'
  BY <1>1, <1>2, HandedOutAges
<1>5. r \notin late
  BY <1>2 DEF RefreshOk, LateIsStopped, Stopped
<1>6. r \in late' => IsDead(tokens[f.token])
  BY <1>5 DEF Arrive, Rotated, RefreshOk, ReplacedIsDead, Replaced
<1>. QED  BY <1>1, <1>2, <1>3, <1>4, <1>6
       DEF RefreshOk, PresentedIsHandedOut, MintedHasRow, OldIsCurrent, ChildWithinParent,
           ReplacedIsDead, LateIsStopped, Unminted, Minted, Validated, Replaced, Stopped

\* What every step of a refresh relies on: the presented token, named t, was
\* handed out and ages.
Resumes(r, t) ==
  /\ t = form[r].token /\ form' = form /\ t # r /\ late' = late
  /\ tokens[t] \in TokenRow /\ HandedOut(t) /\ HandedOut(t)' /\ Ages(t)
  /\ IsDead(tokens[t]) => IsDead(tokens'[t])

LEMMA StepResumes ==
  ASSUME Inv, [Next]_vars, NEW r \in Requests, Step(r) \/ Fail(r)
  PROVE  \E t \in TokenIds : Resumes(r, t)
<1>1. pc[r] # "idle" /\ form' = form /\ late' = late
  BY DEF Step, Validate, FinalizeScopes, RevokeOld, PersistNew, IssueRefresh,
         Respond, Fail, Running
<1>2. PICK t \in TokenIds : t = form[r].token /\ HandedOut(t) /\ t # r
  BY <1>1 DEF Inv, RefreshOk, PresentedIsHandedOut, Form
<1>. QED  BY <1>1, <1>2, HandedOutAges DEF Resumes

LEMMA StepPresents ==
  ASSUME Inv, NEW r \in Requests, NEW t \in TokenIds, Resumes(r, t), pc[r] # "idle"
  PROVE  PresentedIsHandedOut(r)'
  BY DEF Inv, RefreshOk, PresentedIsHandedOut, Resumes, HandedOut

LEMMA ValidateOk ==
  ASSUME Inv, NEW r \in Requests, NEW t \in TokenIds, Resumes(r, t), Validate(r)
  PROVE  RefreshOk(r)'
<1>. USE DEF Inv, TypeOK
<1>1. pc[r] = "validate" /\ tokens[r] = None /\ tokens' = tokens
  BY DEF Validate, RefreshOk, MintedHasRow, Unminted
<1>2. PresentedIsHandedOut(r)'
  BY <1>1, StepPresents
<1>3. pc'[r] \in {"scopes", "rejected"}
  BY DEF Validate
<1>4. r \in late => IsDead(tokens[t])
  BY DEF RefreshOk, LateIsStopped, Resumes
<1>5. r \in late => pc'[r] = "rejected"
  BY <1>4 DEF Validate, Usable, IsDead, Resumes
<1>6. OldIsCurrent(r)'
  BY <1>1, <1>3 DEF Validate, Usable, Resumes, OldIsCurrent, Validated, SameGrant
<1>. QED  BY <1>1, <1>2, <1>3, <1>4, <1>5, <1>6
       DEF Resumes, RefreshOk, MintedHasRow, ChildWithinParent, ReplacedIsDead,
           LateIsStopped, Unminted, Minted, Replaced, Stopped

LEMMA FinalizeScopesOk ==
  ASSUME Inv, NEW r \in Requests, NEW t \in TokenIds, Resumes(r, t), FinalizeScopes(r)
  PROVE  RefreshOk(r)'
<1>. USE DEF Inv, TypeOK
<1>1. pc[r] = "scopes" /\ tokens[r] = None /\ tokens' = tokens /\ old' = old
  BY DEF FinalizeScopes, RefreshOk, MintedHasRow, Unminted
<1>2. PresentedIsHandedOut(r)'
  BY <1>1, StepPresents
<1>3. pc'[r] \in {"revoke", "rejected"} /\ r \notin late
  BY <1>1 DEF FinalizeScopes, RefreshOk, LateIsStopped, Stopped
<1>4. OldIsCurrent(r)'
  BY <1>1, <1>3
     DEF FinalizeScopes, WithinOldToken, Resumes, RefreshOk, OldIsCurrent, Validated, SameGrant
<1>. QED  BY <1>1, <1>2, <1>3, <1>4
       DEF Resumes, RefreshOk, MintedHasRow, ChildWithinParent, ReplacedIsDead,
           LateIsStopped, Unminted, Minted, Replaced, Stopped

LEMMA RevokeOldOk ==
  ASSUME Inv, NEW r \in Requests, NEW t \in TokenIds, Resumes(r, t), RevokeOld(r)
  PROVE  RefreshOk(r)'
<1>. USE DEF Inv, TypeOK
<1>1. pc[r] = "revoke" /\ pc'[r] = "persist" /\ tokens[r] = None
  BY DEF RevokeOld, RefreshOk, MintedHasRow, Unminted
<1>2. tokens'[r] = None
  BY <1>1, ConstantsAssumption DEF ConstantsAssumption, RevokeOld, Resumes
<1>3. tokens'[t] = Revoked(tokens[t])
  BY DEF RevokeOld, Resumes
<1>4. IsDead(tokens'[t]) /\ SameGrant(tokens'[t], tokens[t])
  BY <1>3, RevokedType DEF Resumes
<1>5. PresentedIsHandedOut(r)'
  BY <1>1, StepPresents
<1>6. OldIsCurrent(r)'
  BY <1>1, <1>4 DEF RevokeOld, Resumes, RefreshOk, OldIsCurrent, Validated, SameGrant
<1>7. r \notin late
  BY <1>1 DEF RefreshOk, LateIsStopped, Stopped
<1>. QED  BY <1>1, <1>2, <1>4, <1>5, <1>6, <1>7
       DEF Resumes, RefreshOk, MintedHasRow, ChildWithinParent, ReplacedIsDead,
           LateIsStopped, Unminted, Minted, Replaced, Stopped

LEMMA PersistNewOk ==
  ASSUME Inv, NEW r \in Requests, NEW t \in TokenIds, Resumes(r, t), PersistNew(r)
  PROVE  RefreshOk(r)'
<1>. USE DEF Inv, TypeOK
<1>1. pc[r] = "persist" /\ pc'[r] = "issue" /\ IsDead(tokens[t])
  BY DEF PersistNew, RefreshOk, ReplacedIsDead, Replaced, Resumes
<1>2. /\ old[r] \in TokenRow /\ form[r] \in Form /\ granted[r] \in SUBSET Scopes
      /\ SameGrant(old[r], tokens[t]) /\ old[r].client = form[r].client
      /\ granted[r] \subseteq old[r].scopes
  BY <1>1 DEF RefreshOk, OldIsCurrent, PresentedIsHandedOut, Validated, Resumes
<1>3. /\ NewToken(r) \in TokenRow
      /\ NewToken(r).origin = tokens[t].origin /\ NewToken(r).client = tokens[t].client
      /\ NewToken(r).user = tokens[t].user /\ NewToken(r).scopes \subseteq tokens[t].scopes
  <2>1. /\ NewToken(r) \in TokenRow
        /\ NewToken(r).origin = old[r].origin /\ NewToken(r).client = form[r].client
        /\ NewToken(r).user = old[r].user /\ NewToken(r).scopes = granted[r]
    BY <1>2, NewTokenRow
  <2>. QED  BY <1>2, <2>1 DEF SameGrant
<1>4. tokens'[r] = NewToken(r) /\ tokens'[t] = tokens[t]
  BY ConstantsAssumption DEF ConstantsAssumption, PersistNew, Resumes
<1>5. PresentedIsHandedOut(r)'
  BY <1>1, StepPresents
<1>6. r \notin late
  BY <1>1 DEF RefreshOk, LateIsStopped, Stopped
<1>. QED  BY <1>1, <1>3, <1>4, <1>5, <1>6, NoneIsNoRecord
       DEF Resumes, RefreshOk, MintedHasRow, OldIsCurrent, ChildWithinParent,
           ReplacedIsDead, LateIsStopped, Unminted, Minted, Validated

LEMMA IssueRefreshOk ==
  ASSUME Inv, NEW r \in Requests, NEW t \in TokenIds, Resumes(r, t), IssueRefresh(r)
  PROVE  RefreshOk(r)'
<1>. USE DEF Inv, TypeOK
<1>0. r \in TokenIds
  BY ConstantsAssumption DEF ConstantsAssumption
<1>1. /\ pc[r] = "issue" /\ pc'[r] = "respond" /\ IsDead(tokens[t])
      /\ tokens[r] # None /\ tokens[r] \in TokenRow
  BY <1>0 DEF IssueRefresh, RefreshOk, ReplacedIsDead, MintedHasRow, Minted, Replaced, Resumes
<1>2. tokens'[r] = WithRefreshToken(tokens[r]) /\ tokens'[t] = tokens[t]
  BY <1>0 DEF IssueRefresh, Resumes
<1>3. tokens'[r] \in TokenRow /\ SameGrant(tokens'[r], tokens[r])
  BY <1>1, <1>2, WithRefreshTokenType
<1>4. PresentedIsHandedOut(r)'
  BY <1>1, StepPresents
<1>5. ChildWithinParent(r)'
  BY <1>1, <1>2, <1>3 DEF RefreshOk, ChildWithinParent, Resumes, SameGrant
<1>6. r \notin late
  BY <1>1 DEF RefreshOk, LateIsStopped, Stopped
<1>. QED  BY <1>1, <1>2, <1>3, <1>4, <1>5, <1>6, NoneIsNoRecord
       DEF Resumes, RefreshOk, MintedHasRow, OldIsCurrent,
           ReplacedIsDead, LateIsStopped, Unminted, Minted, Validated

LEMMA RespondOrFailOk ==
  ASSUME Inv, NEW r \in Requests, NEW t \in TokenIds, Resumes(r, t), Respond(r) \/ Fail(r)
  PROVE  RefreshOk(r)'
<1>. USE DEF Inv, TypeOK
<1>1. /\ tokens' = tokens /\ pc[r] # "idle"
      /\ (pc[r] = "respond" /\ pc'[r] = "delivered") \/ pc'[r] = "failed"
  BY DEF Respond, Fail, Running
<1>2. PresentedIsHandedOut(r)'
  BY <1>1, StepPresents
<1>. QED  BY <1>1, <1>2
       DEF Resumes, RefreshOk, MintedHasRow, OldIsCurrent, ChildWithinParent,
           ReplacedIsDead, LateIsStopped, Unminted, Minted, Validated, Replaced, Stopped

LEMMA StepOk ==
  ASSUME Inv, [Next]_vars, NEW r \in Requests, Step(r) \/ Fail(r)
  PROVE  RefreshOk(r)'
<1>1. PICK t \in TokenIds : Resumes(r, t)
  BY StepResumes
<1>. QED  BY <1>1, ValidateOk, FinalizeScopesOk, RevokeOldOk, PersistNewOk,
       IssueRefreshOk, RespondOrFailOk DEF Step

LEMMA NextInv == Inv /\ [Next]_vars => Inv'
<1>. SUFFICES ASSUME Inv, [Next]_vars PROVE Inv'
  OBVIOUS
<1>1. TypeOK'
  BY NextTypes
<1>2. CASE \E r \in Requests, f \in Inputs : Arrive(r, f)
  BY <1>1, <1>2, ArriveOk, OthersKeep DEF Keeps, Inv
<1>3. CASE \E r \in Requests : Step(r) \/ Fail(r)
  BY <1>1, <1>3, StepOk, OthersKeep DEF Keeps, Inv
<1>4. CASE UNCHANGED <<pc, request, late>>
  <2>1. ASSUME NEW q \in Requests PROVE RefreshOk(q)'
    BY <1>4, OthersKeepRefreshOk DEF PersistNew, Inv, TypeOK
  <2>. QED  BY <1>1, <2>1 DEF Inv
<1>. QED  BY <1>2, <1>3, <1>4
     DEF Next, vars, RevokeToken, SweepFamily, Lapse

LEMMA Invariance == Spec => []Inv
  BY InitInv, NextInv, PTL DEF Spec

-----------------------------------------------------------------------------
\* Every variable keeps its type, whatever refreshes, revocations and sweeps
\* overlap.
THEOREM TypeCorrect == Spec => []TypeOK
<1>1. Inv => TypeOK
  BY DEF Inv
<1>. QED  BY <1>1, Invariance, PTL

\* Rotation never changes whose grant it is nor widens it.
THEOREM RotationNarrows == Spec => []RotationKeepsGrant
<1>1. Inv => RotationKeepsGrant
  BY DEF Inv, RefreshOk, ChildWithinParent, RotationKeepsGrant
<1>. QED  BY <1>1, Invariance, PTL

\* A token that was replaced is dead, whatever runs beside the rotation.
THEOREM RotatedDies == Spec => []RotatedTokenIsDead
<1>1. Inv => RotatedTokenIsDead
  BY DEF Inv, RefreshOk, ReplacedIsDead, RotatedTokenIsDead
<1>. QED  BY <1>1, Invariance, PTL

\* A refresh that arrives after its token was rotated mints nothing.
THEOREM LateRotationMintsNothing == Spec => []NoLateRotation
<1>1. Inv => NoLateRotation
  BY DEF Inv, TypeOK, RefreshOk, LateIsStopped, NoLateRotation
<1>. QED  BY <1>1, Invariance, PTL

\* No step revives a revoked row: no refresh writes back what it read.
THEOREM RevocationSticks == Spec => DeadStaysDead
<1>1. Inv /\ [Next]_vars =>
        [\A t \in TokenIds :
           tokens[t] # None =>
             /\ tokens[t].access = "revoked" => tokens'[t].access = "revoked"
             /\ IsDead(tokens[t]) /\ (t \in Requests /\ pc[t] = "issue" => FlagRevocation)
                  => IsDead(tokens'[t])]_vars
  BY RowsAge DEF Ages
<1>. QED  BY <1>1, Invariance, PTL DEF Spec, DeadStaysDead

-----------------------------------------------------------------------------
(***************************************************************************)
(* Refinement.  Validate admits a request to the token it presents, and    *)
(* Respond answers it; every other step spends credentials or none.        *)
(***************************************************************************)
SpentTokens == {t \in TokenIds : /\ tokens[t] # None
                                 /\ tokens[t].refresh = "revoked"
                                 /\ t \in Requests => pc[t] # "issue"}
Holder == [r \in Requests |-> IF old[r] # None THEN form[r].token ELSE None]
Answered == {r \in Requests : pc[r] = "delivered"}

OldIsKept ==
  \A r \in Requests :
    /\ pc[r] \in {"idle", "validate"} => old[r] = None
    /\ pc[r] \in Validated \cup Minted => old[r] # None

LEMMA OldIsKeptInvariant == Spec => []OldIsKept
<1>1. Init => OldIsKept
  BY DEF Init, OldIsKept, Validated, Minted
<1>2. Inv /\ OldIsKept /\ [Next]_vars => OldIsKept'
  <2>. SUFFICES ASSUME Inv, OldIsKept, [Next]_vars PROVE OldIsKept'
    OBVIOUS
  <2>. USE DEF Inv, TypeOK, OldIsKept, Validated, Minted
  <2>1. CASE \E r \in Requests : Validate(r)
    <3>. PICK r \in Requests : Validate(r)
      BY <2>1
    <3>1. tokens[form[r].token] # None
      BY DEF Validate, RefreshOk, PresentedIsHandedOut, HandedOut
    <3>. QED  BY <3>1 DEF Validate
  <2>2. CASE UNCHANGED old /\ ~\E r \in Requests : Validate(r)
    BY <2>2 DEF Next, vars, Step, Arrive, FinalizeScopes, RevokeOld,
         PersistNew, IssueRefresh, Respond, Fail, Running, RevokeToken, SweepFamily, Lapse
  <2>. QED  BY <2>1, <2>2
       DEF Next, vars, Step, Arrive, FinalizeScopes, RevokeOld,
         PersistNew, IssueRefresh, Respond, Fail, RevokeToken, SweepFamily, Lapse
<1>. QED  BY <1>1, <1>2, Invariance, PTL DEF Spec

\* A spent token stays spent.
LEMMA SpentGrows == Inv /\ [Next]_vars => SpentTokens \subseteq SpentTokens'
<1>. SUFFICES ASSUME Inv, [Next]_vars, NEW t \in TokenIds, t \in SpentTokens
              PROVE  t \in SpentTokens'
  BY DEF SpentTokens
<1>. USE DEF Inv, TypeOK
<1>1. /\ tokens[t] # None /\ tokens[t] \in TokenRow /\ tokens[t].refresh = "revoked"
      /\ t \in Requests => pc[t] # "issue"
  BY DEF SpentTokens
<1>2. t \in Requests => pc'[t] # "issue" /\ ~PersistNew(t) /\ ~IssueRefresh(t)
  BY <1>1 DEF RefreshOk, MintedHasRow, Unminted, Next, vars, Step, Arrive, Validate,
       FinalizeScopes, RevokeOld, PersistNew, IssueRefresh, Respond, Fail,
       RevokeToken, SweepFamily, Lapse
<1>3. tokens'[t] \in TokenRow
  BY <1>1, RowsAge DEF Ages
<1>4. tokens'[t].refresh = "revoked"
  <2>1. tokens'[t] = tokens[t] \/ tokens'[t] = Revoked(tokens[t])
    <3>1. CASE \E r \in Requests : RevokeOld(r)
      BY <3>1 DEF RevokeOld
    <3>2. CASE \E r \in Requests : PersistNew(r) \/ IssueRefresh(r)
      BY <1>2, <3>2 DEF PersistNew, IssueRefresh
    <3>3. CASE \E c \in Clients, u \in TokenIds : RevokeToken(c, u)
      BY <3>3 DEF RevokeToken
    <3>4. CASE \E k \in Codes : SweepFamily(k)
      BY <3>4 DEF SweepFamily
    <3>5. CASE \E u \in TokenIds : Lapse(u)
      BY <1>1, <3>5 DEF Lapse
    <3>6. CASE UNCHANGED tokens
      BY <3>6
    <3>. QED  BY <3>1, <3>2, <3>3, <3>4, <3>5, <3>6
         DEF Next, vars, Step, Arrive, Validate, FinalizeScopes, Respond, Fail
  <2>. QED  BY <1>1, <2>1, RevokedType DEF IsDead
<1>. QED  BY <1>2, <1>3, <1>4, NoneIsNoRecord DEF SpentTokens

\* Refreshes overlap only as a one-use credential allows.
LEMMA InitRefines == Init => OneUse!Init
  BY DEF Init, OneUse!Init

\* A step that admits and answers nobody spends what is spent after it.
LEMMA OtherStepsSpend ==
  ASSUME Inv, [Next]_vars, Holder' = Holder, Answered' = Answered
  PROVE  OneUse!Next
<1>1. SpentTokens \subseteq SpentTokens' /\ SpentTokens' \subseteq TokenIds
  BY SpentGrows DEF SpentTokens
<1>2. OneUse!Spend
  BY <1>1 DEF OneUse!Spend, Holder, Answered, SpentTokens
<1>. QED  BY <1>2 DEF OneUse!Next

LEMMA NextRefines ==
  ASSUME Inv, OldIsKept, [Next]_vars
  PROVE  [OneUse!Next]_(OneUse!promise)
<1>. USE DEF Inv, TypeOK
<1>1. ASSUME NEW r \in Requests, Validate(r)
      PROVE  OneUse!Next
  <2>1. PICK t \in TokenIds : t = form[r].token /\ HandedOut(t)
    BY <1>1 DEF Validate, RefreshOk, PresentedIsHandedOut, Form
  <2>2. Answered' = Answered /\ SpentTokens' = SpentTokens /\ old[r] = None
    BY <1>1 DEF Validate, Answered, SpentTokens, OldIsKept
  <2>3. CASE Usable(tokens[t], form[r].client)
    <3>1. t \notin SpentTokens
      BY <2>3 DEF Usable, SpentTokens
    <3>2. old' = [old EXCEPT ![r] = tokens[t]] /\ form' = form /\ tokens[t] # None
      BY <1>1, <2>1, <2>3 DEF Validate, HandedOut
    <3>3. Holder' = [Holder EXCEPT ![r] = t] /\ Holder[r] = None
      BY <2>1, <2>2, <3>2 DEF Holder
    <3>4. OneUse!Admit(r, t)
      BY <2>2, <3>1, <3>3 DEF OneUse!Admit, Holder, Answered, SpentTokens
    <3>. QED  BY <3>4 DEF OneUse!Next
  <2>4. CASE ~Usable(tokens[t], form[r].client)
    <3>1. Holder' = Holder
      BY <1>1, <2>1, <2>4 DEF Validate, Holder
    <3>. QED  BY <2>2, <3>1, OtherStepsSpend
  <2>. QED  BY <2>3, <2>4
<1>2. ASSUME NEW r \in Requests, Respond(r)
      PROVE  OneUse!Next
  <2>1. PICK t \in TokenIds : t = form[r].token /\ HandedOut(t)
    BY <1>2 DEF Respond, RefreshOk, PresentedIsHandedOut, Form
  <2>2. IsDead(tokens[t]) /\ old[r] # None
    BY <1>2, <2>1 DEF Respond, RefreshOk, ReplacedIsDead, Replaced, OldIsKept, Minted
  <2>3. Holder[r] \in SpentTokens
    BY <2>1, <2>2 DEF Holder, SpentTokens, HandedOut, IsDead
  <2>4. Answered' = Answered \cup {r}
    BY <1>2 DEF Respond, Answered
  <2>5. SpentTokens' = SpentTokens /\ Holder' = Holder
    BY <1>2 DEF Respond, SpentTokens, Holder
  <2>6. OneUse!Answer(r)
    BY <2>3, <2>4, <2>5 DEF OneUse!Answer, Holder, Answered, SpentTokens
  <2>. QED  BY <2>6 DEF OneUse!Next
<1>3. ASSUME NEW r \in Requests, NEW f \in Inputs, Arrive(r, f)
      PROVE  OneUse!Next
  <2>1. Holder' = Holder /\ Answered' = Answered
    BY <1>3 DEF Arrive, Holder, Answered, OldIsKept
  <2>. QED  BY <2>1, OtherStepsSpend
<1>4. ASSUME NEW r \in Requests,
             \/ FinalizeScopes(r) \/ RevokeOld(r) \/ PersistNew(r)
             \/ IssueRefresh(r)   \/ Fail(r)
      PROVE  OneUse!Next
  <2>1. Answered' = Answered
    BY <1>4 DEF FinalizeScopes, RevokeOld, PersistNew, IssueRefresh, Fail, Running, Answered
  <2>2. Holder' = Holder
    BY <1>4 DEF FinalizeScopes, RevokeOld, PersistNew, IssueRefresh, Fail, Holder
  <2>. QED  BY <2>1, <2>2, OtherStepsSpend
<1>5. ASSUME UNCHANGED <<pc, request, late>>
      PROVE  OneUse!Next
  BY <1>5, OtherStepsSpend DEF Holder, Answered
<1>. QED  BY <1>1, <1>2, <1>3, <1>4, <1>5
     DEF Next, vars, Step, RevokeToken, SweepFamily, Lapse

\* Overlapping refreshes keep the promise of OneUseCredential: whoever comes
\* after an answer is not admitted, and nobody is answered before the token
\* is spent.
THEOREM RotationIsOneUse == Spec => ImplementsOneUse
<1>1. Inv /\ OldIsKept /\ [Next]_vars => [OneUse!Next]_(OneUse!promise)
  BY NextRefines
<1>. QED  BY <1>1, InitRefines, Invariance, OldIsKeptInvariant, PTL
          DEF Spec, ImplementsOneUse, OneUse!Spec
=============================================================================
