------------------------- MODULE TokenEndpointsProofs -------------------------
(***************************************************************************)
(* Proofs about the endpoints that judge or end a token, for any number of *)
(* requests, tokens and clients, every setting of the options and all the  *)
(* repositories there are.                                                 *)
(***************************************************************************)
EXTENDS TokenEndpoints, TLAPS

USE DEF Goto

-----------------------------------------------------------------------------
(***************************************************************************)
(* Types.                                                                  *)
(***************************************************************************)

\* A request past its arrival has its form, and one about to look at a row
\* behind a token, or to write one, has found it.
Looking == {"hook", "own", "write"}

Shape ==
  /\ TypeOK
  /\ \A r \in Requests :
       /\ pc[r] # "idle" => form[r] \in Form
       /\ pc[r] \in Looking => form[r].half # None
       /\ pc[r] = "hook" => seen[r] \in Row

LEMMA NoneIsNoRecord == None \notin Row /\ None \notin Form
  BY ConstantsAssumption DEF ConstantsAssumption

\* Whatever the storage, revoking a row keeps it a row, or deletes it.
LEMMA EndedType ==
  ASSUME NEW row \in Row \cup {None}
  PROVE  Ended(row) \in Row \cup {None}
<1>1. CASE row = None
  BY <1>1 DEF Ended
<1>2. CASE row # None
  <2>1. [row EXCEPT !.flag = TRUE] \in Row
    BY <1>2 DEF Row
  <2>2. [row EXCEPT !.access = 0, !.refresh = 0] \in Row
    BY <1>2 DEF Row
  <2>. QED  BY <1>2, <2>1, <2>2 DEF Ended
<1>. QED  BY <1>1, <1>2

LEMMA InitShape == Init => Shape
  BY ConstantsAssumption DEF ConstantsAssumption, Init, Shape, TypeOK, Looking, Row

LEMMA ArriveShape ==
  ASSUME Shape, NEW r \in Requests, NEW f \in Inputs, Arrive(r, f)
  PROVE  Shape'
<1>1. f \in Form
  BY ConstantsAssumption DEF ConstantsAssumption
<1>2. pc' \in [Requests -> {"idle"} \cup Working \cup Answers]
      /\ pc'[r] \in {"verify", "identify", "read"}
      /\ \A q \in Requests \ {r} : pc'[q] = pc[q]
  BY DEF Shape, TypeOK, Arrive, Working
<1>3. TypeOK'
  BY <1>1, <1>2 DEF Shape, TypeOK, Arrive
<1>4. ASSUME NEW q \in Requests
      PROVE  /\ pc'[q] # "idle" => form'[q] \in Form
             /\ pc'[q] \in Looking => form'[q].half # None
             /\ pc'[q] = "hook" => seen'[q] \in Row
  BY <1>1, <1>2 DEF Shape, TypeOK, Arrive, Looking
<1>. QED  BY <1>3, <1>4 DEF Shape

LEMMA StepShape ==
  ASSUME Shape, NEW r \in Requests, Step(r) \/ Fail(r)
  PROVE  Shape'
<1>. USE DEF Shape, TypeOK
<1>1. CASE Identify(r)
  BY <1>1 DEF Identify, Working, Answers, Looking
<1>2. CASE Verify(r)
  BY <1>2 DEF Verify, Working, Answers, Looking
<1>3. CASE Refuse(r)
  BY <1>3 DEF Refuse, Working, Answers, Looking
<1>4. CASE Read(r)
  <2>1. CASE ~Found(r)
    BY <1>4, <2>1 DEF Read, Working, Answers, Looking, Missing
  <2>2. CASE Found(r)
    <3>1. rows[form[r].token] \in Row /\ form[r] \in Form /\ form[r].half # None
      BY <1>4, <2>2 DEF Read, Found, Form
    <3>2. AfterRead(r) \in {"own", "hook", "refused", "served", "inactive", "active"}
      BY <3>1 DEF AfterRead, RouteVerdict
    <3>3. /\ pc' = [pc EXCEPT ![r] = AfterRead(r)]
          /\ seen' = [seen EXCEPT ![r] = rows[form[r].token]]
          /\ UNCHANGED <<now, repo, rows, form, doomed>>
      BY <1>4, <2>2 DEF Read
    <3>. QED  BY <3>1, <3>2, <3>3 DEF Working, Answers, Looking
  <2>. QED  BY <2>1, <2>2
<1>5. CASE IntrospectionHook(r) \/ UserInfoHook(r)
  BY <1>5 DEF IntrospectionHook, UserInfoHook, Working, Answers, Looking
<1>6. CASE SendClaims(r)
  BY <1>6 DEF SendClaims, Working, Answers, Looking
<1>7. CASE CheckOwner(r)
  BY <1>7 DEF CheckOwner, Working, Answers, Looking
<1>8. CASE Write(r)
  <2>1. rows' \in [TokenIds -> Row \cup {None}]
    BY <1>8, EndedType DEF Write
  <2>. QED  BY <1>8, <2>1 DEF Write, Working, Answers, Looking
<1>9. CASE Fail(r)
  BY <1>9 DEF Fail, Missing, Working, Answers, Looking
<1>. QED  BY <1>1, <1>2, <1>3, <1>4, <1>5, <1>6, <1>7, <1>8, <1>9 DEF Step

LEMMA NextShape == Shape /\ [Next]_vars => Shape'
<1>. SUFFICES ASSUME Shape, [Next]_vars PROVE Shape'
  OBVIOUS
<1>1. CASE \E t \in TokenIds : EndElsewhere(t)
  BY <1>1, EndedType DEF EndElsewhere, Shape, TypeOK
<1>2. CASE Tick
  BY <1>2, ConstantsAssumption DEF ConstantsAssumption, Tick, Shape, TypeOK
<1>3. CASE UNCHANGED vars
  BY <1>3 DEF vars, Shape, TypeOK
<1>. QED  BY <1>1, <1>2, <1>3, ArriveShape, StepShape DEF Next

\* Every variable keeps its type, and a request about to judge or to write a
\* row has found it.
THEOREM ShapeInvariant == Spec => []Shape
  BY InitShape, NextShape, PTL DEF Spec

-----------------------------------------------------------------------------
(***************************************************************************)
(* Rows only age: a step leaves a row alone or ends it, the clock does not *)
(* run back, and so what is dead stays dead.  A flag is only found in a    *)
(* repository that sets flags, and the only expiry that differs from the   *)
(* signed one is the epoch.                                                *)
(***************************************************************************)
Ages(t) == rows'[t] = rows[t] \/ rows'[t] = Ended(rows[t])

RowsInv ==
  \A t \in TokenIds : rows[t] # None =>
    /\ rows[t].flag => repo.storage = "flag"
    /\ rows[t].access \in {Claims[t].access, 0}

LEMMA RowsAge ==
  ASSUME Shape, [Next]_vars
  PROVE  /\ repo' = repo /\ now \in Nat /\ now' \in Nat /\ now <= now'
         /\ \A t \in TokenIds : Ages(t)
<1>. USE DEF Shape, TypeOK, Ages
<1>0. now \in Nat
  BY ConstantsAssumption DEF ConstantsAssumption
<1>1. CASE \E r \in Requests, f \in Inputs : Arrive(r, f)
  BY <1>0, <1>1 DEF Arrive
<1>2. CASE \E r \in Requests : Step(r) \/ Fail(r)
  <2>. PICK r \in Requests : Step(r) \/ Fail(r)
    BY <1>2
  <2>1. CASE Write(r)
    BY <1>0, <2>1 DEF Write
  <2>2. CASE ~Write(r)
    BY <1>0, <2>2 DEF Step, Fail, Identify, Verify, Refuse, Read, IntrospectionHook,
                      UserInfoHook, SendClaims, CheckOwner
  <2>. QED  BY <2>1, <2>2
<1>3. CASE \E t \in TokenIds : EndElsewhere(t)
  BY <1>0, <1>3 DEF EndElsewhere
<1>4. CASE Tick
  BY <1>0, <1>4 DEF Tick
<1>5. CASE UNCHANGED vars
  BY <1>0, <1>5 DEF vars
<1>. QED  BY <1>1, <1>2, <1>3, <1>4, <1>5 DEF Next

\* Ending a row, whatever the storage, ends both halves of it.
LEMMA EndedIsDead ==
  ASSUME NEW row \in Row \cup {None}, NEW half \in Halves, now \in Nat
  PROVE  ~Alive(Ended(row), half)
<1>1. CASE Ended(row) = None
  BY <1>1 DEF Alive
<1>2. CASE Ended(row) # None
  <2>1. row \in Row
    BY <1>2 DEF Ended
  <2>2. CASE Ended(row) = [row EXCEPT !.flag = TRUE]
    <3>1. [row EXCEPT !.flag = TRUE].flag
      BY <2>1 DEF Row
    <3>. QED  BY <2>2, <3>1 DEF Alive
  <2>3. CASE Ended(row) = [row EXCEPT !.access = 0, !.refresh = 0]
    <3>1. [row EXCEPT !.access = 0, !.refresh = 0][half] = 0
      BY <2>1 DEF Row, Halves
    <3>. QED  BY <2>3, <3>1 DEF Alive
  <2>. QED  BY <1>2, <2>2, <2>3 DEF Ended
<1>. QED  BY <1>1, <1>2

LEMMA DeadStays ==
  ASSUME Shape, [Next]_vars, NEW t \in TokenIds, NEW half \in Halves,
         ~Alive(rows[t], half)
  PROVE  ~Alive(rows[t], half)'
<1>1. /\ repo' = repo /\ now \in Nat /\ now' \in Nat /\ now <= now'
      /\ Ages(t)
  BY RowsAge
<1>2. rows[t] \in Row \cup {None}
  BY DEF Shape, TypeOK
<1>3. CASE rows'[t] = rows[t]
  BY <1>1, <1>2, <1>3 DEF Alive, Row, Halves
<1>4. CASE rows'[t] = Ended(rows[t])
  <2>1. ~Alive(Ended(rows[t]), half)
    BY <1>1, <1>2, EndedIsDead
  <2>2. Ended(rows[t]) \in Row \cup {None}
    BY <1>2, EndedType
  <2>. QED  BY <1>1, <1>4, <2>1, <2>2 DEF Alive, Row, Halves
<1>. QED  BY <1>1, <1>3, <1>4 DEF Ages

LEMMA InitRows == Init => RowsInv
  BY DEF Init, RowsInv

LEMMA NextRows == Shape /\ RowsInv /\ [Next]_vars => RowsInv'
<1>. SUFFICES ASSUME Shape, RowsInv, [Next]_vars, NEW t \in TokenIds, rows'[t] # None
              PROVE  /\ rows'[t].flag => repo'.storage = "flag"
                     /\ rows'[t].access \in {Claims[t].access, 0}
  BY DEF RowsInv
<1>1. repo' = repo /\ Ages(t)
  BY RowsAge
<1>2. rows[t] \in Row \cup {None}
  BY DEF Shape, TypeOK
<1>3. CASE rows'[t] = rows[t]
  BY <1>1, <1>3 DEF RowsInv
<1>4. CASE rows'[t] = Ended(rows[t])
  <2>1. rows[t] # None /\ rows[t] \in Row
    BY <1>2, <1>4 DEF Ended
  <2>2. /\ [rows[t] EXCEPT !.flag = TRUE].access = rows[t].access
        /\ [rows[t] EXCEPT !.access = 0, !.refresh = 0].access = 0
        /\ [rows[t] EXCEPT !.access = 0, !.refresh = 0].flag = rows[t].flag
    BY <2>1 DEF Row
  <2>. QED  BY <1>1, <1>4, <2>1, <2>2 DEF Ended, RowsInv
<1>. QED  BY <1>1, <1>3, <1>4 DEF Ages

-----------------------------------------------------------------------------
(***************************************************************************)
(* A token that was dead on arrival.  Its row is dead at every read, and   *)
(* which sign of death the next check goes by depends on the endpoint.     *)
(***************************************************************************)
Admitted == {"active", "claims", "claims_sent", "served"}

\* What the request about it knows by the time it stands where it stands.
SeesIt(r) ==
  LET row == rows[form[r].token]
  IN  /\ pc[r] \notin Admitted
      /\ pc[r] = "read" /\ form[r].endpoint = "api" => row = None \/ row.access = 0
      /\ pc[r] = "hook" /\ form[r].endpoint = "introspect" =>
           repo.storage = "flag" /\ seen[r].flag /\ (row # None => row.flag)
      /\ pc[r] = "hook" /\ form[r].endpoint = "userinfo" =>
           /\ seen[r].flag \/ seen[r].access <= now
           /\ seen[r].flag => repo.storage = "flag"

DoomedOk(r) ==
  /\ pc[r] = "verify" => form[r].endpoint \in Resources
  /\ pc[r] = "identify" => form[r].endpoint \notin Resources
  /\ pc[r] \in {"read", "hook", "claims"} /\ form[r].endpoint \in Resources =>
       form[r].half = "access"
  /\ r \in doomed =>
       /\ pc[r] # "idle" /\ form[r].half # None
       /\ ~Alive(rows[form[r].token], form[r].half)
       /\ CanSee(r) => SeesIt(r)

DoomedInv == RowsInv /\ \A r \in Requests : DoomedOk(r)

LEMMA FormType ==
  ASSUME Shape, NEW r \in Requests, pc[r] # "idle"
  PROVE  /\ form[r].token \in TokenIds /\ form[r].half \in Halves \cup {None}
         /\ rows[form[r].token] \in Row \cup {None}
         /\ form[r].endpoint \in {"introspect", "revoke", "userinfo", "api"}
  BY DEF Shape, TypeOK, Form

\* While a request stands still the world does not make it see less.
LEMMA StandingStill ==
  ASSUME Shape, DoomedInv, [Next]_vars, NEW r \in Requests,
         pc'[r] = pc[r], form'[r] = form[r], seen'[r] = seen[r],
         r \in doomed' <=> r \in doomed
  PROVE  DoomedOk(r)'
<1>. DEFINE t == form[r].token
<1>0. DoomedOk(r)
  BY DEF DoomedInv
<1>1. SUFFICES ASSUME r \in doomed
               PROVE  /\ ~Alive(rows[t], form[r].half)'
                      /\ CanSee(r) => SeesIt(r)'
  BY <1>0, RowsAge DEF DoomedOk, CanSee
<1>2. pc[r] # "idle" /\ form[r].half \in Halves
  BY <1>0, <1>1, FormType DEF DoomedOk
<1>3. t \in TokenIds /\ rows[t] \in Row \cup {None}
  BY <1>2, FormType
<1>4. ~Alive(rows[t], form[r].half)'
  BY <1>0, <1>1, <1>2, <1>3, DeadStays DEF DoomedOk
<1>5. ASSUME CanSee(r) PROVE SeesIt(r)'
  <2>1. SeesIt(r) /\ repo' = repo /\ now \in Nat /\ now' \in Nat /\ now <= now' /\ Ages(t)
    BY <1>0, <1>1, <1>3, <1>5, RowsAge DEF DoomedOk
  <2>2. /\ rows[t] # None /\ rows[t].flag /\ rows'[t] # None => rows'[t].flag
        /\ rows[t] = None => rows'[t] = None
        /\ rows[t] # None /\ rows[t].access = 0 /\ rows'[t] # None => rows'[t].access = 0
    <3>1. CASE rows'[t] = Ended(rows[t]) /\ rows[t] # None
      <4>1. /\ [rows[t] EXCEPT !.flag = TRUE].access = rows[t].access
            /\ [rows[t] EXCEPT !.flag = TRUE].flag
            /\ [rows[t] EXCEPT !.access = 0, !.refresh = 0].access = 0
            /\ [rows[t] EXCEPT !.access = 0, !.refresh = 0].flag = rows[t].flag
        BY <1>3, <3>1 DEF Row
      <4>. QED  BY <3>1, <4>1 DEF Ended
    <3>. QED  BY <2>1, <3>1 DEF Ages, Ended
  <2>3. pc[r] = "hook" => seen[r].access \in Nat
    BY DEF Shape, Row
  <2>. QED  BY <2>1, <2>2, <2>3 DEF SeesIt
<1>. QED  BY <1>4, <1>5

LEMMA ArriveDoomed ==
  ASSUME Shape, DoomedInv, NEW r \in Requests, NEW f \in Inputs, Arrive(r, f)
  PROVE  \A q \in Requests : DoomedOk(q)'
<1>. SUFFICES ASSUME NEW q \in Requests PROVE DoomedOk(q)'
  OBVIOUS
<1>1. CASE q = r
  <2>1. /\ f \in Form /\ form'[r] = f
        /\ pc'[r] \in {"verify", "identify", "read"}
        /\ f.endpoint \in Resources <=> pc'[r] = "verify"
        /\ r \in doomed' => f.half # None /\ ~Alive(rows[f.token], f.half)
        /\ rows' = rows /\ now' = now
    <3>1. r \notin doomed
      BY DEF Arrive, DoomedInv, DoomedOk
    <3>. QED  BY <3>1, ConstantsAssumption DEF ConstantsAssumption, Arrive, Shape, TypeOK
  <2>2. SeesIt(r)'
    BY <2>1 DEF SeesIt, Admitted, Resources
  <2>. QED  BY <1>1, <2>1, <2>2 DEF DoomedOk, Alive
<1>2. CASE q # r
  <2>1. pc'[q] = pc[q] /\ form'[q] = form[q] /\ seen'[q] = seen[q]
        /\ (q \in doomed' <=> q \in doomed)
    BY <1>2 DEF Arrive, Shape, TypeOK
  <2>. QED  BY <2>1, StandingStill DEF Next
<1>. QED  BY <1>1, <1>2

\* A step of r leaves every other request where it stood.
LEMMA OthersStandStill ==
  ASSUME Shape, NEW r \in Requests, Step(r) \/ Fail(r),
         NEW q \in Requests, q # r
  PROVE  /\ pc'[q] = pc[q] /\ form'[q] = form[q] /\ seen'[q] = seen[q]
         /\ (q \in doomed' <=> q \in doomed)
  BY DEF Step, Fail, Identify, Verify, Refuse, Read, IntrospectionHook, UserInfoHook,
         SendClaims, CheckOwner, Write, Shape, TypeOK

\* What a doomed request that can see the revocation finds when it looks.
LEMMA DeadRow ==
  ASSUME Shape, DoomedInv, NEW r \in doomed
  PROVE  LET row == rows[form[r].token]
         IN  /\ r \in Requests /\ form[r].half \in Halves /\ form[r].token \in TokenIds
             /\ now \in Nat /\ now > 0
             /\ row = None \/ /\ row \in Row
                              /\ row.flag \/ row[form[r].half] <= now
                              /\ row.flag => repo.storage = "flag"
                              /\ row.access \in {Claims[form[r].token].access, 0}
<1>1. r \in Requests /\ now \in Nat /\ now > 0
  BY ConstantsAssumption DEF ConstantsAssumption, Shape, TypeOK
<1>2. pc[r] # "idle" /\ form[r].half # None /\ ~Alive(rows[form[r].token], form[r].half)
  BY <1>1 DEF DoomedInv, DoomedOk
<1>3. form[r].half \in Halves /\ form[r].token \in TokenIds
      /\ rows[form[r].token] \in Row \cup {None}
  BY <1>1, <1>2, FormType
<1>4. ASSUME rows[form[r].token] # None
      PROVE  /\ rows[form[r].token].flag \/ rows[form[r].token][form[r].half] <= now
             /\ rows[form[r].token].flag => repo.storage = "flag"
             /\ rows[form[r].token].access \in {Claims[form[r].token].access, 0}
  BY <1>1, <1>2, <1>3, <1>4 DEF Alive, DoomedInv, RowsInv, Row, Halves
<1>. QED  BY <1>1, <1>3, <1>4

\* The steps of one request, among them the three that might let a dead token in.
LEMMA OwnStepDoomed ==
  ASSUME Shape, DoomedInv, NEW r \in Requests, Step(r) \/ Fail(r)
  PROVE  DoomedOk(r)'
<1>. DEFINE row == rows[form[r].token]
<1>0. /\ DoomedOk(r) /\ pc[r] # "idle" /\ form[r] \in Form /\ r \in DOMAIN pc
      /\ form' = form /\ doomed' = doomed /\ repo' = repo /\ now' = now
  <2>1. pc[r] # "idle"
    BY DEF Step, Fail, Identify, Verify, Refuse, Read, IntrospectionHook, UserInfoHook,
           SendClaims, CheckOwner, Write, Working
  <2>2. r \in DOMAIN pc
    BY DEF Shape, TypeOK
  <2>3. form' = form /\ doomed' = doomed /\ repo' = repo /\ now' = now
    BY DEF Step, Fail, Identify, Verify, Refuse, Read, IntrospectionHook, UserInfoHook,
           SendClaims, CheckOwner, Write
  <2>. QED  BY <2>1, <2>2, <2>3 DEF DoomedInv, Shape
<1>1. ~Alive(row, form[r].half)' \/ r \notin doomed
  <2>1. SUFFICES ASSUME r \in doomed PROVE ~Alive(row, form[r].half)'
    OBVIOUS
  <2>2. form[r].token \in TokenIds /\ form[r].half \in Halves /\ ~Alive(row, form[r].half)
    BY <1>0, <2>1, FormType DEF DoomedOk
  <2>3. ~Alive(rows[form[r].token], form[r].half)'
    BY <1>0, <2>2, DeadStays DEF Next
  <2>. QED  BY <2>3
<1>2. SUFFICES /\ pc'[r] \notin {"verify", "identify"}
               /\ pc'[r] \in {"read", "hook", "claims"} /\ form[r].endpoint \in Resources
                    => form[r].half = "access"
               /\ pc'[r] # "idle"
               /\ r \in doomed /\ CanSee(r) => SeesIt(r)'
  BY <1>0, <1>1 DEF DoomedOk, CanSee
<1>3. CASE Identify(r)
  BY <1>0, <1>3 DEF Identify, DoomedOk, SeesIt, Admitted, Resources
<1>4. CASE Verify(r)
  <2>1. CASE pc'[r] = "refused"
    BY <1>0, <2>1 DEF SeesIt, Admitted
  <2>2. CASE pc'[r] # "refused"
    <3>1. /\ form[r].half = "access" /\ Claims[form[r].token].access > now
          /\ IF repo.lookup THEN pc'[r] = "read"
                            ELSE pc'[r] = "claims" /\ form[r].endpoint # "api"
          /\ rows' = rows /\ form[r].endpoint \in Resources
      BY <1>0, <1>4, <2>2 DEF Verify, DoomedOk
    <3>2. ASSUME r \in doomed, CanSee(r)
          PROVE  SeesIt(r)'
      <4>1. repo.lookup
        BY <3>1, <3>2 DEF CanSee, Resources
      <4>2. form[r].endpoint = "api" => row = None \/ row.access = 0
        <5>1. row = None \/ /\ row.flag \/ row.access <= now
                            /\ row.flag => repo.storage = "flag"
                            /\ row.access \in {Claims[form[r].token].access, 0}
                            /\ now \in Nat
          BY <3>1, <3>2, DeadRow
        <5>2. form[r].endpoint = "api" => ~(repo.storage = "flag")
          BY <3>1, <3>2 DEF CanSee
        <5>3. Claims[form[r].token].access \in Nat
          BY <1>0, ConstantsAssumption DEF ConstantsAssumption, Form
        <5>. QED  BY <3>1, <5>1, <5>2, <5>3
      <4>. QED  BY <1>0, <3>1, <4>1, <4>2 DEF SeesIt, Admitted
    <3>. QED  BY <3>1, <3>2
  <2>. QED  BY <2>1, <2>2
<1>5. CASE Refuse(r)
  BY <1>0, <1>5 DEF Refuse, DoomedOk, SeesIt, Admitted, Resources
<1>6. CASE Read(r)
  <2>1. CASE ~Found(r)
    BY <1>0, <1>6, <2>1 DEF Read, Missing, DoomedOk, SeesIt, Admitted, Resources
  <2>2. CASE Found(r)
    <3>1. /\ pc[r] = "read" /\ pc'[r] = AfterRead(r) /\ seen'[r] = row /\ rows' = rows
          /\ row # None
      BY <1>0, <1>6, <2>2 DEF Read, Shape, TypeOK, Found
    <3>2. /\ pc'[r] \in {"hook", "claims"} /\ form[r].endpoint \in Resources
               => form[r].half = "access"
          /\ pc'[r] \notin {"idle", "verify", "identify"}
      BY <1>0, <3>1 DEF AfterRead, RouteVerdict, DoomedOk
    <3>3. ASSUME r \in doomed, CanSee(r)
          PROVE  SeesIt(r)'
      <4>1. SeesIt(r) /\ r \in Requests
        BY <1>0, <3>3 DEF DoomedOk
      <4>2. /\ form[r].half \in Halves /\ now \in Nat /\ now > 0 /\ row \in Row
            /\ row.flag \/ row[form[r].half] <= now
            /\ row.flag => repo.storage = "flag"
        BY <3>1, <3>3, DeadRow
      <4>3. CASE form[r].endpoint = "revoke"
        BY <1>0, <3>1, <4>3 DEF AfterRead, SeesIt, Admitted
      <4>4. CASE form[r].endpoint = "userinfo"
        <5>1. form[r].half = "access"
          BY <1>0, <3>1, <4>4 DEF DoomedOk, Resources
        <5>. QED  BY <1>0, <3>1, <4>2, <4>4, <5>1 DEF AfterRead, SeesIt, Admitted
      <4>5. CASE form[r].endpoint = "api"
        <5>1. AfterRead(r) = "refused"
          BY <3>1, <4>1, <4>2, <4>5 DEF AfterRead, RouteVerdict, SeesIt
        <5>. QED  BY <1>0, <3>1, <5>1 DEF SeesIt, Admitted
      <4>6. CASE form[r].endpoint = "introspect"
        <5>1. CASE row[form[r].half] <= now
          BY <1>0, <3>1, <4>6, <5>1 DEF AfterRead, SeesIt, Admitted
        <5>2. CASE ~(row[form[r].half] <= now)
          <6>1. row.flag /\ repo.storage = "flag"
            BY <4>2, <5>2
          <6>2. form[r].half = "refresh" \/ repo.hook
            BY <3>3, <6>1 DEF CanSee
          <6>3. AfterRead(r) = "hook"
            BY <4>6, <5>2, <6>2 DEF AfterRead
          <6>. QED  BY <1>0, <3>1, <4>6, <6>1, <6>3 DEF SeesIt, Admitted
        <5>. QED  BY <5>1, <5>2
      <4>7. form[r].endpoint \in {"introspect", "revoke", "userinfo", "api"}
        BY <1>0 DEF Form
      <4>. QED  BY <4>3, <4>4, <4>5, <4>6, <4>7
    <3>. QED  BY <3>1, <3>2, <3>3, <1>0 DEF DoomedOk
  <2>. QED  BY <2>1, <2>2
<1>7. CASE IntrospectionHook(r)
  <2>1. /\ pc[r] = "hook" /\ form[r].endpoint = "introspect"
        /\ pc'[r] = IF Flagged(r) THEN "inactive" ELSE "active"
    BY <1>0, <1>7 DEF IntrospectionHook
  <2>2. ASSUME r \in doomed, CanSee(r)
        PROVE  Flagged(r)
    <3>1. repo.storage = "flag" /\ seen[r].flag /\ (row # None => row.flag)
      BY <1>0, <2>1, <2>2 DEF DoomedOk, SeesIt
    <3>2. form[r].half = "refresh" \/ repo.hook
      BY <2>2, <3>1 DEF CanSee
    <3>. QED  BY <3>1, <3>2 DEF Flagged, Held
  <2>. QED  BY <1>0, <2>1, <2>2 DEF SeesIt, Admitted, Resources
<1>8. CASE UserInfoHook(r)
  <2>1. /\ pc[r] = "hook" /\ form[r].endpoint = "userinfo"
        /\ pc'[r] = IF Flagged(r) \/ Lapsed(r) THEN "refused" ELSE "claims"
        /\ form[r].half = "access"
    BY <1>0, <1>8 DEF UserInfoHook, DoomedOk, Resources
  <2>2. ASSUME r \in doomed, CanSee(r)
        PROVE  Flagged(r) \/ Lapsed(r)
    <3>1. /\ seen[r].flag \/ seen[r].access <= now
          /\ seen[r].flag => repo.storage = "flag"
      BY <1>0, <2>1, <2>2 DEF DoomedOk, SeesIt
    <3>2. row # None => /\ row.flag \/ row.access <= now
                        /\ row.flag => repo.storage = "flag"
      BY <2>1, <2>2, DeadRow
    <3>3. /\ Held(r).flag \/ Held(r).access <= now
          /\ Held(r).flag => repo.storage = "flag"
      BY <3>1, <3>2 DEF Held
    <3>4. Held(r).flag => repo.hook
      BY <2>1, <2>2, <3>3 DEF CanSee
    <3>. QED  BY <3>3, <3>4 DEF Flagged, Lapsed
  <2>. QED  BY <1>0, <2>1, <2>2 DEF SeesIt, Admitted
<1>9. CASE SendClaims(r)
  BY <1>0, <1>9 DEF SendClaims, DoomedOk, SeesIt, Admitted, Resources
<1>10. CASE CheckOwner(r)
  BY <1>0, <1>10 DEF CheckOwner, DoomedOk, SeesIt, Admitted, Resources
<1>11. CASE Write(r)
  BY <1>0, <1>11 DEF Write, DoomedOk, SeesIt, Admitted, Resources
<1>12. CASE Fail(r)
  BY <1>0, <1>12 DEF Fail, Missing, DoomedOk, SeesIt, Admitted, Resources, Working
<1>. QED  BY <1>3, <1>4, <1>5, <1>6, <1>7, <1>8, <1>9, <1>10, <1>11, <1>12 DEF Step

LEMMA InitDoomed == Init => DoomedInv
  BY InitRows DEF Init, DoomedInv, DoomedOk

LEMMA NextDoomed == Shape /\ DoomedInv /\ [Next]_vars => DoomedInv'
<1>. SUFFICES ASSUME Shape, DoomedInv, [Next]_vars PROVE DoomedInv'
  OBVIOUS
<1>1. RowsInv'
  BY NextRows DEF DoomedInv
<1>2. CASE \E r \in Requests, f \in Inputs : Arrive(r, f)
  BY <1>1, <1>2, ArriveDoomed DEF DoomedInv
<1>3. CASE \E r \in Requests : Step(r) \/ Fail(r)
  <2>. PICK r \in Requests : Step(r) \/ Fail(r)
    BY <1>3
  <2>1. ASSUME NEW q \in Requests PROVE DoomedOk(q)'
    BY OwnStepDoomed, OthersStandStill, StandingStill
  <2>. QED  BY <1>1, <2>1 DEF DoomedInv
<1>4. CASE (\E t \in TokenIds : EndElsewhere(t)) \/ Tick \/ UNCHANGED vars
  <2>1. UNCHANGED <<pc, form, seen, doomed>>
    BY <1>4 DEF EndElsewhere, Tick, vars
  <2>2. ASSUME NEW q \in Requests PROVE DoomedOk(q)'
    BY <2>1, StandingStill
  <2>. QED  BY <1>1, <2>2 DEF DoomedInv
<1>. QED  BY <1>2, <1>3, <1>4 DEF Next

\* Whatever became of it while the request was served: a token that was
\* expired or revoked when the request arrived is not reported active by
\* introspection, yields no UserInfo claims and opens no route.
THEOREM DeadTokensAreRefused == Spec => []DeadOnArrivalIsRefused
<1>1. Shape /\ DoomedInv => DeadOnArrivalIsRefused
  BY DEF Shape, TypeOK, DoomedInv, DoomedOk, SeesIt, Admitted, DeadOnArrivalIsRefused
<1>2. Init => Shape /\ DoomedInv
  BY InitShape, InitDoomed
<1>3. Shape /\ DoomedInv /\ [Next]_vars => (Shape /\ DoomedInv)'
  BY NextShape, NextDoomed
<1>. QED  BY <1>1, <1>2, <1>3, PTL DEF Spec

-----------------------------------------------------------------------------
(***************************************************************************)
(* Revocation.  A request that is about to write, or has written, passed   *)
(* the owner check; one that is answered leaves a dead row behind, and     *)
(* that stays dead.                                                        *)
(***************************************************************************)
OwnerOk(r) ==
  /\ AuthenticateRevoke /\ pc[r] \in {"write", "revoked"} =>
       Owns(form[r].client, form[r].token, form[r].half)
  /\ pc[r] # "idle" /\ Revocable(r) =>
       \A half \in Halves : ~Alive(rows[form[r].token], half)

OwnerInv == \A r \in Requests : OwnerOk(r)

LEMMA OwnersStandStill ==
  ASSUME Shape, OwnerInv, [Next]_vars, NEW r \in Requests,
         pc'[r] = pc[r], form'[r] = form[r]
  PROVE  OwnerOk(r)'
<1>1. OwnerOk(r)
  BY DEF OwnerInv
<1>2. ASSUME pc[r] # "idle", Revocable(r), NEW half \in Halves
      PROVE  ~Alive(rows[form[r].token], half)'
  <2>1. form[r].token \in TokenIds /\ ~Alive(rows[form[r].token], half)
    BY <1>1, <1>2, FormType DEF OwnerOk
  <2>. QED  BY <2>1, DeadStays
<1>. QED  BY <1>1, <1>2 DEF OwnerOk, Revocable, Owns, Cid

LEMMA OwnStepOwner ==
  ASSUME Shape, OwnerInv, NEW r \in Requests, Step(r) \/ Fail(r)
  PROVE  OwnerOk(r)'
<1>. DEFINE token == form[r].token
<1>0. /\ pc[r] # "idle" /\ form[r] \in Form /\ token \in TokenIds /\ r \in DOMAIN pc
      /\ rows[token] \in Row \cup {None} /\ OwnerOk(r)
  <2>1. pc[r] # "idle"
    BY DEF Step, Fail, Identify, Verify, Refuse, Read, IntrospectionHook, UserInfoHook,
           SendClaims, CheckOwner, Write, Working
  <2>. QED  BY <2>1, FormType DEF Shape, TypeOK, OwnerInv
<1>1. CASE Identify(r) \/ Verify(r) \/ Refuse(r) \/ IntrospectionHook(r) \/ UserInfoHook(r)
           \/ SendClaims(r) \/ Fail(r)
  <2>1. /\ form' = form
        /\ pc'[r] \in {"write", "revoked", "ignored"} =>
             pc'[r] = "ignored" /\ form[r].endpoint # "revoke"
    BY <1>0, <1>1 DEF Identify, Verify, Refuse, IntrospectionHook, UserInfoHook, SendClaims,
                      Fail, Missing, Working
  <2>. QED  BY <2>1 DEF OwnerOk, Revocable
<1>2. CASE Read(r)
  <2>1. CASE Found(r)
    <3>1. pc'[r] = AfterRead(r) /\ form' = form
      BY <1>0, <1>2, <2>1 DEF Read
    <3>2. AfterRead(r) \notin {"write", "revoked", "ignored"}
      BY DEF AfterRead, RouteVerdict
    <3>. QED  BY <3>1, <3>2 DEF OwnerOk, Revocable
  <2>2. CASE ~Found(r)
    <3>1. pc'[r] \notin {"write", "revoked"} /\ form' = form /\ rows' = rows
      BY <1>0, <1>2, <2>2 DEF Read, Missing
    <3>2. form[r].half # None => rows[token] = None
      BY <2>2 DEF Found
    <3>. QED  BY <3>1, <3>2 DEF OwnerOk, Revocable, Alive
  <2>. QED  BY <2>1, <2>2
<1>3. CASE CheckOwner(r)
  <2>1. /\ pc'[r] = IF AuthenticateRevoke => Owns(form[r].client, token, form[r].half)
                      THEN "write" ELSE "ignored"
        /\ form' = form
    BY <1>0, <1>3 DEF CheckOwner
  <2>2. form[r].client = Claims[token].client => Owns(form[r].client, token, form[r].half)
    BY DEF Owns
  <2>3. CASE AuthenticateRevoke => Owns(form[r].client, token, form[r].half)
    BY <2>1, <2>3 DEF OwnerOk, Revocable, Owns, Cid
  <2>4. CASE ~(AuthenticateRevoke => Owns(form[r].client, token, form[r].half))
    BY <2>1, <2>2, <2>4 DEF OwnerOk, Revocable
  <2>. QED  BY <2>3, <2>4
<1>4. CASE Write(r)
  <2>1. /\ pc[r] = "write" /\ pc'[r] = "revoked" /\ form' = form /\ repo' = repo /\ now' = now
        /\ rows'[token] = Ended(rows[token])
    BY <1>0, <1>4 DEF Write, Shape, TypeOK
  <2>2. AuthenticateRevoke => Owns(form[r].client, token, form[r].half)
    BY <1>0, <2>1 DEF OwnerOk
  <2>3. now \in Nat
    BY ConstantsAssumption DEF ConstantsAssumption, Shape, TypeOK
  <2>4. ASSUME NEW half \in Halves
        PROVE  ~Alive(rows'[token], half)
    BY <1>0, <2>1, <2>3, EndedIsDead
  <2>. QED  BY <2>1, <2>2, <2>4 DEF OwnerOk, Owns, Cid, Alive
<1>. QED  BY <1>1, <1>2, <1>3, <1>4 DEF Step

LEMMA InitOwner == Init => OwnerInv
  BY DEF Init, OwnerInv, OwnerOk

LEMMA NextOwner == Shape /\ OwnerInv /\ [Next]_vars => OwnerInv'
<1>. SUFFICES ASSUME Shape, OwnerInv, [Next]_vars, NEW q \in Requests
              PROVE  OwnerOk(q)'
  BY DEF OwnerInv
<1>1. ASSUME NEW r \in Requests, NEW f \in Inputs, Arrive(r, f)
      PROVE  OwnerOk(q)'
  <2>1. CASE q = r
    <3>1. pc'[r] \in {"verify", "identify", "read"}
      BY <1>1 DEF Arrive, Shape, TypeOK
    <3>. QED  BY <2>1, <3>1 DEF OwnerOk, Revocable
  <2>2. CASE q # r
    <3>1. pc'[q] = pc[q] /\ form'[q] = form[q]
      BY <1>1, <2>2 DEF Arrive, Shape, TypeOK
    <3>. QED  BY <3>1, OwnersStandStill
  <2>. QED  BY <2>1, <2>2
<1>2. ASSUME NEW r \in Requests, Step(r) \/ Fail(r)
      PROVE  OwnerOk(q)'
  BY <1>2, OwnStepOwner, OthersStandStill, OwnersStandStill
<1>3. CASE (\E t \in TokenIds : EndElsewhere(t)) \/ Tick \/ UNCHANGED vars
  <2>1. UNCHANGED <<pc, form>>
    BY <1>3 DEF EndElsewhere, Tick, vars
  <2>. QED  BY <2>1, OwnersStandStill
<1>. QED  BY <1>1, <1>2, <1>3 DEF Next

\* The owner of a token who asks for its revocation, through either half and
\* however late, is answered only with both halves dead; and no client that
\* has to authenticate ends a token of another with a different cid.
THEOREM RevocationKeepsToOwners == Spec => []RevocationIsTheOwners
<1>1. ASSUME Shape, OwnerInv
      PROVE  RevocationIsTheOwners
  <2>1. OwnerRevocationKills
    BY <1>1, NoneIsNoRecord DEF OwnerInv, OwnerOk, OwnerRevocationKills, Revocable
  <2>2. ASSUME NEW r \in Requests, AuthenticateRevoke, CidsDiffer, pc[r] = "revoked"
        PROVE  form[r].client = Claims[form[r].token].client
    <3>1. Owns(form[r].client, form[r].token, form[r].half)
      BY <1>1, <2>2 DEF OwnerInv, OwnerOk
    <3>2. form[r].client \in Clients /\ Claims[form[r].token].client \in Clients
      BY <1>1, <2>2, ConstantsAssumption DEF ConstantsAssumption, Shape, Form
    <3>. QED  BY <2>2, <3>1, <3>2 DEF Owns, CidsDiffer
  <2>. QED  BY <2>1, <2>2 DEF RevocationIsTheOwners, OnlyOwnersRevoke
<1>2. Init => Shape /\ OwnerInv
  BY InitShape, InitOwner
<1>3. Shape /\ OwnerInv /\ [Next]_vars => (Shape /\ OwnerInv)'
  BY NextShape, NextOwner
<1>. QED  BY <1>1, <1>2, <1>3, PTL DEF Spec
=============================================================================
