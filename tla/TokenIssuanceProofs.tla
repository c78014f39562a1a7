-------------------------- MODULE TokenIssuanceProofs --------------------------
(***************************************************************************)
(* Proofs about what the grants of /token share, for any number of         *)
(* requests, clients, users and secrets, whatever clients and scopes are   *)
(* registered as in mid-request.                                           *)
(***************************************************************************)
EXTENDS TokenIssuance, SequenceTheorems, TLAPS

-----------------------------------------------------------------------------
(***************************************************************************)
(* The awaits before a request.  Every route begins with the client and    *)
(* its validation; a row is stored once, after the scopes were finalized   *)
(* and the old token revoked, and a refresh token is issued right after.   *)
(***************************************************************************)
Ordered(s) ==
  \A i \in 1 .. Len(s) :
    /\ s[i] = "client" => i < Len(s) /\ s[i + 1] = "valid"
    /\ s[i] = "persist" => i = Len(s) \/ (i + 1 = Len(s) /\ s[i + 1] = "refresh")
    /\ i > 1 => /\ s[i] # "client"
                /\ s[i] = "valid" => s[i - 1] = "client"
                /\ s[i] = "revoke" => s[i - 1] = "finalize"
                /\ s[i] = "persist" => s[i - 1] \in {"finalize", "revoke"}
                /\ s[i] = "refresh" => s[i - 1] = "persist"

\* Where a request stands: its next await, or how it ended.
Stage(s) == IF s = << >> THEN "done" ELSE s[1]

Plan(grant) == <<"client", "valid">> \o Route(grant)

Has(s, stage) == \E i \in 1 .. Len(s) : s[i] = stage

Endings == {"done", "failed", "invalid_client", "invalid_grant", "invalid_scope", "invalid_token"}

\* Within a route, the same.
RouteOrdered(s) ==
  \A i \in 1 .. Len(s) :
    /\ s[i] \notin {"client", "valid"}
    /\ s[i] = "persist" => i = Len(s) \/ (i + 1 = Len(s) /\ s[i + 1] = "refresh")
    /\ s[i] = "revoke" => i > 1 /\ s[i - 1] = "finalize"
    /\ s[i] = "persist" => i > 1 /\ s[i - 1] \in {"finalize", "revoke"}
    /\ s[i] = "refresh" => i > 1 /\ s[i - 1] = "persist"

LEMMA RouteType ==
  ASSUME NEW grant \in Grants \cup Purposes
  PROVE  /\ Route(grant) \in Seq(Stages) /\ RouteOrdered(Route(grant))
         /\ \A i \in 1 .. Len(Route(grant)) :
              /\ grant \notin Purposes
              /\ Route(grant)[i] \in {"old", "revoke"} => grant = "refresh_token"
<1>. DEFINE Plain(s) == \A i \in 1 .. Len(s) : s[i] \notin {"old", "revoke"}
<1>1. /\ <<"scopes", "finalize", "persist">> \in Seq(Stages)
      /\ RouteOrdered(<<"scopes", "finalize", "persist">>)
      /\ Plain(<<"scopes", "finalize", "persist">>)
  BY DEF Stages, RouteOrdered
<1>2. /\ <<"scopes", "exchange", "finalize", "persist">> \in Seq(Stages)
      /\ RouteOrdered(<<"scopes", "exchange", "finalize", "persist">>)
      /\ Plain(<<"scopes", "exchange", "finalize", "persist">>)
  BY DEF Stages, RouteOrdered
<1>3. /\ <<"old", "scopes", "finalize", "revoke", "persist", "refresh">> \in Seq(Stages)
      /\ RouteOrdered(<<"old", "scopes", "finalize", "revoke", "persist", "refresh">>)
  BY DEF Stages, RouteOrdered
<1>4. /\ <<"user", "scopes", "finalize", "persist", "refresh">> \in Seq(Stages)
      /\ RouteOrdered(<<"user", "scopes", "finalize", "persist", "refresh">>)
      /\ Plain(<<"user", "scopes", "finalize", "persist", "refresh">>)
  BY DEF Stages, RouteOrdered
<1>5. << >> \in Seq(Stages) /\ Len(<< >>) = 0
  BY EmptySeq
<1>. HIDE DEF Plain
<1>6. CASE grant \in Purposes
  <2>1. Route(grant) = << >>
    BY <1>6 DEF Route, Purposes
  <2>. QED  BY <1>5, <2>1 DEF RouteOrdered
<1>7. CASE grant \notin Purposes
  <2>1. /\ Route(grant) \in Seq(Stages) /\ RouteOrdered(Route(grant))
        /\ grant # "refresh_token" => Plain(Route(grant))
    BY <1>1, <1>2, <1>3, <1>4, <1>7 DEF Route
  <2>. QED  BY <1>7, <2>1 DEF Plain
<1>. QED  BY <1>6, <1>7

LEMMA PlanOrdered ==
  ASSUME NEW grant \in Grants \cup Purposes
  PROVE  /\ Plan(grant) \in Seq(Stages) /\ Plan(grant) # << >> /\ Plan(grant)[1] = "client"
         /\ Ordered(Plan(grant))
         /\ grant \in Purposes => ~Has(Plan(grant), "persist")
         /\ grant # "refresh_token" => ~Has(Plan(grant), "old") /\ ~Has(Plan(grant), "revoke")
<1>. DEFINE plan == Plan(grant)
<1>1. Route(grant) \in Seq(Stages) /\ Len(Route(grant)) \in Nat
  BY RouteType, LenProperties
<1>2. <<"client", "valid">> \in Seq(Stages) /\ Len(<<"client", "valid">>) = 2
      /\ <<"client", "valid">>[1] = "client" /\ <<"client", "valid">>[2] = "valid"
  BY DEF Stages
<1>3. /\ plan \in Seq(Stages) /\ Len(plan) = Len(Route(grant)) + 2
      /\ plan[1] = "client" /\ plan[2] = "valid"
      /\ \A i \in 1 .. Len(plan) : i > 2 => plan[i] = Route(grant)[i - 2]
  BY <1>1, <1>2, ConcatProperties DEF Plan
<1>. HIDE DEF plan
<1>4. ASSUME NEW i \in 1 .. Len(plan)
      PROVE  /\ plan[i] = "client" => i < Len(plan) /\ plan[i + 1] = "valid"
             /\ plan[i] = "persist" =>
                  i = Len(plan) \/ (i + 1 = Len(plan) /\ plan[i + 1] = "refresh")
             /\ i > 1 => /\ plan[i] # "client"
                         /\ plan[i] = "valid" => plan[i - 1] = "client"
                         /\ plan[i] = "revoke" => plan[i - 1] = "finalize"
                         /\ plan[i] = "persist" => plan[i - 1] \in {"finalize", "revoke"}
                         /\ plan[i] = "refresh" => plan[i - 1] = "persist"
             /\ grant \in Purposes => plan[i] # "persist"
             /\ grant # "refresh_token" => plan[i] \notin {"old", "revoke"}
  <2>1. CASE i \in {1, 2}
    BY <1>1, <1>3, <2>1
  <2>2. CASE i > 2
    <3>1. i - 2 \in 1 .. Len(Route(grant)) /\ plan[i] = Route(grant)[i - 2]
      BY <1>1, <1>3, <2>2
    <3>2. /\ plan[i] \notin {"client", "valid"} /\ grant \notin Purposes
          /\ grant # "refresh_token" => plan[i] \notin {"old", "revoke"}
      BY <3>1, RouteType DEF RouteOrdered
    <3>3. i - 2 > 1 => plan[i - 1] = Route(grant)[i - 2 - 1]
      <4>1. SUFFICES ASSUME i - 2 > 1 PROVE plan[i - 1] = Route(grant)[i - 2 - 1]
        OBVIOUS
      <4>2. plan[i - 1] = Route(grant)[i - 1 - 2]
        BY <1>1, <1>3, <4>1
      <4>3. i - 1 - 2 = i - 2 - 1
        OBVIOUS
      <4>. QED  BY <4>2, <4>3
    <3>4. /\ plan[i] = "revoke" => plan[i - 1] = "finalize"
          /\ plan[i] = "persist" => plan[i - 1] \in {"finalize", "revoke"}
          /\ plan[i] = "refresh" => plan[i - 1] = "persist"
      BY <3>1, <3>3, RouteType DEF RouteOrdered
    <3>5. plan[i] = "persist" =>
            i = Len(plan) \/ (i + 1 = Len(plan) /\ plan[i + 1] = "refresh")
      <4>1. SUFFICES ASSUME plan[i] = "persist", i # Len(plan)
                     PROVE  i + 1 = Len(plan) /\ plan[i + 1] = "refresh"
        OBVIOUS
      <4>2. i - 2 + 1 = Len(Route(grant)) /\ Route(grant)[i - 2 + 1] = "refresh"
        BY <1>1, <1>3, <3>1, <4>1, RouteType DEF RouteOrdered
      <4>3. plan[i + 1] = Route(grant)[i + 1 - 2] /\ i + 1 - 2 = i - 2 + 1
        BY <1>1, <1>3, <2>2, <4>2
      <4>. QED  BY <1>1, <1>3, <4>2, <4>3
    <3>. QED  BY <3>2, <3>4, <3>5
  <2>. QED  BY <1>1, <1>3, <2>1, <2>2
<1>. QED  BY <1>3, <1>4 DEF plan, Ordered, Has

\* One await done, the next one follows in the order of the route.
LEMMA TailOrdered ==
  ASSUME NEW s \in Seq(Stages), s # << >>, Ordered(s)
  PROVE  /\ Tail(s) \in Seq(Stages) /\ Ordered(Tail(s))
         /\ Stage(Tail(s)) \in (Stages \cup {"done"}) \ {"client"}
         /\ Stage(Tail(s)) = "refresh" => Stage(s) = "persist"
         /\ Stage(Tail(s)) = "revoke" => Stage(s) = "finalize"
         /\ Stage(Tail(s)) = "persist" => Stage(s) \in {"finalize", "revoke"}
         /\ Stage(Tail(s)) = "valid" <=> Stage(s) = "client"
         /\ Stage(s) = "persist" => ~Has(Tail(s), "persist")
         /\ \A stage : Has(Tail(s), stage) => Has(s, stage)
<1>1. /\ Tail(s) \in Seq(Stages) /\ Len(s) \in Nat /\ Len(s) > 0 /\ Len(Tail(s)) = Len(s) - 1
      /\ \A i \in 1 .. Len(Tail(s)) : Tail(s)[i] = s[i + 1]
      /\ Tail(s) # << >> => Len(Tail(s)) > 0
  BY HeadTailProperties, LenProperties, EmptySeq
<1>. DEFINE t == Tail(s)
<1>. HIDE DEF t
<1>2. /\ t \in Seq(Stages) /\ Len(t) = Len(s) - 1 /\ \A i \in 1 .. Len(t) : t[i] = s[i + 1]
      /\ t # << >> => Len(t) > 0
  BY <1>1 DEF t
<1>3. ASSUME NEW i \in 1 .. Len(t)
      PROVE  /\ t[i] = "client" => i < Len(t) /\ t[i + 1] = "valid"
             /\ t[i] = "persist" => i = Len(t) \/ (i + 1 = Len(t) /\ t[i + 1] = "refresh")
             /\ i > 1 => /\ t[i] # "client"
                         /\ t[i] = "valid" => t[i - 1] = "client"
                         /\ t[i] = "revoke" => t[i - 1] = "finalize"
                         /\ t[i] = "persist" => t[i - 1] \in {"finalize", "revoke"}
                         /\ t[i] = "refresh" => t[i - 1] = "persist"
  <2>1. i + 1 \in 1 .. Len(s) /\ i + 1 > 1 /\ t[i] = s[i + 1] /\ (i + 1) - 1 = i
    BY <1>1, <1>2
  <2>2. /\ t[i] # "client"
        /\ t[i] = "valid" => s[i] = "client"
        /\ t[i] = "revoke" => s[i] = "finalize"
        /\ t[i] = "persist" => s[i] \in {"finalize", "revoke"}
        /\ t[i] = "refresh" => s[i] = "persist"
    BY <2>1 DEF Ordered
  <2>3. i > 1 => t[i - 1] = s[i]
    BY <1>1, <1>2
  <2>4. t[i] = "persist" => i = Len(t) \/ (i + 1 = Len(t) /\ t[i + 1] = "refresh")
    <3>1. SUFFICES ASSUME t[i] = "persist", i # Len(t)
                   PROVE  i + 1 = Len(t) /\ t[i + 1] = "refresh"
      OBVIOUS
    <3>2. i + 1 = Len(s) \/ (i + 1 + 1 = Len(s) /\ s[i + 1 + 1] = "refresh")
      BY <2>1, <3>1 DEF Ordered
    <3>3. i \in Nat /\ Len(s) \in Nat /\ Len(t) = Len(s) - 1
      BY <1>1, <1>2
    <3>4. i + 1 # Len(s)
      BY <3>1, <3>3
    <3>5. i + 1 = Len(t)
      BY <3>2, <3>3, <3>4
    <3>6. i + 1 \in 1 .. Len(t)
      BY <3>3, <3>5
    <3>. QED  BY <1>2, <3>2, <3>4, <3>5, <3>6
  <2>. QED  BY <2>2, <2>3, <2>4
<1>4. Ordered(t)
  BY <1>3 DEF Ordered
<1>5. /\ Stage(t) \in (Stages \cup {"done"}) \ {"client"}
      /\ Stage(t) = "refresh" => Stage(s) = "persist"
      /\ Stage(t) = "revoke" => Stage(s) = "finalize"
      /\ Stage(t) = "persist" => Stage(s) \in {"finalize", "revoke"}
      /\ Stage(t) = "valid" <=> Stage(s) = "client"
  <2>1. CASE t = << >>
    <3>1. Len(t) = 0
      BY <2>1, EmptySeq
    <3>2. Len(s) = 1
      <4>1. Len(s) \in Nat /\ Len(t) = Len(s) - 1
        BY <1>1, <1>2
      <4>. QED  BY <3>1, <4>1
    <3>3. s[1] # "client"
      BY <3>2 DEF Ordered
    <3>. QED  BY <2>1, <3>3 DEF Stage, Stages
  <2>2. CASE t # << >>
    <3>1. /\ 1 \in 1 .. Len(s) /\ 2 \in 1 .. Len(s) /\ 1 \in 1 .. Len(t)
          /\ t[1] = s[2] /\ t[1] \in Stages
      BY <1>1, <1>2, <2>2, ElementOfSeq
    <3>2. /\ s[2] # "client"
          /\ s[2] = "refresh" => s[1] = "persist"
          /\ s[2] = "revoke" => s[1] = "finalize"
          /\ s[2] = "persist" => s[1] \in {"finalize", "revoke"}
          /\ s[2] = "valid" => s[1] = "client"
          /\ s[1] = "client" => s[2] = "valid"
      BY <3>1 DEF Ordered
    <3>. QED  BY <2>2, <3>1, <3>2 DEF Stage
  <2>. QED  BY <2>1, <2>2
<1>6. \A stage : Has(t, stage) => Has(s, stage)
  BY <1>1, <1>2 DEF Has
<1>7. Stage(s) = "persist" => ~Has(t, "persist")
  <2>1. SUFFICES ASSUME s[1] = "persist", NEW i \in 1 .. Len(t) PROVE t[i] # "persist"
    BY DEF Stage, Has
  <2>2. 1 \in 1 .. Len(s) /\ Len(s) # 1
    BY <1>1, <1>2
  <2>3. 1 + 1 = Len(s) /\ s[1 + 1] = "refresh"
    BY <2>1, <2>2 DEF Ordered
  <2>4. i = 1
    BY <1>1, <1>2, <2>3
  <2>. QED  BY <1>2, <2>3, <2>4
<1>. QED  BY <1>2, <1>4, <1>5, <1>6, <1>7 DEF t

-----------------------------------------------------------------------------
(***************************************************************************)
(* Types, and what a request has by the time it stands where it stands.    *)
(***************************************************************************)
RequestShape(r) ==
  /\ Ordered(left[r])
  /\ left[r] = <<"idle">> <=> form[r] = None
  /\ form[r] = None => /\ row[r] = None /\ account[r] = None /\ granted[r] = {}
                       /\ r \notin entitled /\ r \notin steady
  /\ form[r] # None => /\ form[r].token # None => row[form[r].token] # None
                       /\ form[r].grant \in Purposes => ~Has(left[r], "persist")
                       /\ form[r].token = None =>
                            ~Has(left[r], "old") /\ ~Has(left[r], "revoke")
  /\ Stage(left[r]) = "refresh" => row[r] # None
  /\ row[r] # None => ~Has(left[r], "persist")
  /\ Stage(left[r]) = "valid" => account[r] # None

Shape == TypeOK /\ \A r \in Requests : RequestShape(r)

LEMMA Absent ==
  /\ None \notin Row /\ None \notin Inputs /\ None \notin Registrations
  /\ None \notin Requests /\ None \notin Secrets /\ None \notin Clients /\ None \notin Basic
  BY ConstantsAssumption DEF ConstantsAssumption

LEMMA InputFacts ==
  ASSUME NEW f \in Inputs
  PROVE  /\ f \in Form /\ ClientId(f) \in Clients
         /\ f.grant = "refresh_token" <=> f.token # None
<1>1. f \in Form /\ (f.id # None \/ f.basic # None) /\ (f.grant = "refresh_token" <=> f.token # None)
  BY ConstantsAssumption DEF ConstantsAssumption
<1>. QED  BY <1>1 DEF Form, Basic, ClientId

LEMMA OneIsOrdered ==
  ASSUME NEW how
  PROVE  /\ Ordered(<<how>>) <=> how # "client"
         /\ Stage(<<how>>) = how
         /\ \A stage : Has(<<how>>, stage) <=> how = stage
  BY DEF Ordered, Stage, Has

LEMMA RestFacts ==
  ASSUME NEW s \in Rest
  PROVE  Stage(s) \notin Stages
<1>1. CASE s = << >>
  BY <1>1 DEF Stage, Stages
<1>2. CASE s # << >>
  <2>1. PICK how \in {"idle"} \cup (Endings \ {"done"}) : s = <<how>>
    BY <1>2 DEF Rest, Endings
  <2>. QED  BY <2>1, OneIsOrdered DEF Stages, Endings
<1>. QED  BY <1>1, <1>2

\* A request that awaits something has a route before it.
LEMMA AwaitFacts ==
  ASSUME TypeOK, NEW r \in Requests, NEW stage \in Stages, Await(r, stage)
  PROVE  left[r] \in Seq(Stages) /\ left[r] # << >> /\ Stage(left[r]) = stage
         /\ left[r] # <<"idle">> /\ Has(left[r], stage)
<1>1. Stage(left[r]) = stage /\ left[r] # << >>
  BY DEF Await, Stage
<1>2. left[r] \in Seq(Stages)
  BY <1>1, RestFacts DEF TypeOK
<1>3. stage # "idle"
  BY DEF Stages
<1>4. Has(left[r], stage)
  BY <1>1, <1>2, EmptySeq DEF Has, Stage
<1>. QED  BY <1>1, <1>2, <1>3, <1>4, OneIsOrdered

\* The two ways on: to the next await of the route, or to an end.
Moves(r) == Continue(r) \/ \E how \in Endings \ {"done"} : End(r, how)

LEMMA MoveFacts ==
  ASSUME Shape, NEW r \in Requests, NEW stage \in Stages, Await(r, stage), Moves(r)
  PROVE  /\ left' \in [Requests -> Rest \cup Seq(Stages)]
         /\ \A q \in Requests \ {r} : left'[q] = left[q]
         /\ Ordered(left'[r]) /\ left'[r] # <<"idle">>
         /\ Stage(left'[r]) \in (Stages \cup Endings) \ {"client"}
         /\ Stage(left'[r]) = "refresh" => stage = "persist"
         /\ Stage(left'[r]) = "revoke" => stage = "finalize"
         /\ Stage(left'[r]) = "persist" => stage \in {"finalize", "revoke"}
         /\ Stage(left'[r]) = "valid" => stage = "client"
         /\ stage = "persist" => ~Has(left'[r], "persist")
         /\ stage = "client" => Stage(left'[r]) \in {"valid"} \cup Endings
         /\ \A other \in Stages : Has(left'[r], other) => Has(left[r], other)
<1>. USE DEF Shape, TypeOK, RequestShape
<1>1. left[r] \in Seq(Stages) /\ left[r] # << >> /\ Stage(left[r]) = stage /\ Ordered(left[r])
  BY AwaitFacts
<1>2. CASE Continue(r)
  <2>1. left' = [left EXCEPT ![r] = Tail(left[r])]
    BY <1>2 DEF Continue
  <2>2. /\ Tail(left[r]) \in Seq(Stages) /\ Ordered(Tail(left[r]))
        /\ Stage(Tail(left[r])) \in (Stages \cup {"done"}) \ {"client"}
        /\ Stage(Tail(left[r])) = "refresh" => stage = "persist"
        /\ Stage(Tail(left[r])) = "revoke" => stage = "finalize"
        /\ Stage(Tail(left[r])) = "persist" => stage \in {"finalize", "revoke"}
        /\ stage = "persist" => ~Has(Tail(left[r]), "persist")
        /\ Stage(Tail(left[r])) = "valid" <=> stage = "client"
        /\ \A other \in Stages : Has(Tail(left[r]), other) => Has(left[r], other)
    BY <1>1, TailOrdered
  <2>3. Tail(left[r]) # <<"idle">>
    BY <2>2, OneIsOrdered DEF Stages
  <2>. QED  BY <2>1, <2>2, <2>3 DEF Endings
<1>3. ASSUME NEW how \in Endings \ {"done"}, End(r, how)
      PROVE  /\ left' \in [Requests -> Rest \cup Seq(Stages)]
             /\ \A q \in Requests \ {r} : left'[q] = left[q]
             /\ Ordered(left'[r]) /\ left'[r] # <<"idle">>
             /\ Stage(left'[r]) \in Endings
             /\ \A other \in Stages : ~Has(left'[r], other)
  <2>1. left' = [left EXCEPT ![r] = <<how>>]
    BY <1>3 DEF End
  <2>2. <<how>> \in Rest
    BY DEF Rest, Endings
  <2>3. Ordered(<<how>>) /\ Stage(<<how>>) = how /\ <<how>> # <<"idle">>
        /\ \A other \in Stages : ~Has(<<how>>, other)
    BY OneIsOrdered DEF Endings, Stages
  <2>. QED  BY <2>1, <2>2, <2>3
<1>. QED  BY <1>2, <1>3 DEF Moves, Stages, Endings

\* Every step of a request is such a move, and what it leaves alone.
LEMMA StepMoves ==
  ASSUME Shape, NEW r \in Requests, Step(r) \/ Fail(r)
  PROVE  /\ Moves(r) /\ \E stage \in Stages : Await(r, stage)
         /\ UNCHANGED <<registration, known, everKnown, form, entitled, steady>>
<1>1. CASE Fail(r)
  <2>1. left[r] \in Seq(Stages) /\ left[r] # << >>
    BY <1>1 DEF Fail, Shape, TypeOK, Rest
  <2>2. left[r][1] \in Stages
    BY <2>1, EmptySeq, ElementOfSeq
  <2>. QED  BY <1>1, <2>1, <2>2 DEF Fail, Moves, Endings, Await, world, history, request
<1>2. CASE Step(r)
  BY <1>2 DEF Step, LookupClient, Authenticate, LoadUser, LoadCodeUser, Exchange, LoadOldToken,
              ValidateScopes, FinalizeScopes, RevokeOld, PersistToken, IssueRefreshToken, Moves,
              Endings, Stages, world, history, request
<1>. QED  BY <1>1, <1>2

\* What a step of r writes besides: to its own account, subject and scopes,
\* to its own row when it persists, and to one that is there otherwise.
Writes(r) ==
  /\ account' \in [Requests -> Registrations \cup {None}]
  /\ subject' \in [Requests -> Users \cup {None}]
  /\ granted' \in [Requests -> SUBSET Scopes]
  /\ row' \in [Requests -> Row \cup {None}]
  /\ \A q \in Requests \ {r} : /\ account'[q] = account[q] /\ granted'[q] = granted[q]
                               /\ row[q] = None => row'[q] = None
  /\ account[r] # None => account'[r] # None
  /\ Await(r, "client") => account'[r] # None \/ Stage(left'[r]) \in Endings
  /\ \A q \in Requests : row[q] # None => row'[q] # None
  /\ row[r] = None /\ row'[r] # None => Await(r, "persist")
  /\ \A q \in Requests : row[q] # None => row'[q].scopes = row[q].scopes
  /\ added' \in [Requests -> SUBSET Scopes]
  /\ origin' \in [Requests -> Requests \cup {None}]
  /\ \A q \in Requests \ {r} : added'[q] = added[q] /\ origin'[q] = origin[q]
  /\ Await(r, "persist") /\ Stage(left'[r]) = "refresh" => row'[r] # None

LEMMA StepWrites ==
  ASSUME Shape, NEW r \in Requests, Step(r) \/ Fail(r)
  PROVE  Writes(r)
<1>. USE DEF Shape, TypeOK
<1>0. /\ form[r] \in Inputs /\ form[r] \in Form /\ ClientId(form[r]) \in Clients
      /\ form[r].grant = "refresh_token" <=> form[r].token # None
      /\ form[r].token \in Requests \cup {None}
      /\ \A stage1, stage2 : Await(r, stage1) /\ Await(r, stage2) => stage1 = stage2
      /\ RequestShape(r)
  <2>1. PICK stage \in Stages : Await(r, stage)
    BY StepMoves
  <2>2. left[r] # <<"idle">>
    BY <2>1, AwaitFacts
  <2>3. form[r] \in Inputs
    BY <2>2 DEF RequestShape
  <2>. QED  BY <2>3, InputFacts DEF Form, Await
<1>1. CASE LookupClient(r)
  <2>1. registration[ClientId(form[r])] \in Registrations
    BY <1>0
  <2>2. account'[r] # None \/ Stage(left'[r]) \in Endings
    <3>1. CASE account' = [account EXCEPT ![r] = registration[ClientId(form[r])]]
      BY <2>1, <3>1, Absent
    <3>2. CASE End(r, "invalid_client")
      BY <3>2, OneIsOrdered DEF End, Endings
    <3>. QED  BY <1>1, <3>1, <3>2 DEF LookupClient
  <2>. QED  BY <1>0, <1>1, <2>1, <2>2, Absent DEF LookupClient, Writes, lineage
<1>2. CASE Authenticate(r)
  BY <1>0, <1>2 DEF Authenticate, Writes, request, lineage
<1>3. CASE LoadUser(r) \/ LoadCodeUser(r) \/ Exchange(r)
  BY <1>0, <1>3 DEF LoadUser, LoadCodeUser, Exchange, Writes, lineage
<1>4. CASE LoadOldToken(r)
  <2>1. Has(left[r], "old")
    BY <1>4, AwaitFacts DEF LoadOldToken, Stages
  <2>2. form[r].token # None
    BY <1>0, <2>1, Absent DEF RequestShape
  <2>3. row[form[r].token] \in Row
    BY <1>0, <2>2, Absent DEF RequestShape
  <2>. QED  BY <1>0, <1>4, <2>3 DEF LoadOldToken, OwnerOf, Row, Writes, lineage
<1>5. CASE ValidateScopes(r)
  <2>1. AskedScopes(r) \in SUBSET Scopes
    <3>1. form[r].token # None => row[form[r].token] \in Row
      BY <1>0, Absent DEF RequestShape
    <3>2. form[r].token # None => row[form[r].token].scopes \in SUBSET Scopes
      BY <3>1 DEF Row
    <3>3. form[r].scopes # None => form[r].scopes \in SUBSET Scopes
      BY <1>0 DEF Form
    <3>. QED  BY <3>2, <3>3 DEF AskedScopes
  <2>. QED  BY <1>0, <1>5, <2>1 DEF ValidateScopes, Writes, lineage
<1>6. CASE FinalizeScopes(r)
  <2>1. granted' \in [Requests -> SUBSET Scopes]
        /\ added' \in [Requests -> SUBSET Scopes]
        /\ \A q \in Requests \ {r} : granted'[q] = granted[q] /\ added'[q] = added[q]
    BY <1>6 DEF FinalizeScopes
  <2>. QED  BY <1>0, <1>6, <2>1 DEF FinalizeScopes, Writes
<1>7. CASE RevokeOld(r)
  <2>1. Has(left[r], "revoke")
    BY <1>7, AwaitFacts DEF RevokeOld, Stages
  <2>2. form[r].token # None
    BY <1>0, <2>1, Absent DEF RequestShape
  <2>3. row[form[r].token] \in Row /\ row[form[r].token] # None /\ form[r].token \in Requests
    BY <1>0, <2>2, Absent DEF RequestShape
  <2>4. /\ [row[form[r].token] EXCEPT !.alive = FALSE] \in Row
        /\ [row[form[r].token] EXCEPT !.alive = FALSE] # None
        /\ [row[form[r].token] EXCEPT !.alive = FALSE].scopes = row[form[r].token].scopes
    BY <2>3, Absent DEF Row
  <2>5. row' = [row EXCEPT ![form[r].token] = [row[form[r].token] EXCEPT !.alive = FALSE]]
    BY <1>7 DEF RevokeOld
  <2>. QED  BY <1>0, <1>7, <2>3, <2>4, <2>5 DEF RevokeOld, Writes, request, lineage
<1>8. CASE PersistToken(r)
  <2>. DEFINE new == [client |-> ClientId(form[r]), user |-> subject[r], scopes |-> granted[r],
                      refreshable |-> FALSE, alive |-> TRUE]
  <2>1. Has(left[r], "persist")
    BY <1>8, AwaitFacts DEF PersistToken, Stages
  <2>2. row[r] = None
    BY <1>0, <2>1 DEF RequestShape
  <2>3. new \in Row
    BY <1>0 DEF Row
  <2>4. new # None
    BY <2>3, Absent
  <2>5. row' = [row EXCEPT ![r] = new]
    BY <1>8 DEF PersistToken
  <2>6. origin' \in [Requests -> Requests \cup {None}]
        /\ \A q \in Requests \ {r} : origin'[q] = origin[q]
    BY <1>0, <1>8 DEF PersistToken
  <2>. HIDE DEF new
  <2>7. /\ row' \in [Requests -> Row \cup {None}] /\ row'[r] # None
        /\ \A q \in Requests \ {r} : row'[q] = row[q]
    BY <2>3, <2>4, <2>5
  <2>8. Await(r, "persist") /\ UNCHANGED <<account, subject, granted, added>>
    BY <1>8 DEF PersistToken, request
  <2>. QED  BY <1>0, <2>2, <2>6, <2>7, <2>8 DEF Writes
<1>9. CASE IssueRefreshToken(r)
  <2>1. row[r] # None /\ row[r] \in Row
    BY <1>0, <1>9, AwaitFacts DEF IssueRefreshToken, RequestShape, Stages
  <2>2. /\ [row[r] EXCEPT !.refreshable = TRUE] \in Row
        /\ [row[r] EXCEPT !.refreshable = TRUE] # None
        /\ [row[r] EXCEPT !.refreshable = TRUE].scopes = row[r].scopes
    BY <2>1, Absent DEF Row
  <2>3. row' = [row EXCEPT ![r] = [row[r] EXCEPT !.refreshable = TRUE]]
    BY <1>9 DEF IssueRefreshToken
  <2>. QED  BY <1>0, <1>9, <2>1, <2>2, <2>3 DEF IssueRefreshToken, Writes, request, lineage
<1>10. CASE Fail(r)
  <2>1. Stage(left'[r]) = "failed"
    BY <1>10, OneIsOrdered DEF Fail, End
  <2>. QED  BY <1>10, <2>1 DEF Fail, Writes, request, lineage, Endings
<1>. QED  BY <1>1, <1>2, <1>3, <1>4, <1>5, <1>6, <1>7, <1>8, <1>9, <1>10 DEF Step

LEMMA InitShape == Init => Shape
<1>. SUFFICES ASSUME Init PROVE Shape
  OBVIOUS
<1>1. TypeOK
  BY ConstantsAssumption DEF ConstantsAssumption, Init, TypeOK, Rest
<1>2. ASSUME NEW r \in Requests PROVE RequestShape(r)
  BY OneIsOrdered DEF Init, RequestShape
<1>. QED  BY <1>1, <1>2 DEF Shape

LEMMA ArriveShape ==
  ASSUME Shape, NEW r \in Requests, NEW f \in Inputs, Arrive(r, f)
  PROVE  Shape'
<1>. DEFINE plan == Plan(f.grant)
<1>1. /\ f \in Form /\ f # None /\ (f.grant = "refresh_token" <=> f.token # None)
      /\ f.grant \in Grants \cup Purposes
  BY InputFacts, Absent DEF Form
<1>2. /\ plan \in Seq(Stages) /\ plan # << >> /\ plan[1] = "client" /\ Ordered(plan)
      /\ f.grant \in Purposes => ~Has(plan, "persist")
      /\ f.grant # "refresh_token" => ~Has(plan, "old") /\ ~Has(plan, "revoke")
  BY <1>1, PlanOrdered
<1>3. Stage(plan) = "client" /\ plan # <<"idle">>
  BY <1>2, OneIsOrdered DEF Stage
<1>4. left' = [left EXCEPT ![r] = plan]
  BY DEF Arrive, Plan
<1>. HIDE DEF plan
<1>5. TypeOK'
  <2>1. left' \in [Requests -> Rest \cup Seq(Stages)]
    BY <1>2, <1>4 DEF Shape, TypeOK
  <2>2. UNCHANGED <<registration, known, everKnown, row, account, subject, granted, added, origin>>
        /\ form' = [form EXCEPT ![r] = f]
        /\ entitled' \subseteq entitled \cup {r} /\ steady' = steady \cup {r}
    BY DEF Arrive, world, lineage
  <2>. QED  BY <2>1, <2>2 DEF Shape, TypeOK
<1>6. RequestShape(r)'
  BY <1>1, <1>2, <1>3, <1>4 DEF Shape, TypeOK, Arrive, RequestShape, world
<1>7. ASSUME NEW q \in Requests \ {r} PROVE RequestShape(q)'
  BY <1>4, <1>7 DEF Shape, TypeOK, Arrive, RequestShape, world
<1>. QED  BY <1>5, <1>6, <1>7 DEF Shape

LEMMA StepShape ==
  ASSUME Shape, NEW r \in Requests, Step(r) \/ Fail(r)
  PROVE  Shape'
<1>1. PICK stage \in Stages : Await(r, stage)
  BY StepMoves
<1>2. Writes(r) /\ Moves(r) /\ UNCHANGED <<registration, known, everKnown, form, entitled, steady>>
  BY StepWrites, StepMoves
<1>3. /\ left' \in [Requests -> Rest \cup Seq(Stages)]
      /\ \A q \in Requests \ {r} : left'[q] = left[q]
      /\ Ordered(left'[r]) /\ left'[r] # <<"idle">>
      /\ Stage(left'[r]) = "refresh" => Await(r, "persist")
      /\ Stage(left'[r]) = "valid" => Await(r, "client")
      /\ Await(r, "persist") => ~Has(left'[r], "persist")
      /\ \A other \in Stages : Has(left'[r], other) => Has(left[r], other)
  BY <1>1, <1>2, MoveFacts DEF Await
<1>4. /\ left[r] # <<"idle">>
      /\ \A q \in Requests : form[q] # None => form[q].token \in Requests \cup {None}
  BY <1>1, AwaitFacts, InputFacts DEF Shape, TypeOK, Form
<1>5. TypeOK'
  BY <1>2, <1>3 DEF Shape, TypeOK, Writes
<1>6. RequestShape(r)'
  <2>1. Stage(left'[r]) = "valid" => account'[r] # None
    BY <1>2, <1>3 DEF Writes, Endings
  <2>. QED  BY <1>2, <1>3, <1>4, <2>1 DEF Shape, TypeOK, RequestShape, Writes, Stages
<1>7. ASSUME NEW q \in Requests \ {r} PROVE RequestShape(q)'
  BY <1>2, <1>3, <1>4, <1>7 DEF Shape, TypeOK, RequestShape, Writes
<1>. QED  BY <1>5, <1>6, <1>7 DEF Shape

LEMMA ReregisterShape ==
  ASSUME Shape, NEW c \in Clients, NEW reg \in Registrations, Reregister(c, reg)
  PROVE  Shape'
<1>1. TypeOK'
  BY DEF Shape, TypeOK, Reregister, request, lineage
<1>2. ASSUME NEW q \in Requests PROVE RequestShape(q)'
  BY DEF Shape, RequestShape, Reregister, request
<1>. QED  BY <1>1, <1>2 DEF Shape

LEMMA NextShape == Shape /\ [Next]_vars => Shape'
<1>. SUFFICES ASSUME Shape, [Next]_vars PROVE Shape'
  OBVIOUS
<1>1. CASE \E scopes \in ScopeRegistries : ChangeScopes(scopes)
  BY <1>1, ConstantsAssumption
     DEF ConstantsAssumption, ChangeScopes, Shape, TypeOK, RequestShape, request, history, lineage
<1>2. CASE UNCHANGED vars
  BY <1>2 DEF vars, Shape, TypeOK, RequestShape
<1>. QED  BY <1>1, <1>2, ArriveShape, StepShape, ReregisterShape DEF Next

\* Every variable keeps its type, and a request has behind it the awaits its
\* grant puts before those to come.
THEOREM ShapeInvariant == Spec => []Shape
  BY InitShape, NextShape, PTL DEF Spec

-----------------------------------------------------------------------------
(***************************************************************************)
(* Credentials.  A request whose credentials were never good is turned     *)
(* away by the client's validation at the latest, because the client it    *)
(* read is one that was registered since it arrived.  A request with good  *)
(* ones whose client did not change since reads just that registration.    *)
(***************************************************************************)
GoodAs(f, reg) ==
  /\ reg.secret = None \/ reg.secret \in SentSecrets(f)
  /\ IsRegisteredFor(reg, f.grant)

LEMMA GoodIsGoodAs == \A f, regs : Good(f, regs) <=> GoodAs(f, regs[ClientId(f)])
  BY DEF Good, GoodAs

AuthOk(r) ==
  /\ r \notin entitled => /\ row[r] = None
                          /\ Stage(left[r]) \in
                               {"idle", "client", "valid"} \cup (Endings \ {"done"})
  /\ form[r] # None => /\ Good(form[r], registration) => r \in entitled
                       /\ account[r] # None /\ GoodAs(form[r], account[r]) => r \in entitled
  /\ r \in steady \cap entitled =>
       /\ Good(form[r], registration)
       /\ account[r] \in {None, registration[ClientId(form[r])]}
       /\ form[r].basic = None => left[r] # <<"invalid_client">>

AuthInv == \A r \in Requests : AuthOk(r)

\* The secret the code compares is one that was sent.
LEMMA SecretWasSent ==
  ASSUME NEW f \in Inputs
  PROVE  /\ ClientSecret(f) # None => ClientSecret(f) \in SentSecrets(f)
         /\ f.basic = None => SentSecrets(f) = IF ClientSecret(f) = None THEN {}
                                               ELSE {ClientSecret(f)}
  BY DEF ClientSecret, SentSecrets

\* Whoever is authenticated had good credentials for that registration, and
\* good ones in the body are recognized as such.
LEMMA AuthenticatedIsGood ==
  ASSUME Shape, NEW r \in Requests, form[r] \in Inputs, account[r] \in Registrations
  PROVE  /\ IsAuthenticated(r) => GoodAs(form[r], account[r])
         /\ GoodAs(form[r], account[r]) /\ form[r].basic = None => IsAuthenticated(r)
<1>0. form[r].grant \in Grants \cup Purposes
  BY InputFacts DEF Form
<1>1. ASSUME NEW g \in GrantsAskedFor(r), IsClientValid(account[r], g, ClientSecret(form[r])),
             MayIntrospect(r)
      PROVE  GoodAs(form[r], account[r])
  <2>1. account[r].secret = None \/ account[r].secret \in SentSecrets(form[r])
    BY <1>1, SecretWasSent DEF IsClientValid
  <2>2. g \in account[r].grants
    BY <1>1 DEF IsClientValid
  <2>3. IsRegisteredFor(account[r], form[r].grant)
    BY <1>0, <1>1, <2>2 DEF IsRegisteredFor, GrantsAskedFor, MayIntrospect, Grants, Purposes
  <2>. QED  BY <2>1, <2>3 DEF GoodAs
<1>2. ASSUME GoodAs(form[r], account[r]), form[r].basic = None
      PROVE  /\ \E g \in GrantsAskedFor(r) : IsClientValid(account[r], g, ClientSecret(form[r]))
             /\ MayIntrospect(r)
  <2>1. account[r].secret # None => ClientSecret(form[r]) = account[r].secret
    BY <1>2, SecretWasSent DEF GoodAs
  <2>2. PICK g \in GrantsAskedFor(r) : g \in account[r].grants
    BY <1>0, <1>2 DEF GoodAs, GrantsAskedFor, IsRegisteredFor, Grants, Purposes
  <2>3. MayIntrospect(r)
    BY <1>2 DEF GoodAs, IsRegisteredFor, MayIntrospect
  <2>. QED  BY <2>1, <2>2, <2>3 DEF IsClientValid
<1>. QED  BY <1>1, <1>2 DEF IsAuthenticated

LEMMA InitAuth == Init => AuthInv
  BY OneIsOrdered DEF Init, AuthInv, AuthOk

LEMMA ArriveAuth ==
  ASSUME Shape, AuthInv, NEW r \in Requests, NEW f \in Inputs, Arrive(r, f)
  PROVE  AuthInv'
<1>1. /\ form[r] = None /\ row[r] = None /\ account[r] = None
      /\ form'[r] = f /\ Stage(left'[r]) = "client" /\ left'[r] # <<"invalid_client">>
      /\ UNCHANGED <<registration, row, account>>
      /\ \A q \in Requests \ {r} : form'[q] = form[q] /\ left'[q] = left[q]
  <2>1. f.grant \in Grants \cup Purposes
    BY InputFacts DEF Form
  <2>2. Stage(Plan(f.grant)) = "client"
    BY <2>1, PlanOrdered DEF Stage
  <2>3. left' = [left EXCEPT ![r] = Plan(f.grant)] /\ left[r] = <<"idle">>
        /\ form' = [form EXCEPT ![r] = f] /\ UNCHANGED <<registration, row, account>>
    BY DEF Arrive, Plan, world
  <2>4. Plan(f.grant) # <<"invalid_client">>
    BY <2>2, OneIsOrdered
  <2>. QED  BY <2>2, <2>3, <2>4 DEF Shape, TypeOK, RequestShape
<1>2. AuthOk(r)'
  <2>1. entitled' = IF Good(f, registration) THEN entitled \cup {r} ELSE entitled
    BY DEF Arrive
  <2>2. r \notin entitled
    BY <1>1 DEF Shape, RequestShape
  <2>. QED  BY <1>1, <2>1, <2>2 DEF AuthOk, Good
<1>3. ASSUME NEW q \in Requests \ {r} PROVE AuthOk(q)'
  BY <1>1, <1>3 DEF Arrive, AuthInv, AuthOk, Good
<1>. QED  BY <1>2, <1>3 DEF AuthInv

LEMMA StepAuth ==
  ASSUME Shape, AuthInv, NEW r \in Requests, Step(r) \/ Fail(r)
  PROVE  AuthInv'
<1>1. PICK stage \in Stages : Await(r, stage)
  BY StepMoves
<1>2. Writes(r) /\ Moves(r) /\ UNCHANGED <<registration, known, everKnown, form, entitled, steady>>
  BY StepWrites, StepMoves
<1>3. /\ \A q \in Requests \ {r} : left'[q] = left[q]
      /\ Stage(left'[r]) \in (Stages \cup Endings) \ {"client"}
      /\ stage = "client" => Stage(left'[r]) = "valid" \/ ~Continue(r)
      /\ \/ Continue(r)
         \/ Stage(left'[r]) \in Endings \ {"done"}
      /\ Stage(left[r]) = stage
  <2>1. stage = "client" /\ Continue(r) => Stage(left'[r]) = "valid"
    BY <1>1, AwaitFacts, TailOrdered DEF Shape, TypeOK, RequestShape, Continue
  <2>2. Continue(r) \/ Stage(left'[r]) \in Endings \ {"done"}
    BY <1>2, OneIsOrdered DEF Moves, End, Shape, TypeOK
  <2>. QED  BY <1>1, <1>2, <2>1, <2>2, MoveFacts, AwaitFacts DEF Shape
<1>4. form[r] \in Inputs /\ form[r] # None /\ account[r] \in Registrations \cup {None}
      /\ registration[ClientId(form[r])] \in Registrations /\ AuthOk(r)
  <2>1. form[r] \in Inputs /\ form[r] # None /\ account[r] \in Registrations \cup {None} /\ AuthOk(r)
    BY <1>1, AwaitFacts, Absent DEF Shape, TypeOK, RequestShape, AuthInv
  <2>. QED  BY <2>1, InputFacts DEF Shape, TypeOK
<1>5. \/ account'[r] = account[r]
      \/ Await(r, "client") /\ account'[r] = registration[ClientId(form[r])]
  BY DEF Step, Fail, LookupClient, Authenticate, LoadUser, LoadCodeUser, Exchange, LoadOldToken,
         ValidateScopes, FinalizeScopes, RevokeOld, PersistToken, IssueRefreshToken, request,
         Shape, TypeOK
<1>6. CASE r \notin entitled
  <2>1. stage \in {"client", "valid"}
    BY <1>3, <1>4, <1>6 DEF AuthOk, Endings, Stages
  <2>2. Stage(left'[r]) \in {"valid"} \cup (Endings \ {"done"})
    <3>1. CASE stage = "client"
      BY <1>3, <3>1
    <3>2. CASE Authenticate(r)
      <4>1. account[r] \in Registrations
        BY <1>4, <3>2, AwaitFacts DEF Authenticate, Shape, RequestShape, Stages
      <4>2. ~GoodAs(form[r], account[r])
        BY <1>4, <1>6, <4>1, Absent DEF AuthOk
      <4>3. End(r, "invalid_client")
        BY <1>4, <3>2, <4>1, <4>2, AuthenticatedIsGood DEF Authenticate
      <4>. QED  BY <4>3, OneIsOrdered DEF End, Endings, Shape, TypeOK
    <3>3. CASE Fail(r)
      BY <3>3, OneIsOrdered DEF Fail, End, Endings, Shape, TypeOK
    <3>4. stage = "valid" => Authenticate(r) \/ Fail(r)
      BY <1>1 DEF Await, Step, LookupClient, LoadUser, LoadCodeUser, Exchange, LoadOldToken,
                  ValidateScopes, FinalizeScopes, RevokeOld, PersistToken, IssueRefreshToken
    <3>. QED  BY <2>1, <3>1, <3>2, <3>3, <3>4
  <2>3. row'[r] = None
    BY <1>1, <1>2, <1>4, <1>6, <2>1 DEF AuthOk, Writes, Await
  <2>4. account'[r] # None /\ GoodAs(form[r], account'[r]) => r \in entitled
    BY <1>4, <1>5, GoodIsGoodAs DEF AuthOk
  <2>. QED
    <3>1. AuthOk(r)'
      BY <1>2, <1>4, <1>6, <2>2, <2>3, <2>4 DEF AuthOk, Good, GoodAs
    <3>2. ASSUME NEW q \in Requests \ {r} PROVE AuthOk(q)'
      BY <1>2, <1>3, <3>2 DEF AuthInv, AuthOk, Writes, Good, GoodAs
    <3>. QED  BY <3>1, <3>2 DEF AuthInv
<1>7. CASE r \in entitled
  <2>1. ASSUME r \in steady, form[r].basic = None
        PROVE  left'[r] # <<"invalid_client">>
    <3>1. GoodAs(form[r], registration[ClientId(form[r])])
          /\ account[r] \in {None, registration[ClientId(form[r])]}
      BY <1>4, <1>7, <2>1, GoodIsGoodAs DEF AuthOk
    <3>2. Continue(r) => left'[r] # <<"invalid_client">>
      <4>1. left[r] \in Seq(Stages) /\ left[r] # << >> /\ Ordered(left[r])
        BY <1>1, AwaitFacts DEF Shape, RequestShape
      <4>2. Stage(Tail(left[r])) # "invalid_client"
        BY <4>1, TailOrdered DEF Stages
      <4>. QED  BY <4>2, OneIsOrdered DEF Continue, Shape, TypeOK
    <3>3. CASE LookupClient(r)
      <4>1. registration[ClientId(form[r])].secret = None \/ ClientSecret(form[r]) # None
        BY <1>4, <2>1, <3>1, SecretWasSent DEF GoodAs
      <4>. QED  BY <3>2, <3>3, <4>1 DEF LookupClient
    <3>4. CASE Authenticate(r)
      <4>1. account[r] \in Registrations /\ GoodAs(form[r], account[r])
        BY <1>4, <3>1, <3>4, AwaitFacts DEF Authenticate, Shape, RequestShape, Stages
      <4>. QED  BY <1>4, <2>1, <3>2, <3>4, <4>1, AuthenticatedIsGood DEF Authenticate
    <3>5. CASE ~LookupClient(r) /\ ~Authenticate(r)
      <4>1. Continue(r) \/ \E how \in Endings \ {"done", "invalid_client"} : End(r, how)
        BY <3>5 DEF Step, Fail, LoadUser, LoadCodeUser, Exchange, LoadOldToken, ValidateScopes,
                    FinalizeScopes, RevokeOld, PersistToken, IssueRefreshToken, Endings
      <4>2. ASSUME NEW how \in Endings \ {"done", "invalid_client"}, End(r, how)
            PROVE  left'[r] # <<"invalid_client">>
        BY <4>2, OneIsOrdered DEF End, Shape, TypeOK
      <4>. QED  BY <3>2, <4>1, <4>2
    <3>. QED  BY <3>3, <3>4, <3>5
  <2>2. account'[r] \in {account[r], registration[ClientId(form[r])]}
    BY <1>5
  <2>. QED
    <3>1. AuthOk(r)'
      BY <1>2, <1>4, <1>7, <2>1, <2>2 DEF AuthOk, Good, GoodAs
    <3>2. ASSUME NEW q \in Requests \ {r} PROVE AuthOk(q)'
      BY <1>2, <1>3, <3>2 DEF AuthInv, AuthOk, Writes, Good, GoodAs
    <3>. QED  BY <3>1, <3>2 DEF AuthInv
<1>. QED  BY <1>6, <1>7

LEMMA ReregisterAuth ==
  ASSUME Shape, AuthInv, NEW c \in Clients, NEW reg \in Registrations, Reregister(c, reg)
  PROVE  AuthInv'
<1>. SUFFICES ASSUME NEW q \in Requests PROVE AuthOk(q)'
  BY DEF AuthInv
<1>1. /\ registration' = [registration EXCEPT ![c] = reg]
      /\ UNCHANGED <<row, left, form, account>>
      /\ entitled \subseteq entitled'
      /\ form[q] # None /\ ClientId(form[q]) = c /\ Good(form[q], registration') => q \in entitled'
      /\ q \in steady' => q \in steady /\ ClientId(form[q]) # c
      /\ q \in entitled' => q \in entitled \/ ClientId(form[q]) = c
  BY DEF Reregister, request
<1>2. form[q] # None /\ ClientId(form[q]) # c =>
        registration'[ClientId(form[q])] = registration[ClientId(form[q])]
  BY <1>1 DEF Shape, TypeOK
<1>3. q \in steady => form[q] # None
  BY DEF Shape, RequestShape
<1>4. AuthOk(q)
  BY DEF AuthInv
<1>. QED  BY <1>1, <1>2, <1>3, <1>4, GoodIsGoodAs DEF AuthOk

LEMMA NextAuth == Shape /\ AuthInv /\ [Next]_vars => AuthInv'
<1>. SUFFICES ASSUME Shape, AuthInv, [Next]_vars PROVE AuthInv'
  OBVIOUS
<1>1. CASE (\E scopes \in ScopeRegistries : ChangeScopes(scopes)) \/ UNCHANGED vars
  <2>1. UNCHANGED <<registration, row, left, form, account, entitled, steady>>
    BY <1>1 DEF ChangeScopes, request, history, vars
  <2>. QED  BY <2>1 DEF AuthInv, AuthOk, Good, GoodAs
<1>. QED  BY <1>1, ArriveAuth, StepAuth, ReregisterAuth DEF Next

\* No token is issued to a request whose credentials were not good at some
\* moment since it arrived, and none is let through to introspect or revoke;
\* and one with good credentials in the body, whose client stays as it is, is
\* not refused for what that client may not do elsewhere.
THEOREM CredentialsDecideAll == Spec => []CredentialsDecide
<1>1. ASSUME Shape, AuthInv PROVE CredentialsDecide
  BY <1>1 DEF AuthInv, AuthOk, Shape, TypeOK, CredentialsDecide, NoLateAuthentication,
              GoodCredentialsPass, Stage, Endings
<1>2. Init => Shape /\ AuthInv
  BY InitShape, InitAuth
<1>3. Shape /\ AuthInv /\ [Next]_vars => (Shape /\ AuthInv)'
  BY NextShape, NextAuth
<1>. QED  BY <1>1, <1>2, <1>3, PTL DEF Spec

-----------------------------------------------------------------------------
(***************************************************************************)
(* Scopes.  Only the authorization code grant recognizes a scope that is   *)
(* not registered; whatever else is on a token, and was not registered,    *)
(* the finalize hook put there.  A refresh stays within the token it was   *)
(* given, so what it carries unregistered was there when the line began.   *)
(***************************************************************************)
Unregistered(r, q) ==
  form[q].grant # "authorization_code" => row[r].scopes \subseteq everKnown \cup added[q]

ScopesOk(r) ==
  /\ form[r] # None /\ form[r].grant # "authorization_code" =>
       granted[r] \subseteq everKnown \cup added[r]
  /\ form[r] # None /\ form[r].token # None /\ Stage(left[r]) \in {"revoke", "persist"} =>
       granted[r] \subseteq row[form[r].token].scopes
  /\ row[r] # None => /\ origin[r] \in Requests /\ form[origin[r]] # None
                      /\ Unregistered(r, r) /\ Unregistered(r, origin[r])

ScopesInv == known \subseteq everKnown /\ \A r \in Requests : ScopesOk(r)

LEMMA InitScopes == Init => ScopesInv
  BY DEF Init, ScopesInv, ScopesOk

LEMMA ArriveScopes ==
  ASSUME Shape, ScopesInv, NEW r \in Requests, NEW f \in Inputs, Arrive(r, f)
  PROVE  ScopesInv'
<1>1. /\ form[r] = None /\ row[r] = None /\ granted[r] = {}
      /\ UNCHANGED <<known, everKnown, row, granted, added, origin>>
      /\ \A q \in Requests \ {r} : form'[q] = form[q] /\ left'[q] = left[q]
  BY DEF Arrive, world, lineage, Shape, TypeOK, RequestShape
<1>2. ASSUME NEW q \in Requests PROVE ScopesOk(q)'
  <2>1. row[q] # None => q # r /\ origin[q] # r
    BY <1>1 DEF ScopesInv, ScopesOk
  <2>2. q # r => form'[q] = form[q] /\ left'[q] = left[q]
    BY <1>1
  <2>3. row[q] # None =>
          /\ origin[q] \in Requests /\ form'[origin[q]] = form[origin[q]]
          /\ form[origin[q]] # None
    BY <1>1, <2>1 DEF ScopesInv, ScopesOk
  <2>. QED  BY <1>1, <2>1, <2>2, <2>3 DEF ScopesInv, ScopesOk, Unregistered
<1>. QED  BY <1>1, <1>2 DEF ScopesInv

LEMMA StepScopes ==
  ASSUME Shape, ScopesInv, NEW r \in Requests, Step(r) \/ Fail(r)
  PROVE  ScopesInv'
<1>1. Writes(r) /\ Moves(r) /\ UNCHANGED <<registration, known, everKnown, form, entitled, steady>>
  BY StepWrites, StepMoves
<1>2. PICK stage \in Stages : Await(r, stage)
  BY StepMoves
<1>3. /\ form[r] \in Inputs /\ form[r] # None /\ form[r].token \in Requests \cup {None}
      /\ form[r].grant = "refresh_token" <=> form[r].token # None
      /\ form[r].token # None => row[form[r].token] # None
  <2>1. form[r] \in Inputs /\ form[r] # None
    BY <1>2, AwaitFacts, Absent DEF Shape, TypeOK, RequestShape
  <2>. QED  BY <2>1, InputFacts DEF Form, Shape, RequestShape
<1>4. /\ \A q \in Requests \ {r} : left'[q] = left[q]
      /\ Stage(left'[r]) = "revoke" => stage = "finalize"
      /\ Stage(left'[r]) = "persist" => stage \in {"finalize", "revoke"}
  BY <1>1, <1>2, MoveFacts
<1>5. /\ Await(r, "scopes") \/ Await(r, "finalize") \/ UNCHANGED granted
      /\ Await(r, "finalize") \/ UNCHANGED added
      /\ Await(r, "persist") \/ UNCHANGED origin
  BY DEF Step, Fail, LookupClient, Authenticate, LoadUser, LoadCodeUser, Exchange, LoadOldToken,
         ValidateScopes, FinalizeScopes, RevokeOld, PersistToken, IssueRefreshToken, request,
         lineage
<1>6. \A s1, s2 : Await(r, s1) /\ Await(r, s2) => s1 = s2
  BY DEF Await
<1>7. added'[r] \in SUBSET Scopes /\ \A q \in Requests : added[q] \subseteq added'[q]
  <2>1. CASE FinalizeScopes(r)
    BY <1>1, <2>1 DEF FinalizeScopes, Writes, Shape, TypeOK
  <2>2. CASE ~FinalizeScopes(r)
    <3>1. UNCHANGED added
      BY <2>2 DEF Step, Fail, LookupClient, Authenticate, LoadUser, LoadCodeUser, Exchange,
                  LoadOldToken, ValidateScopes, RevokeOld, PersistToken, IssueRefreshToken,
                  lineage
    <3>. QED  BY <1>1, <3>1 DEF Writes
  <2>. QED  BY <2>1, <2>2
<1>8. form[r].grant # "authorization_code" => granted'[r] \subseteq everKnown \cup added'[r]
  <2>1. SUFFICES ASSUME form[r].grant # "authorization_code"
                 PROVE  granted'[r] \subseteq everKnown \cup added'[r]
    OBVIOUS
  <2>2. granted[r] \subseteq everKnown \cup added[r]
    BY <1>3, <2>1 DEF ScopesInv, ScopesOk
  <2>3. CASE ValidateScopes(r)
    BY <1>7, <2>1, <2>2, <2>3
       DEF ValidateScopes, ScopesAreValid, AutoRecognized, ScopesInv, Shape, TypeOK
  <2>4. CASE FinalizeScopes(r)
    <3>1. CASE UNCHANGED <<granted, added>>
      BY <2>2, <3>1
    <3>2. ASSUME NEW scopes \in SUBSET Scopes, granted' = [granted EXCEPT ![r] = scopes],
                 added' = [added EXCEPT ![r] = @ \cup (scopes \ granted[r])]
          PROVE  granted'[r] \subseteq everKnown \cup added'[r]
      BY <2>2, <3>2 DEF Shape, TypeOK
    <3>. QED  BY <2>4, <3>1, <3>2 DEF FinalizeScopes
  <2>5. CASE ~ValidateScopes(r) /\ ~FinalizeScopes(r)
    <3>1. UNCHANGED granted
      BY <2>5 DEF Step, Fail, LookupClient, Authenticate, LoadUser, LoadCodeUser, Exchange,
                  LoadOldToken, RevokeOld, PersistToken, IssueRefreshToken, request
    <3>. QED  BY <1>7, <2>2, <3>1
  <2>. QED  BY <2>3, <2>4, <2>5
<1>9. form[r].token # None /\ Stage(left'[r]) \in {"revoke", "persist"} =>
        granted'[r] \subseteq row'[form[r].token].scopes
  <2>1. SUFFICES ASSUME form[r].token # None, Stage(left'[r]) \in {"revoke", "persist"}
                 PROVE  granted'[r] \subseteq row'[form[r].token].scopes
    OBVIOUS
  <2>2. row'[form[r].token].scopes = row[form[r].token].scopes
    BY <1>1, <1>3, <2>1 DEF Writes
  <2>3. Await(r, "finalize") \/ Await(r, "revoke")
    BY <1>2, <1>4, <2>1
  <2>4. CASE Await(r, "revoke")
    <3>1. granted[r] \subseteq row[form[r].token].scopes
      BY <1>3, <2>1, <2>4, AwaitFacts DEF Shape, ScopesInv, ScopesOk, Stages
    <3>2. UNCHANGED granted
      BY <1>5, <1>6, <2>4
    <3>. QED  BY <2>2, <3>1, <3>2
  <2>5. CASE Await(r, "finalize")
    <3>1. CASE Fail(r)
      BY <2>1, <3>1, OneIsOrdered DEF Fail, End, Shape, TypeOK
    <3>2. CASE FinalizeScopes(r)
      <4>1. CASE End(r, "invalid_scope")
        BY <2>1, <4>1, OneIsOrdered DEF End, Shape, TypeOK
      <4>2. ASSUME NEW scopes \in SUBSET Scopes, granted' = [granted EXCEPT ![r] = scopes],
                   scopes \subseteq row[form[r].token].scopes
            PROVE  granted'[r] \subseteq row'[form[r].token].scopes
        BY <2>2, <4>2 DEF Shape, TypeOK
      <4>. QED  BY <2>1, <3>2, <4>1, <4>2 DEF FinalizeScopes
    <3>. QED
      <4>1. FinalizeScopes(r) \/ Fail(r)
        BY <2>5 DEF Await, Step, LookupClient, Authenticate, LoadUser, LoadCodeUser, Exchange,
                    LoadOldToken, ValidateScopes, RevokeOld, PersistToken, IssueRefreshToken
      <4>. QED  BY <3>1, <3>2, <4>1
  <2>. QED  BY <2>3, <2>4, <2>5
\* A row stays with the scopes and the origin it was stored with.
<1>10. ASSUME NEW q \in Requests, row[q] # None, ~(PersistToken(r) /\ q = r)
       PROVE  /\ row'[q].scopes = row[q].scopes /\ origin'[q] = origin[q]
  <2>1. row'[q].scopes = row[q].scopes
    BY <1>1, <1>10 DEF Writes
  <2>2. CASE q = r
    <3>1. UNCHANGED origin
      BY <1>10, <2>2 DEF Step, Fail, LookupClient, Authenticate, LoadUser, LoadCodeUser, Exchange,
                         LoadOldToken, ValidateScopes, FinalizeScopes, RevokeOld,
                         IssueRefreshToken, lineage
    <3>. QED  BY <2>1, <3>1
  <2>3. CASE q # r
    BY <1>1, <2>1, <2>3 DEF Writes
  <2>. QED  BY <2>2, <2>3
<1>11. ASSUME NEW q \in Requests, row'[q] # None
       PROVE  /\ origin'[q] \in Requests /\ form[origin'[q]] # None
              /\ Unregistered(q, q)' /\ Unregistered(q, origin[q])'
  <2>1. CASE PersistToken(r) /\ q = r
    <3>1. /\ row'[r].scopes = granted[r] /\ granted' = granted
          /\ origin'[r] = IF form[r].token # None THEN origin[form[r].token] ELSE r
          /\ Await(r, "persist")
      BY <2>1 DEF PersistToken, Shape, TypeOK, request
    <3>2. Unregistered(r, r)'
      BY <1>1, <1>8, <3>1 DEF Unregistered
    <3>3. CASE form[r].token = None
      BY <1>3, <2>1, <3>1, <3>2, <3>3
    <3>4. CASE form[r].token # None
      <4>. DEFINE t == form[r].token
      <4>1. /\ t \in Requests /\ row[t] # None
            /\ origin[t] \in Requests /\ form[origin[t]] # None /\ Unregistered(t, origin[t])
        BY <1>3, <3>4 DEF ScopesInv, ScopesOk
      <4>2. granted[r] \subseteq row[t].scopes
        BY <1>3, <3>1, <3>4, AwaitFacts DEF Shape, ScopesInv, ScopesOk, Stages
      <4>3. origin'[r] = origin[t]
        BY <3>1, <3>4
      <4>4. form[origin[t]].grant # "authorization_code" =>
              row'[r].scopes \subseteq everKnown' \cup added'[origin[t]]
        BY <1>1, <1>7, <3>1, <4>1, <4>2 DEF Unregistered
      <4>5. Unregistered(r, origin[r])'
        BY <1>1, <4>3, <4>4 DEF Unregistered
      <4>. QED  BY <2>1, <3>2, <4>1, <4>3, <4>5
    <3>. QED  BY <3>3, <3>4
  <2>2. CASE ~(PersistToken(r) /\ q = r)
    <3>1. row[q] # None
      <4>1. CASE row[q] = None
        <5>1. q = r /\ Await(r, "persist")
          BY <1>1, <1>11, <4>1 DEF Writes
        <5>2. UNCHANGED row
          BY <2>2, <5>1 DEF Await, Step, Fail, LookupClient, Authenticate, LoadUser, LoadCodeUser,
                            Exchange, LoadOldToken, ValidateScopes, FinalizeScopes, RevokeOld,
                            IssueRefreshToken
        <5>. QED  BY <1>11, <4>1, <5>2
      <4>. QED  BY <4>1
    <3>2. row'[q].scopes = row[q].scopes /\ origin'[q] = origin[q]
      BY <1>10, <2>2, <3>1
    <3>3. /\ origin[q] \in Requests /\ form[origin[q]] # None
          /\ Unregistered(q, q) /\ Unregistered(q, origin[q])
      BY <3>1 DEF ScopesInv, ScopesOk
    <3>4. added[q] \subseteq added'[q] /\ added[origin[q]] \subseteq added'[origin[q]]
      BY <1>7, <3>3
    <3>. QED  BY <1>1, <3>2, <3>3, <3>4 DEF Unregistered
  <2>. QED  BY <2>1, <2>2
<1>12. ASSUME NEW q \in Requests PROVE ScopesOk(q)'
  <2>1. CASE q = r
    BY <1>1, <1>8, <1>9, <1>11, <2>1 DEF ScopesOk
  <2>2. CASE q # r
    <3>1. /\ granted'[q] = granted[q] /\ added'[q] = added[q] /\ left'[q] = left[q]
          /\ form' = form
      BY <1>1, <1>4, <2>2 DEF Writes
    <3>2. form[q] # None => form[q].token \in Requests \cup {None}
                            /\ (form[q].token # None => row[form[q].token] # None)
      BY InputFacts DEF Shape, TypeOK, RequestShape, Form
    <3>3. form[q] # None /\ form[q].token # None =>
            row'[form[q].token].scopes = row[form[q].token].scopes
      BY <1>1, <3>2 DEF Writes
    <3>. QED  BY <1>1, <1>11, <3>1, <3>3 DEF ScopesInv, ScopesOk
  <2>. QED  BY <2>1, <2>2
<1>. QED  BY <1>1, <1>12 DEF ScopesInv

LEMMA NextScopes == Shape /\ ScopesInv /\ [Next]_vars => ScopesInv'
<1>. SUFFICES ASSUME Shape, ScopesInv, [Next]_vars PROVE ScopesInv'
  OBVIOUS
<1>1. CASE (\E c \in Clients, reg \in Registrations : Reregister(c, reg)) \/ UNCHANGED vars
  <2>1. UNCHANGED <<known, everKnown, row, left, form, granted, added, origin>>
    BY <1>1 DEF Reregister, request, lineage, vars
  <2>. QED  BY <2>1 DEF ScopesInv, ScopesOk, Unregistered
<1>2. CASE \E scopes \in ScopeRegistries : ChangeScopes(scopes)
  <2>1. /\ known' \subseteq everKnown' /\ everKnown \subseteq everKnown'
        /\ UNCHANGED <<row, left, form, granted, added, origin>>
    BY <1>2 DEF ChangeScopes, request, lineage
  <2>. QED  BY <2>1 DEF ScopesInv, ScopesOk, Unregistered
<1>. QED  BY <1>1, <1>2, ArriveScopes, StepScopes DEF Next

\* A scope that was never registered is on a token of any grant but the code's
\* only because the finalize hook added it: to the token that began its line,
\* and to this one.  No request of theirs gets it by asking.
THEOREM OidcScopesStay == Spec => []OidcScopesStayWithCodes
<1>1. ScopesInv => OidcScopesStayWithCodes
  BY DEF ScopesInv, ScopesOk, Unregistered, OidcScopesStayWithCodes
<1>2. Init => Shape /\ ScopesInv
  BY InitShape, InitScopes
<1>3. Shape /\ ScopesInv /\ [Next]_vars => (Shape /\ ScopesInv)'
  BY NextShape, NextScopes
<1>. QED  BY <1>1, <1>2, <1>3, PTL DEF Spec
=============================================================================
