------------------------ MODULE ServerDispatchProofs ------------------------
(***************************************************************************)
(* Proofs about the server between the framework and the grants: the table *)
(* of grants, for any requests, custom grants, repositories and TTLs and   *)
(* any calls of enableGrantTypes, and the handlers of the four adapters    *)
(* around its endpoints, whatever redirect URIs they answer with.          *)
(***************************************************************************)
EXTENDS ServerDispatch, HttpAdapters, SequenceTheorems, FiniteSetTheorems,
        WellFoundedInduction, TLAPS

-----------------------------------------------------------------------------
(***************************************************************************)
(* The table.                                                              *)
(***************************************************************************)
Tables == [order : Seq(Identifiers), instance : [Identifiers -> Instance],
           ttl : [Identifiers -> TTLs], built : Nat]

NoneTwice(s) == \A i, j \in DOMAIN s.order : s.order[i] = s.order[j] => i = j

Table(s) == s \in Tables /\ NoneTwice(s)

\* Enabling a grant adds it to the table and touches no other.
LEMMA EnableAdds ==
  ASSUME NEW s, Table(s), NEW e \in Entry, e.grant # None
  PROVE  /\ Table(Enable(s, e))
         /\ Enable(s, e).built <= s.built + 1
         /\ Enabled(Enable(s, e)) = Enabled(s) \cup {e.grant}
         /\ \A g \in Identifiers \ {e.grant} : ServingOf(Enable(s, e), g) = ServingOf(s, g)
<1>. DEFINE g0 == e.grant
            builds == g0 \in {"authorization_code", "password", "token_exchange"}
            built == IF builds THEN s.built + 1 ELSE s.built
            order == IF g0 \in Enabled(s) THEN s.order ELSE Append(s.order, g0)
            new == [version |-> IF builds THEN built ELSE 0, codes |-> e.codes]
<1>1. /\ s.order \in Seq(Identifiers) /\ s.instance \in [Identifiers -> Instance]
      /\ s.ttl \in [Identifiers -> TTLs] /\ s.built \in Nat
      /\ s = [order |-> s.order, instance |-> s.instance, ttl |-> s.ttl, built |-> s.built]
  BY DEF Table, Tables
<1>2. g0 \in Identifiers /\ e.ttl \in TTLs /\ e.codes \in Repositories \cup {None}
  BY DEF Entry
<1>3. built \in Nat /\ built <= s.built + 1 /\ new \in Instance
  BY <1>1, <1>2 DEF Instance
<1>4. Enable(s, e) = [order |-> order, instance |-> [s.instance EXCEPT ![g0] = new],
                      ttl |-> [s.ttl EXCEPT ![g0] = e.ttl], built |-> built]
  <2>1. Entered(s, e) = [s EXCEPT !.built = built, !.order = order, !.instance[g0] = new]
    BY DEF Entered
  <2>. HIDE DEF built, order, new
  <2>2. Entered(s, e) = [order |-> order, instance |-> [s.instance EXCEPT ![g0] = new],
                         ttl |-> s.ttl, built |-> built]
    BY <1>1, <2>1
  <2>. QED  BY <2>2 DEF Enable
<1>5. order \in Seq(Identifiers)
  BY <1>1, <1>2
<1>6. Enable(s, e) \in Tables
  <2>1. /\ [s.instance EXCEPT ![g0] = new] \in [Identifiers -> Instance]
        /\ [s.ttl EXCEPT ![g0] = e.ttl] \in [Identifiers -> TTLs]
    <3>. HIDE DEF new
    <3>. QED  BY <1>1, <1>2, <1>3
  <2>. HIDE DEF order, built, new
  <2>. QED  BY <1>3, <1>4, <1>5, <2>1 DEF Tables
<1>7. /\ \A i, j \in DOMAIN order : order[i] = order[j] => i = j
      /\ {order[i] : i \in DOMAIN order} = Enabled(s) \cup {g0}
  <2>1. CASE g0 \in Enabled(s)
    BY <2>1 DEF Table, NoneTwice, Enabled
  <2>2. CASE g0 \notin Enabled(s)
    <3>1. /\ DOMAIN order = DOMAIN s.order \cup {Len(s.order) + 1}
          /\ \A i \in DOMAIN s.order : order[i] = s.order[i] /\ order[i] # g0
          /\ order[Len(s.order) + 1] = g0
      BY <1>1, <1>2, <2>2 DEF Enabled
    <3>2. \A i, j \in DOMAIN order : order[i] = order[j] => i = j
      BY <3>1 DEF Table, NoneTwice
    <3>3. {order[i] : i \in DOMAIN order} = Enabled(s) \cup {g0}
      BY <3>1 DEF Enabled
    <3>. QED  BY <3>2, <3>3
  <2>. QED  BY <2>1, <2>2
<1>8. \A g \in Identifiers \ {g0} : ServingOf(Enable(s, e), g) = ServingOf(s, g)
  BY <1>1, <1>2, <1>4 DEF ServingOf
<1>. HIDE DEF order, built, new
<1>. QED  BY <1>3, <1>4, <1>6, <1>7, <1>8 DEF Table, NoneTwice, Enabled

\* What stands in a table is a grant, with an instance and a TTL.
LEMMA EnabledType ==
  ASSUME NEW s, Table(s), NEW g \in Enabled(s)
  PROVE  g \in Identifiers /\ ServingOf(s, g) \in Serving
<1>1. PICK i \in DOMAIN s.order : g = s.order[i]
  BY DEF Enabled
<1>2. g \in Identifiers
  BY <1>1 DEF Table, Tables
<1>. QED  BY <1>2 DEF Table, Tables, ServingOf, Serving

\* The constructor's table is one.
LEMMA ConstructedTable ==
  ASSUME NEW n \in Nat
  PROVE  /\ Table(Constructed(n)) /\ Constructed(n).built = n
<1>. DEFINE bare == [NoGrants EXCEPT !.built = n]
            first == Enable(bare, Named("client_credentials"))
<1>1. bare = [order |-> << >>, built |-> n,
              instance |-> [g \in Identifiers |-> [version |-> 0, codes |-> None]],
              ttl |-> [g \in Identifiers |-> DefaultTTL]]
  BY DEF NoGrants
<1>2. Table(bare)
  <2>1. [version |-> 0, codes |-> None] \in Instance
    BY DEF Instance
  <2>2. bare \in Tables
    <3>1. << >> \in Seq(Identifiers)
      OBVIOUS
    <3>2. [g \in Identifiers |-> [version |-> 0, codes |-> None]] \in [Identifiers -> Instance]
      BY <2>1
    <3>3. [g \in Identifiers |-> DefaultTTL] \in [Identifiers -> TTLs]
      BY ConstantsAssumption
    <3>. HIDE DEF bare
    <3>. QED  BY <1>1, <3>1, <3>2, <3>3 DEF Tables
  <2>. QED  BY <1>1, <2>2 DEF Table, NoneTwice
<1>3. /\ Named("client_credentials") \in Entry /\ Named("refresh_token") \in Entry
      /\ Named("client_credentials").grant # None /\ Named("refresh_token").grant # None
  BY ConstantsAssumption DEF Named, Entry, Identifiers, BuiltIn
<1>4. Table(first)
  BY <1>2, <1>3, EnableAdds
<1>5. Table(Constructed(n))
  BY <1>3, <1>4, EnableAdds DEF Constructed
<1>6. first.built = n
  BY <1>1 DEF Enable, Entered, Named
<1>7. Enable(first, Named("refresh_token")).built = n
  <2>. HIDE DEF first
  <2>. QED  BY <1>4, <1>6 DEF Enable, Entered, Named, Table, Tables
<1>. QED  BY <1>5, <1>7 DEF Constructed

-----------------------------------------------------------------------------
(***************************************************************************)
(* Finding a grant.                                                        *)
(***************************************************************************)
LEMMA LeastOfNaturals ==
  ASSUME NEW S, S \subseteq Nat, S # {}
  PROVE  \E n \in S : \A m \in S : n <= m
<1>. DEFINE R == OpToRel(<, Nat)
<1>1. IsWellFoundedOn(R, Nat)
  BY NatLessThanWellFounded
<1>2. \A m, n \in Nat : <<m, n>> \in R <=> m < n
  BY DEF OpToRel
<1>. HIDE DEF R
<1>3. PICK n \in S : \A m \in S : ~(<<m, n>> \in R)
  BY <1>1, WFMin
<1>4. \A m \in S : ~(m < n)
  BY <1>2, <1>3
<1>. QED  BY <1>4

\* The grant that is found is enabled and answers the request.
LEMMA FoundResponds ==
  ASSUME Table(server), NEW f, FindGrantFor(f) # None
  PROVE  FindGrantFor(f) \in Enabled(server) /\ CanRespond(FindGrantFor(f), f)
<1>. DEFINE able == {i \in DOMAIN server.order : CanRespond(server.order[i], f)}
<1>1. able # {} /\ FindGrantFor(f) = server.order[CHOOSE i \in able : \A j \in able : i <= j]
  BY DEF FindGrantFor
<1>2. able \subseteq Nat
  BY DEF Table, Tables
<1>3. \E i \in able : \A j \in able : i <= j
  <2>. HIDE DEF able
  <2>. QED  BY <1>1, <1>2, LeastOfNaturals
<1>4. (CHOOSE i \in able : \A j \in able : i <= j) \in able
  <2>. HIDE DEF able
  <2>. QED  BY <1>3
<1>. QED  BY <1>1, <1>4 DEF Enabled

\* No two grants answer one request, in whatever table.
LEMMA OneResponder ==
  ASSUME NEW f \in Form, NEW g, NEW h, CanRespond(g, f), CanRespond(h, f)
  PROVE  g = h
  BY DEF CanRespond

LEMMA AtMostOneResponder == SoleResponder
<1>. SUFFICES ASSUME NEW f \in Inputs
              PROVE  Cardinality({g \in Enabled(server) : CanRespond(g, f)}) <= 1
  BY DEF SoleResponder
<1>. DEFINE able == {g \in Enabled(server) : CanRespond(g, f)}
<1>1. CASE able = {}
  BY <1>1, FS_EmptySet
<1>2. CASE able # {}
  <2>1. PICK g \in able : TRUE
    BY <1>2
  <2>2. able = {g}
    BY <2>1, OneResponder, ConstantsAssumption
  <2>. QED  BY <2>2, FS_Singleton
<1>. QED  BY <1>1, <1>2

-----------------------------------------------------------------------------
(***************************************************************************)
(* The inductive invariant.  What is enabled now was enabled by one call;  *)
(* what a handler holds was so too, and answers its request; and until a   *)
(* restart the table has lost nothing a handler or a session counts on.    *)
(***************************************************************************)
Shape == TypeOK /\ server.built + Len(batch) <= MaxInstances

TableIsKnown == \A g \in Enabled(server) : ServingOf(server, g) \in enablings

Attended == {"serving", "session", "completing"}

RequestOK(q) ==
  /\ pc[q] \in Attended =>
       /\ form[q] \in Form
       /\ serving[q] \in enablings
       /\ CanRespond(serving[q].grant, form[q])
       /\ pc[q] # "serving" => form[q].endpoint = "authorize"
       /\ restarts = 0 => serving[q].grant \in Enabled(server)
  /\ restarts = 0 => pc[q] # "not_enabled"
  /\ issued[q] # None =>
       /\ pc[q] = "answered"
       /\ form[q].endpoint = "token" => issued[q].by \in enablings
       /\ form[q].endpoint = "authorize" => issued[q].what = form[q].asks
  /\ q \in known =>
       /\ pc[q] \notin {"idle", "unknown_code"}
       /\ pc[q] = "serving" => OnFile(serving[q].instance, form[q].code)

Inv == Shape /\ TableIsKnown /\ \A q \in Requests : RequestOK(q)

LEMMA ShapeTable ==
  ASSUME Shape
  PROVE  Table(server)
  BY DEF Shape, TypeOK, Table, Tables, NoneTwice

LEMMA InitInv ==
  ASSUME Init
  PROVE  Inv
<1>1. Table(server) /\ server.built = 0
  BY ConstructedTable DEF Init
<1>2. enablings \subseteq Serving /\ TableIsKnown
  BY <1>1, EnabledType DEF Init, TableIsKnown
<1>3. Shape
  <2>1. 0 \in 0 .. MaxInstances /\ 0 \in 0 .. MaxRestarts /\ << >> \in Seq(Entry)
    BY ConstantsAssumption
  <2>5. Len(batch) = 0
    BY DEF Init
  <2>2. /\ stored \in [Repositories -> SUBSET Requests]
        /\ form \in [Requests -> Form \cup {None}]
        /\ serving \in [Requests -> Serving \cup {None}]
        /\ issued \in [Requests -> Issued \cup {None}]
        /\ restarts \in 0 .. MaxRestarts /\ batch \in Seq(Entry)
        /\ known \subseteq Requests
    BY <2>1 DEF Init
  <2>3. server \in [order : Seq(Identifiers), instance : [Identifiers -> Instance],
                    ttl : [Identifiers -> TTLs], built : 0 .. MaxInstances]
    BY <1>1, <2>1 DEF Table, Tables
  <2>. QED  BY <1>1, <1>2, <2>1, <2>2, <2>3, <2>5 DEF Init, Shape, TypeOK, Table, NoneTwice
<1>4. \A q \in Requests : RequestOK(q)
  BY DEF Init, RequestOK, Attended
<1>. QED  BY <1>2, <1>3, <1>4 DEF Inv

\* A request a step is not about stays as it is, while codes are only added
\* and the table and what was enabled only grow.
LEMMA BystanderOK ==
  ASSUME NEW q \in Requests, RequestOK(q),
         pc'[q] = pc[q], form'[q] = form[q], serving'[q] = serving[q],
         issued'[q] = issued[q], q \in known' => q \in known,
         Enabled(server) \subseteq Enabled(server') \/ restarts' # 0,
         restarts' = 0 => restarts = 0,
         enablings \subseteq enablings',
         \A c \in Repositories : stored[c] \subseteq stored'[c]
  PROVE  RequestOK(q)'
<1>1. ASSUME NEW i, NEW c, OnFile(i, c)
      PROVE  OnFile(i, c)'
  BY <1>1 DEF OnFile
<1>. QED  BY <1>1 DEF RequestOK

LEMMA TurnInv ==
  ASSUME Inv, NEW entries \in Seq(Entry), entries # << >>,
         server.built + Len(entries) <= MaxInstances,
         Turn(Head(entries), Tail(entries)),
         UNCHANGED <<stored, pc, form, serving, issued, restarts, known>>
  PROVE  Inv'
<1>. DEFINE e == Head(entries)
<1>1. e \in Entry /\ Tail(entries) \in Seq(Entry) /\ Len(Tail(entries)) = Len(entries) - 1
  OBVIOUS
<1>2. Table(server) /\ server.built \in Nat /\ MaxInstances \in Nat /\ enablings \subseteq Serving
  BY ShapeTable, ConstantsAssumption DEF Inv, Shape, TypeOK
<1>3. CASE e.grant = None
  <2>1. batch' = << >> /\ UNCHANGED <<server, enablings>>
    BY <1>3 DEF Turn
  <2>2. Shape'
    BY <1>2, <2>1 DEF Inv, Shape, TypeOK
  <2>3. TableIsKnown'
    BY <2>1 DEF Inv, TableIsKnown, ServingOf, Enabled
  <2>4. \A q \in Requests : RequestOK(q)'
    BY <2>1 DEF Inv, RequestOK, OnFile, Enabled
  <2>. QED  BY <2>2, <2>3, <2>4 DEF Inv
<1>4. CASE e.grant # None
  <2>1. /\ server' = Enable(server, e) /\ batch' = Tail(entries)
        /\ enablings' = enablings \cup {ServingOf(server', e.grant)}
    BY <1>4 DEF Turn
  <2>2. /\ Table(server') /\ server'.built <= server.built + 1 /\ server'.built \in Nat
        /\ Enabled(server') = Enabled(server) \cup {e.grant}
        /\ \A g \in Identifiers \ {e.grant} : ServingOf(server', g) = ServingOf(server, g)
    <3>1. /\ Table(Enable(server, e)) /\ Enable(server, e).built <= server.built + 1
          /\ Enabled(Enable(server, e)) = Enabled(server) \cup {e.grant}
          /\ \A g \in Identifiers \ {e.grant} :
               ServingOf(Enable(server, e), g) = ServingOf(server, g)
      BY <1>1, <1>2, <1>4, EnableAdds
    <3>. QED  BY <2>1, <3>1 DEF Table, Tables
  <2>3. \A g \in Enabled(server') : ServingOf(server', g) \in Serving /\ g \in Identifiers
    BY <2>2, EnabledType
  <2>4. Shape'
    <3>1. server'.built + Len(batch') <= MaxInstances /\ server'.built \in 0 .. MaxInstances
      BY <1>1, <1>2, <2>1, <2>2
    <3>2. server' \in [order : Seq(Identifiers), instance : [Identifiers -> Instance],
                       ttl : [Identifiers -> TTLs], built : 0 .. MaxInstances]
      BY <2>2, <3>1 DEF Table, Tables
    <3>3. \A i, j \in DOMAIN server'.order : server'.order[i] = server'.order[j] => i = j
      BY <2>2 DEF Table, NoneTwice
    <3>4. enablings' \subseteq Serving
      BY <1>2, <2>1, <2>2, <2>3
    <3>. QED  BY <1>1, <2>1, <3>1, <3>2, <3>3, <3>4 DEF Inv, Shape, TypeOK
  <2>5. TableIsKnown'
    <3>. SUFFICES ASSUME NEW g \in Enabled(server')
                  PROVE  ServingOf(server', g) \in enablings'
      BY DEF TableIsKnown
    <3>1. CASE g = e.grant
      BY <2>1, <3>1
    <3>2. CASE g # e.grant
      BY <2>1, <2>2, <2>3, <3>2 DEF Inv, TableIsKnown
    <3>. QED  BY <3>1, <3>2
  <2>6. \A q \in Requests : RequestOK(q)'
    BY <2>1, <2>2, BystanderOK DEF Inv
  <2>. QED  BY <2>4, <2>5, <2>6 DEF Inv
<1>. QED  BY <1>3, <1>4

LEMMA RestartInv ==
  ASSUME Inv, Restart, batch = << >>
  PROVE  Inv'
<1>1. server.built \in Nat /\ server.built <= MaxInstances /\ MaxInstances \in Nat
  BY ConstantsAssumption DEF Inv, Shape, TypeOK
<1>2. Table(server') /\ server'.built = server.built
  BY <1>1, ConstructedTable DEF Restart
<1>3. \A g \in Enabled(server') : ServingOf(server', g) \in Serving
  BY <1>2, EnabledType
<1>4. Shape'
  <2>1. server' \in [order : Seq(Identifiers), instance : [Identifiers -> Instance],
                     ttl : [Identifiers -> TTLs], built : 0 .. MaxInstances]
    BY <1>1, <1>2 DEF Table, Tables
  <2>2. \A i, j \in DOMAIN server'.order : server'.order[i] = server'.order[j] => i = j
    BY <1>2 DEF Table, NoneTwice
  <2>4. restarts' \in 0 .. MaxRestarts
    BY ConstantsAssumption DEF Inv, Shape, TypeOK, Restart
  <2>5. enablings' \subseteq Serving
    BY <1>3 DEF Inv, Shape, TypeOK, Restart
  <2>6. server'.built + Len(batch') <= MaxInstances
    BY <1>2 DEF Inv, Shape, Restart
  <2>. QED  BY <2>1, <2>2, <2>4, <2>5, <2>6 DEF Inv, Shape, TypeOK, Restart
<1>5. TableIsKnown'
  BY DEF TableIsKnown, Restart
<1>6. ASSUME NEW q \in Requests
      PROVE  RequestOK(q)'
  <2>1. restarts' # 0
    BY DEF Inv, Shape, TypeOK, Restart
  <2>2. /\ pc'[q] = IF pc[q] \in {"serving", "completing"} THEN "lost" ELSE pc[q]
        /\ enablings \subseteq enablings'
    BY DEF Restart
  <2>3. \A i, c : OnFile(i, c)' <=> OnFile(i, c)
    BY DEF OnFile, Restart
  <2>. QED  BY <2>1, <2>2, <2>3 DEF Inv, RequestOK, Attended, Restart
<1>. QED  BY <1>4, <1>5, <1>6 DEF Inv

\* Types and the table, for the steps that leave the table alone.
LEMMA QuietTable ==
  ASSUME Inv, UNCHANGED <<server, batch, restarts, enablings>>
  PROVE  TableIsKnown' /\ Enabled(server') = Enabled(server)
  BY DEF Inv, TableIsKnown, ServingOf, Enabled

LEMMA DispatchInv ==
  ASSUME Inv, NEW r \in Requests, NEW f \in Inputs, Dispatch(r, f)
  PROVE  Inv'
<1>. DEFINE g == FindGrantFor(f)
<1>1. /\ pc[r] = "idle" /\ form' = [form EXCEPT ![r] = f]
      /\ UNCHANGED <<server, batch, stored, issued, restarts, enablings>>
      /\ f \in Form
  BY ConstantsAssumption DEF Dispatch
<1>2. TableIsKnown' /\ Enabled(server') = Enabled(server)
  BY <1>1, QuietTable
<1>3. \A c \in Repositories : stored[c] \subseteq stored'[c]
  BY <1>1
<1>4. r \notin known /\ issued[r] = None
  BY <1>1 DEF Inv, RequestOK
<1>5. /\ DOMAIN pc = Requests
      /\ DOMAIN form = Requests /\ DOMAIN serving = Requests
  BY DEF Inv, Shape, TypeOK
<1>. HIDE DEF g
<1>6. CASE g = None
  <2>1. Goto(r, "unsupported_grant_type") /\ UNCHANGED <<serving, known>>
    BY <1>6 DEF Dispatch, g
  <2>2. Shape'
    BY <1>1, <2>1 DEF Inv, Shape, TypeOK, Goto
  <2>3. RequestOK(r)'
    BY <1>1, <1>4, <1>5, <2>1 DEF RequestOK, Attended, Goto
  <2>4. ASSUME NEW q \in Requests \ {r}
        PROVE  RequestOK(q)'
    BY <1>1, <1>2, <1>3, <2>1, BystanderOK DEF Inv, Goto
  <2>. QED  BY <1>2, <2>2, <2>3, <2>4 DEF Inv
<1>7. CASE g # None
  <2>1. /\ Goto(r, "serving") /\ serving' = [serving EXCEPT ![r] = ServingOf(server, g)]
        /\ known' = IF g = "authorization_code" /\ f.code # None
                        /\ OnFile(server.instance[g], f.code)
                     THEN known \cup {r} ELSE known
    BY <1>7 DEF Dispatch, g
  <2>2. g \in Enabled(server) /\ CanRespond(g, f)
    BY <1>7, ShapeTable, FoundResponds DEF Inv, g
  <2>3. ServingOf(server, g) \in Serving /\ ServingOf(server, g) \in enablings
    BY <2>2, ShapeTable, EnabledType DEF Inv, TableIsKnown
  <2>4. Shape'
    <3>1. serving' \in [Requests -> Serving \cup {None}]
      BY <2>1, <2>3 DEF Inv, Shape, TypeOK
    <3>2. known' \subseteq Requests
      BY <2>1 DEF Inv, Shape, TypeOK
    <3>. QED  BY <1>1, <2>1, <3>1, <3>2 DEF Inv, Shape, TypeOK, Goto
  <2>5. RequestOK(r)'
    <3>1. /\ pc'[r] = "serving" /\ form'[r] = f /\ serving'[r] = ServingOf(server, g)
          /\ issued'[r] = None
      BY <1>1, <1>4, <1>5, <2>1 DEF Goto
    <3>2. serving'[r].grant = g /\ serving'[r].instance = server.instance[g]
      BY <3>1 DEF ServingOf
    <3>3. r \in known' => OnFile(serving[r].instance, form[r].code)'
      BY <1>1, <1>4, <2>1, <3>1, <3>2 DEF OnFile
    <3>. QED  BY <1>1, <1>2, <2>2, <2>3, <3>1, <3>2, <3>3 DEF RequestOK, Attended
  <2>6. ASSUME NEW q \in Requests \ {r}
        PROVE  RequestOK(q)'
    BY <1>1, <1>2, <1>3, <2>1, BystanderOK DEF Inv, Goto
  <2>. QED  BY <1>2, <2>4, <2>5, <2>6 DEF Inv
<1>. QED  BY <1>6, <1>7

LEMMA CompleteInv ==
  ASSUME Inv, NEW r \in Requests, Complete(r)
  PROVE  Inv'
<1>. DEFINE g == CompletingGrant(r)
<1>1. /\ pc[r] = "session" /\ g = serving[r].grant
      /\ UNCHANGED <<server, batch, stored, form, issued, restarts, enablings, known>>
  BY DEF Complete, CompletingGrant
<1>2. TableIsKnown' /\ Enabled(server') = Enabled(server)
  BY <1>1, QuietTable
<1>3. /\ form[r] \in Form /\ serving[r] \in enablings /\ CanRespond(g, form[r])
      /\ form[r].endpoint = "authorize" /\ issued[r] = None
      /\ restarts = 0 => g \in Enabled(server)
  BY <1>1 DEF Inv, RequestOK, Attended
<1>4. DOMAIN pc = Requests /\ DOMAIN serving = Requests
  BY DEF Inv, Shape, TypeOK
<1>. HIDE DEF g
<1>5. CASE g \in Enabled(server)
  <2>1. Goto(r, "completing") /\ serving' = [serving EXCEPT ![r] = ServingOf(server, g)]
    BY <1>5 DEF Complete, g
  <2>2. ServingOf(server, g) \in Serving /\ ServingOf(server, g) \in enablings
    BY <1>5, ShapeTable, EnabledType DEF Inv, TableIsKnown
  <2>3. Shape'
    <3>1. serving' \in [Requests -> Serving \cup {None}]
      BY <2>1, <2>2 DEF Inv, Shape, TypeOK
    <3>. QED  BY <1>1, <2>1, <3>1 DEF Inv, Shape, TypeOK, Goto
  <2>4. RequestOK(r)'
    <3>1. pc'[r] = "completing" /\ serving'[r] = ServingOf(server, g) /\ serving'[r].grant = g
      BY <1>4, <2>1 DEF Goto, ServingOf
    <3>. QED  BY <1>1, <1>2, <1>3, <1>5, <2>2, <3>1 DEF RequestOK, Attended
  <2>5. ASSUME NEW q \in Requests \ {r}
        PROVE  RequestOK(q)'
    BY <1>1, <1>2, <2>1, BystanderOK DEF Inv, Goto
  <2>. QED  BY <1>2, <2>3, <2>4, <2>5 DEF Inv
<1>6. CASE g \notin Enabled(server)
  <2>1. Goto(r, "not_enabled") /\ UNCHANGED serving
    BY <1>6 DEF Complete, g
  <2>2. Shape'
    BY <1>1, <2>1 DEF Inv, Shape, TypeOK, Goto
  <2>3. RequestOK(r)'
    BY <1>1, <1>3, <1>4, <1>6, <2>1 DEF RequestOK, Attended, Goto
  <2>4. ASSUME NEW q \in Requests \ {r}
        PROVE  RequestOK(q)'
    BY <1>1, <1>2, <2>1, BystanderOK DEF Inv, Goto
  <2>. QED  BY <1>2, <2>2, <2>3, <2>4 DEF Inv
<1>. QED  BY <1>5, <1>6

\* A step that moves a request on, and issues nothing.
LEMMA MovedOnInv ==
  ASSUME Inv, NEW r \in Requests,
         Validated(r) \/ RejectCode(r) \/ RejectGrantType(r) \/ AnswerOther(r)
  PROVE  Inv'
<1>1. /\ pc[r] = "serving"
      /\ UNCHANGED <<server, batch, stored, form, serving, issued, restarts, enablings, known>>
  BY DEF Validated, RejectCode, RejectGrantType, AnswerOther, Handling
<1>2. PICK label \in {"session", "unknown_code", "invalid_grant_type", "answered"} :
        /\ Goto(r, label)
        /\ label = "session" => form[r].endpoint = "authorize"
        /\ label = "unknown_code" => ~CodeIsFound(r)
  BY DEF Validated, RejectCode, RejectGrantType, AnswerOther
<1>3. TableIsKnown' /\ Enabled(server') = Enabled(server)
  BY <1>1, QuietTable
<1>4. DOMAIN pc = Requests
  BY DEF Inv, Shape, TypeOK
<1>5. pc' = [pc EXCEPT ![r] = label] /\ pc'[r] = label
  BY <1>2, <1>4 DEF Goto
<1>6. Shape'
  BY <1>1, <1>5 DEF Inv, Shape, TypeOK
<1>7. RequestOK(r)'
  <2>1. issued[r] = None
    BY <1>1 DEF Inv, RequestOK
  <2>2. r \in known => label # "unknown_code"
    BY <1>1, <1>2 DEF Inv, RequestOK, CodeIsFound, ServedBy
  <2>3. label # "idle" /\ label # "serving" /\ label # "not_enabled"
    OBVIOUS
  <2>. QED  BY <1>1, <1>2, <1>3, <1>5, <2>1, <2>2, <2>3 DEF Inv, RequestOK, Attended
<1>8. ASSUME NEW q \in Requests \ {r}
      PROVE  RequestOK(q)'
  BY <1>1, <1>3, <1>5, BystanderOK DEF Inv
<1>. QED  BY <1>3, <1>6, <1>7, <1>8 DEF Inv

\* A step that issues.
LEMMA IssuingInv ==
  ASSUME Inv, NEW r \in Requests, IssueCode(r) \/ IssueImplicit(r) \/ IssueToken(r)
  PROVE  Inv'
<1>1. /\ pc[r] \in {"serving", "completing"} /\ pc' = [pc EXCEPT ![r] = "answered"]
      /\ UNCHANGED <<server, batch, form, serving, restarts, enablings, known>>
  BY DEF IssueCode, IssueImplicit, IssueToken, Handling, Goto
<1>2. /\ form[r] \in Form /\ serving[r] \in enablings /\ enablings \subseteq Serving
      /\ CanRespond(serving[r].grant, form[r])
      /\ pc[r] # "serving" => form[r].endpoint = "authorize"
  BY <1>1 DEF Inv, Shape, TypeOK, RequestOK, Attended
<1>3. PICK what \in {"code", "token"}, by \in Serving :
        /\ issued' = [issued EXCEPT ![r] = [what |-> what, by |-> by]]
        /\ form[r].endpoint = "token" => by \in enablings
        /\ form[r].endpoint = "authorize" => what = form[r].asks
  <2>1. CASE IssueCode(r)
    BY <1>2, <2>1 DEF IssueCode, IssuedBy, CanRespond
  <2>2. CASE IssueImplicit(r)
    <3>1. [serving[r] EXCEPT !.ttl = DefaultTTL] \in Serving
      BY <1>2, ConstantsAssumption DEF Serving
    <3>. QED  BY <1>2, <2>2, <3>1 DEF IssueImplicit, IssuedBy, CanRespond
  <2>3. CASE IssueToken(r)
    BY <1>2, <2>3 DEF IssueToken, Handling, IssuedBy, ServedBy
  <2>. QED  BY <2>1, <2>2, <2>3
<1>4. /\ \A c \in Repositories : stored[c] \subseteq stored'[c]
      /\ stored' \in [Repositories -> SUBSET Requests]
  <2>1. CASE IssueCode(r)
    BY <2>1 DEF IssueCode, Inv, Shape, TypeOK
  <2>2. CASE ~IssueCode(r)
    BY <2>2 DEF IssueImplicit, IssueToken, Inv, Shape, TypeOK
  <2>. QED  BY <2>1, <2>2
<1>5. TableIsKnown' /\ Enabled(server') = Enabled(server)
  BY <1>1, QuietTable
<1>6. Shape'
  <2>1. [what |-> what, by |-> by] \in Issued
    BY DEF Issued
  <2>2. issued' \in [Requests -> Issued \cup {None}]
    BY <1>3, <2>1 DEF Inv, Shape, TypeOK
  <2>. QED  BY <1>1, <1>4, <2>2 DEF Inv, Shape, TypeOK
<1>7. RequestOK(r)'
  <2>1. pc'[r] = "answered" /\ issued'[r].what = what /\ issued'[r].by = by
    BY <1>1, <1>3 DEF Inv, Shape, TypeOK
  <2>. QED  BY <1>1, <1>3, <2>1 DEF RequestOK, Attended
<1>8. ASSUME NEW q \in Requests \ {r}
      PROVE  RequestOK(q)'
  BY <1>1, <1>3, <1>4, <1>5, BystanderOK DEF Inv
<1>. QED  BY <1>5, <1>6, <1>7, <1>8 DEF Inv

LEMMA NextInv ==
  ASSUME Inv, [Next]_vars
  PROVE  Inv'
<1>1. CASE EnableRest
  BY <1>1, TurnInv DEF EnableRest, Inv, Shape, TypeOK
<1>2. ASSUME batch = << >>, NEW b \in Batches, EnableGrantTypes(b)
      PROVE  Inv'
  BY <1>2, ConstantsAssumption, TurnInv DEF EnableGrantTypes
<1>3. ASSUME NEW r \in Requests, NEW f \in Inputs, Dispatch(r, f)
      PROVE  Inv'
  BY <1>3, DispatchInv
<1>4. ASSUME NEW r \in Requests, Step(r)
      PROVE  Inv'
  BY <1>4, MovedOnInv, IssuingInv, CompleteInv DEF Step
<1>5. CASE batch = << >> /\ Restart
  BY <1>5, RestartInv
<1>6. CASE UNCHANGED vars
  BY <1>6 DEF vars, Inv, Shape, TypeOK, TableIsKnown, RequestOK, OnFile, Enabled, ServingOf
<1>. QED  BY <1>1, <1>2, <1>3, <1>4, <1>5, <1>6 DEF Next

-----------------------------------------------------------------------------
(***************************************************************************)
(* Theorems.                                                               *)
(***************************************************************************)

\* What is enabled was enabled by one call, and what a handler holds too,
\* however often and however far enableGrantTypes got.
THEOREM TableInvariant == Spec => []Inv
<1>1. Init => Inv
  BY InitInv
<1>2. Inv /\ [Next]_vars => Inv'
  BY NextInv
<1>. QED  BY <1>1, <1>2, PTL DEF Spec

\* No request has two grants that would answer it, and a token from /token
\* comes from an instance and a TTL that were enabled together.
THEOREM RequestsHaveOneServer == Spec => []OneServerPerRequest
<1>1. Inv => OneServerPerRequest
  BY AtMostOneResponder DEF Inv, RequestOK, OneServerPerRequest, ServedByOneEnabling
<1>. QED  BY <1>1, TableInvariant, PTL

\* A code on file when its redemption is dispatched is found by it, even if
\* the grant is given another repository meanwhile.
THEOREM StoredCodeIsFound == Spec => []KnownCodeIsFound
<1>1. Inv => KnownCodeIsFound
  BY DEF Inv, Shape, TypeOK, RequestOK, KnownCodeIsFound
<1>. QED  BY <1>1, TableInvariant, PTL

\* An authorization request is completed by the kind of grant that validated
\* it, and only a restart takes that grant away.
THEOREM SessionsAreKept == Spec => []SessionsEndAsBegun
<1>1. Inv => SessionsEndAsBegun
  BY DEF Inv, RequestOK, SessionsEndAsBegun, CompletedByItsKind, SessionsKeepTheirGrant
<1>. QED  BY <1>1, TableInvariant, PTL
-----------------------------------------------------------------------------
(***************************************************************************)
(* The handler around the endpoints: HttpAdapters, whose Serve stands for  *)
(* the endpoints.  It shares no state with the table.                      *)
(***************************************************************************)
\* What the library made of the outcome: of the error, if there was one, and
\* else of a reply that has somewhere to go.
Rendered(m) ==
  IF thrown # None
    THEN thrown \in Thrown /\ m = Explained(thrown)
    ELSE reply \in Replies /\ ~Nowhere(reply) /\ m = Translated(reply)

\* h3's handler did not await the answer, so the catch never saw that there
\* was nowhere to redirect to.
Unseen ==
  /\ reply \in Replies /\ Nowhere(reply) /\ ~awaits
  /\ thrown = Unexpected

\* What the framework answers for it.
Fallback(m) == m.status = 500 /\ m.text = None

HandlerInv ==
  /\ at \in {"arrived", "serving", "replying", "catching", "flushing",
             "settling", "rejected", "settled"}
  /\ at = "flushing" <=> queued # None
  /\ at \notin {"settling", "settled"} => wire = << >>
  /\ at \in {"arrived", "serving"} => thrown = None
  /\ at = "replying" => thrown = None /\ reply \in Replies
  /\ at = "catching" => thrown \in Thrown
  /\ at = "flushing" => Rendered(queued)
  /\ at = "rejected" => Unseen
  /\ at = "settling" => \E m : wire = <<m>> /\ Rendered(m)
  /\ at = "settled"  => \E m : wire = <<m>> /\ (Rendered(m) \/ (Unseen /\ Fallback(m)))

\* There is something to write for every reply and for every error.
LEMMA RenderedIsWire ==
  /\ \A r \in Replies : Translated(r) # None
  /\ \A e \in Thrown : e # None /\ Explained(e) # None
<1>1. ASSUME NEW r \in Replies PROVE Translated(r) \in Wire
  BY <1>1 DEF Replies, Reply, Translated, Answer, Wire, Header
<1>2. ASSUME NEW e \in Thrown PROVE Explained(e) \in Wire
  BY <1>2 DEF Thrown, Exception, Unexpected, Explained, ErrorMessage,
       StatusOf, ErrorType, Text, Wire, Header
<1>. QED  BY <1>1, <1>2, HandlerAssumption DEF HandlerAssumption

LEMMA OneMessage ==
  ASSUME NEW m
  PROVE  /\ Append(<< >>, m) = <<m>>
         /\ Len(<<m>>) = 1 /\ <<m>>[1] = m /\ <<m>> # << >>
  OBVIOUS

LEMMA HandlerStep ==
  ASSUME HandlerInv, [HandlerNext]_handlerVars
  PROVE  HandlerInv'
<1>. USE DEF HandlerInv
<1>1. Unexpected \in Thrown /\ NowhereError \in Thrown
  BY DEF Thrown, NowhereError, ErrorType
<1>2. CASE Convert
  BY <1>1, <1>2 DEF Convert, Throw
<1>3. CASE Serve
  BY <1>3 DEF Serve, Throw
<1>4. CASE Send
  <2>1. CASE ~Nowhere(reply) /\ Write(Translated(reply)) /\ UNCHANGED thrown
    <3>1. PICK m : m = Translated(reply)
      OBVIOUS
    <3>2. m # None /\ Rendered(m)'
      BY <1>4, <2>1, <3>1, RenderedIsWire DEF Send, Rendered, Translated, Nowhere
    <3>3. CASE adapter = "h3"
      BY <1>4, <2>1, <3>1, <3>2, <3>3 DEF Send, Write
    <3>4. CASE adapter # "h3"
      <4>1. wire' = <<m>> /\ queued' = queued /\ at' = "settling"
        BY <1>4, <2>1, <3>1, <3>2, <3>4, OneMessage DEF Send, Write
      <4>. QED  BY <1>4, <3>2, <4>1 DEF Send
    <3>. QED  BY <3>3, <3>4
  <2>2. CASE Nowhere(reply) /\ adapter = "h3" /\ ~awaits
    BY <1>4, <2>2 DEF Send, Unseen, NowhereError, Nowhere
  <2>3. CASE Nowhere(reply) /\ ~(adapter = "h3" /\ ~awaits)
    BY <1>1, <1>4, <2>3 DEF Send, Throw
  <2>. QED  BY <1>4, <2>1, <2>2, <2>3 DEF Send
<1>5. CASE Catch
  <2>1. PICK m : m = Explained(thrown)
    OBVIOUS
  <2>2. m # None /\ Rendered(m)'
    BY <1>5, <2>1, RenderedIsWire DEF Catch, Rendered
  <2>3. CASE adapter = "h3"
    BY <1>5, <2>1, <2>2, <2>3 DEF Catch, Write
  <2>4. CASE adapter # "h3"
    <3>1. wire' = <<m>> /\ queued' = queued /\ at' = "settling"
      BY <1>5, <2>1, <2>2, <2>4, OneMessage DEF Catch, Write
    <3>. QED  BY <1>5, <2>2, <3>1 DEF Catch
  <2>. QED  BY <2>3, <2>4
<1>6. CASE Flush
  <2>1. at = "flushing" /\ wire = << >> /\ Rendered(queued)
    BY <1>6 DEF Flush
  <2>2. PICK m : m = queued /\ Rendered(m) /\ wire' = <<m>>
    BY <1>6, <2>1, OneMessage DEF Flush
  <2>3. Rendered(m)'
    BY <1>6, <2>2 DEF Flush, Rendered, Translated, Nowhere
  <2>. QED  BY <1>6, <2>1, <2>2, <2>3 DEF Flush
<1>7. CASE Settle
  <2>1. CASE at = "settling"
    <3>1. PICK m : wire = <<m>> /\ Rendered(m)
      BY <2>1
    <3>2. wire' = <<m>> /\ Rendered(m)'
      BY <1>7, <2>1, <3>1, OneMessage DEF Settle, Rendered, Translated, Nowhere
    <3>3. at' = "settled" /\ queued' = None
      BY <1>7, <2>1 DEF Settle
    <3>. QED  BY <3>2, <3>3
  <2>2. CASE at = "rejected"
    <3>1. PICK m : m = [ErrorMessage(Exception("server_error"), None) EXCEPT
                          !.status = 500, !.error = None]
      OBVIOUS
    <3>2. wire' = <<m>> /\ Fallback(m)
      BY <1>7, <2>2, <3>1 DEF Settle, ErrorMessage, Fallback
    <3>3. Unseen'
      BY <1>7, <2>2 DEF Settle, Unseen, Nowhere
    <3>. QED  BY <1>7, <2>2, <3>2, <3>3 DEF Settle
  <2>. QED  BY <1>7, <2>1, <2>2 DEF Settle
<1>8. CASE UNCHANGED handlerVars
  BY <1>8 DEF handlerVars, Rendered, Unseen, Translated, Nowhere
<1>. QED  BY <1>2, <1>3, <1>4, <1>5, <1>6, <1>7, <1>8 DEF HandlerNext

\* The state of a handler follows from where it is: nothing is written before
\* the end, and what is written then is what the library made of the outcome.
THEOREM HandlerInvariant == HandlerSpec => []HandlerInv
<1>1. HandlerInit => HandlerInv
  BY DEF HandlerInit, HandlerInv
<1>2. HandlerInv /\ [HandlerNext]_handlerVars => HandlerInv'
  BY HandlerStep
<1>. QED  BY <1>1, <1>2, PTL DEF HandlerSpec

\* Whoever settles has answered exactly once, with tokens only beside the
\* headers that forbid to store them; the framework answers for the handler
\* only where an answer that was not awaited could not be sent.
THEOREM HandlersAnswerOnce == HandlerSpec => []AnsweredOnce
<1>1. ASSUME HandlerInv PROVE AnsweredOnce
  <2>1. Len(wire) <= 1
    <3>1. CASE wire = << >>
      BY <3>1
    <3>2. CASE \E m : wire = <<m>>
      BY <3>2, OneMessage
    <3>. QED  BY <1>1, <3>1, <3>2 DEF HandlerInv
  <2>2. ASSUME at = "settled", ~(reply # None /\ Nowhere(reply) /\ ~awaits)
        PROVE  /\ Len(wire) = 1 /\ queued = None
               /\ wire[1].status # 404
               /\ wire[1].body = "tokens" =>
                    {"cache-control", "pragma"} \subseteq wire[1].headers
    <3>1. PICK m : wire = <<m>> /\ Rendered(m)
      BY <1>1, <2>2, HandlerAssumption DEF HandlerInv, Unseen, HandlerAssumption
    <3>2. m.status # 404 /\ (m.body = "tokens" => {"cache-control", "pragma"} \subseteq m.headers)
      <4>1. CASE thrown # None
        BY <3>1, <4>1 DEF Rendered, Thrown, Exception, Unexpected, Explained,
             ErrorMessage, StatusOf
      <4>2. CASE thrown = None
        BY <3>1, <4>2 DEF Rendered, Replies, Reply, Translated, Answer
      <4>. QED  BY <4>1, <4>2
    <3>. QED  BY <1>1, <2>2, <3>1, <3>2 DEF HandlerInv
  <2>. QED  BY <2>1, <2>2 DEF AnsweredOnce
<1>. QED  BY <1>1, HandlerInvariant, PTL

\* An error of the protocol reaches the client with its status and type, from
\* wherever in the handler it was thrown, and nothing of any other error does.
THEOREM ErrorsKeepTheInside == HandlerSpec => []ErrorsTellTheProtocolOnly
<1>1. ASSUME HandlerInv PROVE ErrorsTellTheProtocolOnly
  <2>. SUFFICES ASSUME at = "settled", thrown # None
                PROVE  IF thrown.oauth
                       THEN wire[1].status = thrown.status /\ wire[1].error = thrown.type
                       ELSE wire[1].status = 500 /\ wire[1].text \notin {"described", "internal"}
    BY DEF ErrorsTellTheProtocolOnly
  <2>1. PICK m : wire = <<m>> /\ (Rendered(m) \/ (Unseen /\ Fallback(m)))
    BY <1>1 DEF HandlerInv
  <2>2. CASE Rendered(m)
    <3>1. thrown \in Thrown /\ wire[1] = Explained(thrown)
      BY <2>1, <2>2, OneMessage DEF Rendered
    <3>2. CASE \E type \in ErrorType : thrown = Exception(type)
      BY <3>1, <3>2 DEF Explained, ErrorMessage, Exception
    <3>3. CASE thrown = Unexpected
      <4>1. Exception("server_error").status = 500
        BY DEF Exception, StatusOf
      <4>2. wire[1].status = 500 /\ wire[1].text = "general" /\ ~thrown.oauth
        BY <3>1, <3>3, <4>1 DEF Explained, ErrorMessage, Unexpected
      <4>. QED  BY <4>2
    <3>. QED  BY <3>1, <3>2, <3>3 DEF Thrown
  <2>3. CASE Unseen /\ Fallback(m)
    BY <2>1, <2>3, OneMessage, HandlerAssumption DEF Unseen, Fallback, Unexpected, HandlerAssumption, Text
  <2>. QED  BY <2>1, <2>2, <2>3
<1>. QED  BY <1>1, HandlerInvariant, PTL
=============================================================================
