--------------------------- MODULE OneUseCredential ---------------------------
(***************************************************************************)
(* What the server promises about a credential that may be used once -- an *)
(* authorization code, a refresh token -- when requests overlap.  A        *)
(* request is admitted while the credential is unspent, and is answered    *)
(* with tokens only once the credential is spent; a credential stays       *)
(* spent.  Two requests may both be admitted before either spends it, but  *)
(* nobody who comes after an answer is admitted.                           *)
(***************************************************************************)
CONSTANTS Requests, Credentials, None

VARIABLES spent,     \* credentials that can admit nobody any more
          holder,    \* the credential each admitted request holds
          answered   \* requests that got their tokens

promise == <<spent, holder, answered>>

\* Some credentials may have been spent before anyone asked.
Init ==
  /\ spent \subseteq Credentials
  /\ holder = [r \in Requests |-> None]
  /\ answered = {}

Admit(r, k) ==
  /\ holder[r] = None
  /\ k \notin spent
  /\ holder' = [holder EXCEPT ![r] = k]
  /\ UNCHANGED <<spent, answered>>

\* One is used, or several are revoked at once.
Spend ==
  /\ spent \subseteq spent'
  /\ spent' \subseteq Credentials
  /\ UNCHANGED <<holder, answered>>

Answer(r) ==
  /\ holder[r] \in spent
  /\ answered' = answered \cup {r}
  /\ UNCHANGED <<spent, holder>>

\* A request that was admitted fails before it is answered.
Abandon(r) ==
  /\ r \notin answered
  /\ holder' = [holder EXCEPT ![r] = None]
  /\ UNCHANGED <<spent, answered>>

Next ==
  \/ \E r \in Requests, k \in Credentials : Admit(r, k)
  \/ Spend
  \/ \E r \in Requests : Answer(r) \/ Abandon(r)

Spec == Init /\ [][Next]_promise
=============================================================================
