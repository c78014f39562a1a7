---------------------------- MODULE HttpAdapters ----------------------------
(***************************************************************************)
(* From a framework's request to the server and back: the four adapters    *)
(* inside the handler the documentation tells applications to write, a     *)
(* try around conversion, endpoint and answer, whose catch is the          *)
(* adapter's error handler.  Requests share nothing, so one is followed.   *)
(* Parameters and bodies are left out; what is kept is who answers, how    *)
(* often, and what an error lets through.                                  *)
(***************************************************************************)
EXTENDS Naturals, Sequences, Absence

CONSTANTS
  Targets      \* redirect URIs a response may carry

Adapters == {"express", "fastify", "h3", "vanilla"}

ErrorType ==
  {"invalid_request", "invalid_client", "invalid_grant", "invalid_scope",
   "invalid_token", "insufficient_scope", "unauthorized_scope",
   "unauthorized_client", "unsupported_grant_type", "unsupported_token_type",
   "access_denied", "server_error"}

\* What the factories of OAuthException make of each type.
StatusOf(type) ==
  CASE type \in {"invalid_client", "unauthorized_scope", "unauthorized_client",
                 "invalid_token", "access_denied"} -> 401
    [] type = "insufficient_scope" -> 403
    [] type = "server_error"       -> 500
    [] OTHER                       -> 400

\* text: what the thrown object says, of the protocol or of the inside.
Exception(type) == [oauth |-> TRUE, type |-> type, status |-> StatusOf(type),
                    text |-> "described"]

Unexpected == [oauth |-> FALSE, type |-> None, status |-> None, text |-> "internal"]

Thrown == {Exception(type) : type \in ErrorType} \cup {Unexpected}

Header == {"cache-control", "pragma", "www-authenticate"}

Reply(status, location, body, headers) ==
  [status |-> status, location |-> location, body |-> body, headers |-> headers]

\* What endpoints return: BearerTokenResponse, RedirectResponse, UserInfo's
\* refusals, and plain bodies.  A custom grant may forget the location.
Replies ==
  {Reply(200, None, "tokens", {"cache-control", "pragma"}),
   Reply(200, None, "document", {}),
   Reply(401, None, "refusal", {"www-authenticate"})}
  \cup {Reply(302, target, "empty", {}) : target \in Targets \cup {None}}

Text == {"described", "internal", "general"}

\* What travels: a reply, and of an error its type and text.
Wire == [status : Nat, location : Targets \cup {None}, headers : SUBSET Header,
         body : {"tokens", "document", "refusal", "empty", "error"},
         error : ErrorType \cup {None},
         text : Text \cup {None}]

ASSUME HandlerAssumption ==
  /\ None \notin Targets \cup ErrorType \cup Text
  /\ None \notin Replies \cup Thrown \cup Wire

VARIABLES
  adapter, awaits,  \* whose handler it is, and whether it awaits the answer
  at,               \* where the handler is
  reply, thrown,    \* what the endpoint returned, what the catch got
  queued,           \* what h3 writes in its own time
  wire              \* what was written to the client

handlerVars == <<adapter, awaits, at, reply, thrown, queued, wire>>

HandlerInit ==
  /\ adapter \in Adapters /\ awaits \in BOOLEAN
  /\ at = "arrived"
  /\ reply = None /\ thrown = None /\ queued = None
  /\ wire = <<>>

-----------------------------------------------------------------------------
Throw(e) == thrown' = e /\ at' = "catching"

\* requestFromExpress and requestFromFastify copy what the framework parsed;
\* the others read the body, which may be malformed.
Convert ==
  /\ at = "arrived"
  /\ \/ at' = "serving" /\ UNCHANGED thrown
     \/ adapter \in {"h3", "vanilla"} /\ Throw(Unexpected)
  /\ UNCHANGED <<adapter, awaits, reply, queued, wire>>

\* The endpoint, of which ServerDispatch and the grants are the models.
Serve ==
  /\ at = "serving"
  /\ \/ \E r \in Replies : reply' = r /\ at' = "replying" /\ UNCHANGED thrown
     \/ \E e \in Thrown : Throw(e) /\ UNCHANGED reply
  /\ UNCHANGED <<adapter, awaits, queued, wire>>

\* Mutant: h3's send is not awaited.
Write_FireAndForget(message) ==
  /\ at' = "settling"
  /\ IF adapter = "h3" THEN queued' = message /\ UNCHANGED wire
                       ELSE wire' = Append(wire, message) /\ UNCHANGED queued

\* Handing a message to the framework; h3 writes it while send is awaited.
Write(message) ==
  IF adapter = "h3"
    THEN queued' = message /\ at' = "flushing" /\ UNCHANGED wire
    ELSE wire' = Append(wire, message) /\ at' = "settling" /\ UNCHANGED queued

Answer(r, headers) ==
  [status |-> r.status, location |-> r.location, headers |-> headers,
   body |-> r.body, error |-> None, text |-> None]

\* Redirects drop the headers in two adapters.
Translated(r) ==
  Answer(r, IF r.status = 302 /\ adapter \in {"h3", "vanilla"} THEN {} ELSE r.headers)

Nowhere(r) == r.status = 302 /\ r.location = None

NowhereError == IF adapter = "vanilla" THEN Exception("invalid_request") ELSE Unexpected

\* handleExpressResponse and its like.  handleH3Response is async, so what it
\* throws passes a try that returns its promise without awaiting it.
Send ==
  /\ at = "replying"
  /\ \/ ~Nowhere(reply) /\ Write(Translated(reply)) /\ UNCHANGED thrown
     \/ /\ Nowhere(reply)
        /\ IF adapter = "h3" /\ ~awaits
             THEN at' = "rejected" /\ thrown' = NowhereError
             ELSE Throw(NowhereError)
        /\ UNCHANGED <<queued, wire>>
  /\ UNCHANGED <<adapter, awaits, reply>>

ErrorMessage(e, text) ==
  [status |-> e.status, location |-> None, body |-> "error",
   headers |-> {}, error |-> e.type, text |-> text]

\* Mutant: the message of any error is sent.
Explained_Echo(e) ==
  IF e.oauth THEN ErrorMessage(e, e.text)
  ELSE ErrorMessage(Exception("server_error"), e.text)

\* The body of an error response.
Explained(e) ==
  IF e.oauth THEN ErrorMessage(e, e.text)
  ELSE ErrorMessage(Exception("server_error"), "general")

Catch ==
  /\ at = "catching"
  /\ Write(Explained(thrown))
  /\ UNCHANGED <<adapter, awaits, reply, thrown>>

Flush ==
  /\ queued # None
  /\ wire' = Append(wire, queued)
  /\ queued' = None
  /\ at' = IF at = "flushing" THEN "settling" ELSE at
  /\ UNCHANGED <<adapter, awaits, reply, thrown>>

\* h3's router answers for a handler that settled without an answer, and h3
\* for one that rejected.
Settle ==
  /\ at \in {"settling", "rejected"}
  /\ at' = "settled"
  /\ wire' = IF wire # <<>> THEN wire
             ELSE <<[ErrorMessage(Exception("server_error"), None) EXCEPT
                       !.status = IF at = "rejected" THEN 500 ELSE 404,
                       !.error = None]>>
  /\ UNCHANGED <<adapter, awaits, reply, thrown, queued>>

HandlerNext == Convert \/ Serve \/ Send \/ Catch \/ Flush \/ Settle

HandlerSpec == HandlerInit /\ [][HandlerNext]_handlerVars

-----------------------------------------------------------------------------
(***************************************************************************)
(* Properties.                                                             *)
(***************************************************************************)

\* Every variable has its type.
HandlerTypeOK ==
  /\ adapter \in Adapters /\ awaits \in BOOLEAN
  /\ at \in {"arrived", "serving", "replying", "catching", "flushing",
             "settling", "rejected", "settled"}
  /\ reply \in Replies \cup {None}
  /\ thrown \in Thrown \cup {None}
  /\ queued \in Wire \cup {None}
  /\ wire \in Seq(Wire)

\* A handler that settled has answered, once, and with what the library made
\* of the outcome, tokens with the headers that forbid to store them: the
\* framework answers for it only where an answer that was not awaited could
\* not be sent.
AnsweredOnce ==
  /\ Len(wire) <= 1
  /\ at = "settled" /\ ~(reply # None /\ Nowhere(reply) /\ ~awaits) =>
       /\ Len(wire) = 1 /\ queued = None
       /\ wire[1].status # 404
       /\ wire[1].body = "tokens" => {"cache-control", "pragma"} \subseteq wire[1].headers

\* Whatever was thrown, and wherever in the handler, its status and type reach
\* the client if it is an error of the protocol, and nothing of it does if it
\* is not.
ErrorsTellTheProtocolOnly ==
  at = "settled" /\ thrown # None =>
    LET sent == wire[1]
    IN  IF thrown.oauth
        THEN sent.status = thrown.status /\ sent.error = thrown.type
        ELSE sent.status = 500 /\ sent.text \notin {"described", "internal"}
=============================================================================
