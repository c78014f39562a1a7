----------------------------- MODULE RedirectUris -----------------------------
(***************************************************************************)
(* Redirect URI strings and how a requested one is matched against a       *)
(* registered one.  A string is what it parses to, None if nothing, with   *)
(* the fragment it was written with and a spelling: strings that differ in *)
(* their spelling only (case of the host, an explicit default port, a tab) *)
(* are normalized to one URL.                                              *)
(***************************************************************************)
EXTENDS Absence

CONSTANTS
  Schemes, Hosts, Ports, Paths, Spellings,
  DefaultPort,         \* the port of a URL that names none
  LoopbackHostnames

Url == [scheme : Schemes, host : Hosts, port : Ports, path : Paths]

\* "none" is no "#" at all, "empty" a bare trailing one.
UriString == [url : Url \cup {None}, spelling : Spellings,
              fragment : {"none", "empty", "some"}]

ASSUME RedirectUrisAssumption ==
  /\ "http" \in Schemes
  /\ DefaultPort \in Ports
  /\ LoopbackHostnames \subseteq Hosts
  /\ None \notin Url

\* URL.href of a string that parses.
Href(uri) == [url |-> uri.url, fragment |-> uri.fragment]

AnyPort(uri) == [uri EXCEPT !.url.port = DefaultPort]

\* Mutant: the port may vary for every http URL.
IsLoopback_AnyHost(registered) == registered.url.scheme = "http"

IsLoopback(registered) ==
  registered.url.scheme = "http" /\ registered.url.host \in LoopbackHostnames

RedirectUriMatches(requested, registered) ==
  IF requested.url = None \/ registered.url = None
    THEN requested = registered
    ELSE IF IsLoopback(registered) /\ requested.url.host = registered.url.host
           THEN Href(AnyPort(requested)) = Href(AnyPort(registered))
           ELSE Href(requested) = Href(registered)

\* validateRedirectUri.
IsAcceptable(requested, registrations) ==
  /\ requested.url # None
  /\ requested.fragment = "none"
  /\ \E registered \in registrations : RedirectUriMatches(requested, registered)

\* The reference: the URL that was registered, or, on the machine the browser
\* runs on, another port of it.
SamePlace(requested, registered) ==
  \/ requested = registered
  \/ /\ requested.url # None /\ registered.url # None
     /\ requested.fragment = registered.fragment
     /\ \E port \in Ports :
          /\ requested.url = [registered.url EXCEPT !.port = port]
          /\ \/ port = registered.url.port
             \/ /\ requested.url.scheme = "http"
                /\ requested.url.host \in LoopbackHostnames
=============================================================================
