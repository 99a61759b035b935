-------------------------------- MODULE HttpNode --------------------------------
(***************************************************************************)
(* The http node (src/worker/src/executor/engine.ts, executeNode): one      *)
(* request, its redirects followed by hand. Every hop resolves its host,    *)
(* checks the addresses and connects to one of those: names may resolve to  *)
(* something else at every lookup.                                         *)
(***************************************************************************)
EXTENDS Integers, NoValue

CONSTANTS
  Addresses,      \* addresses names resolve to
  Private,        \* those that are private or restricted
  Methods         \* methods a node may be configured with

ASSUME HttpAssumption == Private \subseteq Addresses

VARIABLES
  allowPrivate, followRedirects,   \* the configuration of the node
  request,     \* the next request: [method, body]; body: it has one
  http,        \* "checking", "connecting", "answered", or how it ended: "returned", "thrown"
  pinned,      \* pinnedAddresses: what the check of this hop resolved
  redirects,   \* redirectCount
  httpStatus,      \* the status of the last answer
  contacted    \* history: [address, method, body] of every request

httpVars == <<allowPrivate, followRedirects, request, http, pinned, redirects, httpStatus, contacted>>

MaxRedirects == 5
RedirectStatuses == {301, 302, 303, 307, 308}

WithBody(method) == method \in {"POST", "PUT", "PATCH"}

HttpInit ==
  /\ allowPrivate \in BOOLEAN /\ followRedirects \in BOOLEAN
  /\ \E m \in Methods, given \in BOOLEAN :
       request = [method |-> m, body |-> given /\ WithBody(m)]
  /\ http = "checking" /\ pinned = {} /\ redirects = 0 /\ httpStatus = None /\ contacted = {}

config == <<allowPrivate, followRedirects>>

(* assertSafeFetchUrl resolves the name: one bad address is enough.         *)
Refused(found) == ~allowPrivate /\ found \cap Private # {}

CheckUrl ==
  /\ http = "checking"
  /\ \/ /\ http' = "thrown" /\ UNCHANGED pinned     \* no URL, no http, no such name
     \/ \E found \in SUBSET Addresses \ {{}} :
          IF Refused(found) THEN http' = "thrown" /\ UNCHANGED pinned
          ELSE http' = "connecting" /\ pinned' = found
  /\ UNCHANGED <<config, request, redirects, httpStatus, contacted>>

(* The dispatcher looks nothing up: it is given the checked addresses.      *)
(* Mutation: the name is looked up once more to connect. *)
ReachableAfterLookup == Addresses

Reachable == pinned

Sent(a) == [address |-> a, method |-> request.method, body |-> request.body]

Connect ==
  /\ http = "connecting"
  /\ \E a \in Reachable : contacted' = contacted \cup {Sent(a)}
  /\ \/ http' = "thrown" /\ UNCHANGED httpStatus        \* refused, or the timer ran out
     \/ http' = "answered" /\ httpStatus' \in {200, 500} \cup RedirectStatuses
  /\ UNCHANGED <<config, request, pinned, redirects>>

(* fetch: 301 and 302 make a POST a GET, 303 anything but GET and HEAD.     *)
SwitchesToGet ==
  \/ httpStatus = 303 /\ request.method \notin {"GET", "HEAD"}
  \/ httpStatus \in {301, 302} /\ request.method = "POST"

Redirects == followRedirects /\ httpStatus \in RedirectStatuses

Redirect ==
  /\ http = "answered" /\ Redirects
  /\ IF redirects >= MaxRedirects
     THEN http' = "thrown" /\ UNCHANGED <<redirects, request>>
     ELSE \/ http' = "returned" /\ UNCHANGED <<redirects, request>>     \* no Location
          \/ /\ http' = "checking" /\ redirects' = redirects + 1
             /\ request' = IF SwitchesToGet THEN [method |-> "GET", body |-> FALSE]
                           ELSE request
  /\ UNCHANGED <<config, pinned, httpStatus, contacted>>

(* A body of more than 10 MB is an error.                                  *)
ReturnAnswer ==
  /\ http = "answered" /\ ~Redirects
  /\ http' \in {"returned", "thrown"}
  /\ UNCHANGED <<config, request, pinned, redirects, httpStatus, contacted>>

HttpNext == CheckUrl \/ Connect \/ Redirect \/ ReturnAnswer

HttpSpec == HttpInit /\ [][HttpNext]_httpVars

(* Types of the variables. *)
HttpTypeOK ==
  /\ http \in {"checking", "connecting", "answered", "returned", "thrown"}
  /\ pinned \subseteq Addresses /\ redirects \in 0..MaxRedirects
  /\ request.body \in BOOLEAN

(* Whatever names resolve to from one hop to the next, no request reaches a *)
(* private address unless the node allows it, and none that became a GET on *)
(* the way carries the body of the POST.                                   *)
RequestsAreChecked ==
  \A c \in contacted :
    /\ c.address \in Private => allowPrivate
    /\ c.method \in {"GET", "HEAD"} => ~c.body
================================================================================
