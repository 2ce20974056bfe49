---------------------------- MODULE WorkerRouting ----------------------------
(***************************************************************************)
(* The service Worker and the claim object keep one service and one router *)
(* for the issuer they were last asked for (createWorker in router.ts,     *)
(* fetch in claim-durable-object.ts). Without a configured ISSUER the      *)
(* issuer is the origin of the request, and a request that awaits its      *)
(* service may install the router after another issuer has come in.        *)
(***************************************************************************)
CONSTANTS
  Issuer,   \* the origins the Worker is reached at
  Nobody,   \* no issuer
  Fetch     \* requests in progress

ASSUME RoutingAssumption == Nobody \notin Issuer

VARIABLES
  configuredIssuer,  \* the issuer of the cached service promise
  router,            \* the issuer of the cached router, Nobody if there is none
  fetches,           \* Fetch -> the issuer of the service it awaits, Nobody when idle
  overlapped,        \* history: requests of two issuers awaited their services side by side
  served             \* the last request: its issuer and the issuer of the router it was served by

routingVars == <<configuredIssuer, router, fetches, overlapped, served>>

RoutingInit ==
  /\ configuredIssuer = Nobody
  /\ router = Nobody
  /\ fetches = [f \in Fetch |-> Nobody]
  /\ overlapped = FALSE
  /\ served = [asked |-> Nobody, by |-> Nobody]

KeptRouterAlways(i) == router  \* fault: a new issuer keeps the old router
KeptRouter(i) == IF configuredIssuer = i THEN router ELSE Nobody

\* Up to the await of the service, or to the end when the router is cached.
ArriveAt(f, i) ==
  LET cached == KeptRouter(i) IN
  /\ fetches[f] = Nobody
  /\ configuredIssuer' = i
  /\ router' = cached
  /\ IF cached = Nobody
     THEN /\ fetches' = [fetches EXCEPT ![f] = i]
          /\ overlapped' = (overlapped \/ \E g \in Fetch : fetches[g] \notin {i, Nobody})
          /\ UNCHANGED served
     ELSE /\ served' = [asked |-> i, by |-> cached]
          /\ UNCHANGED <<fetches, overlapped>>

\* The assignment of ??= happens after the await, whatever the router has become meanwhile.
ServiceReady(f) ==
  /\ fetches[f] # Nobody
  /\ router' = fetches[f]
  /\ served' = [asked |-> fetches[f], by |-> fetches[f]]
  /\ fetches' = [fetches EXCEPT ![f] = Nobody]
  /\ UNCHANGED <<configuredIssuer, overlapped>>

RoutingNext == \E f \in Fetch : (\E i \in Issuer : ArriveAt(f, i)) \/ ServiceReady(f)

RoutingSpec == RoutingInit /\ [][RoutingNext]_routingVars

\* A request is served by the service of its own issuer, as long as no two issuers awaited their
\* services side by side: the one that is ready last then leaves its router to the requests of
\* the other.
ServedByOwnIssuer == overlapped \/ served.asked = served.by
=============================================================================
