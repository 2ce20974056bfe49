------------------------------- MODULE MCParts -------------------------------
(***************************************************************************)
(* The components that share no state with any other one, checked in one   *)
(* run: the first state chooses the component that runs, the others stay   *)
(* in their initial states.                                                *)
(***************************************************************************)
EXTENDS AssertionReplay, ProofReplay, RateLimit, TokenService, Policy, CompletionClient,
        WorkerRouting, ConformanceCheck

VARIABLE part  \* the component that runs

(***************************************************************************)
(* The documents of the conformance check: the right ones, and those that  *)
(* differ from them in one respect.                                        *)
(***************************************************************************)

\* The issuer's URL, the same page with a query, another page there, and another origin.
MCUrl == {"home", "query", "tenant", "abroad"}
MCPageOf == [u \in MCUrl |-> IF u = "query" THEN "home" ELSE u]
MCOriginOf == [u \in MCUrl |-> IF u = "abroad" THEN "abroad" ELSE "home"]
AnyUrl == {Absent, Malformed} \union MCUrl

RightAuthMd == [sections |-> [s \in Section |-> Good], unknownSection |-> FALSE,
                references |-> {Good}, issuer |-> Absent, modes |-> {}]
MCAuthMdDocs ==
  {[RightAuthMd EXCEPT !.modes = modes] : modes \in SUBSET Mode}
  \union {[RightAuthMd EXCEPT !.issuer = x] : x \in AnyUrl}
  \union {[RightAuthMd EXCEPT !.sections[s] = x] : s \in Section, x \in {Absent, "empty", "duplicate"}}
  \union {[RightAuthMd EXCEPT !.unknownSection = TRUE], [RightAuthMd EXCEPT !.references = {Malformed}]}

RightResource == [resource |-> "subject", servers |-> <<"home">>, arrays |-> Absent]
ServerLists == {<<>>} \union {<<a>> : a \in {Malformed} \union MCUrl}
               \union {<<Malformed, "home">>, <<"home", Malformed>>, <<"home", "abroad">>}
MCResourceDocs ==
  {[RightResource EXCEPT !.servers = servers] : servers \in ServerLists}
  \union {[RightResource EXCEPT !.resource = x] : x \in {Absent, Malformed, "other"}}
  \union {[RightResource EXCEPT !.arrays = Malformed]}

RightServer ==
  [issuer |-> "home", urls |-> [f \in UrlField |-> Good], grants |-> Grant,
   authMethods |-> {"none", "other"}, agentAuth |-> TRUE, skill |-> "fetched",
   endpoints |-> [e \in AgentEndpoint |-> "home"], modes |-> Mode, arrays |-> Good]
MCServerDocs ==
  {[RightServer EXCEPT !.issuer = x] : x \in AnyUrl}
  \union {[RightServer EXCEPT !.urls[f] = Absent] : f \in UrlField}
  \union {[RightServer EXCEPT !.grants = g] : g \in SUBSET (Grant \union {"other"})}
  \union {[RightServer EXCEPT !.modes = modes] : modes \in {{}, {"unknown"}} \union {{m} : m \in Mode}}
  \union {[RightServer EXCEPT !.endpoints[e] = x] : e \in AgentEndpoint, x \in AnyUrl}
  \union {[RightServer EXCEPT !.skill = x] : x \in {Absent, Malformed, "other"}}
  \union {[RightServer EXCEPT !.authMethods = x] : x \in SUBSET {"none", "other"}}
  \union {[RightServer EXCEPT !.agentAuth = FALSE]}
  \union {[RightServer EXCEPT !.arrays = x] : x \in {Absent, Malformed}}

(***************************************************************************)
(* The composition                                                         *)
(***************************************************************************)

Init ==
  /\ part \in {"replay", "proof", "limit", "service", "policy", "client", "routing", "check"}
  /\ ClockInit
  /\ ReplayInit /\ replayStore \in IF part = "replay" THEN {"memory", "d1"} ELSE {"d1"}
  /\ ProofInit
  /\ LimitInit /\ limiter \in IF part = "limit" THEN {"memory", "d1"} ELSE {"d1"}
  /\ ServiceInit
  /\ PolicyInit /\ (part = "policy" \/ hour = 0)
  /\ ClientInit /\ (part = "client" \/ remote)
  /\ RoutingInit
  /\ CheckInit

Next ==
  /\ UNCHANGED part
  /\ \/ /\ part = "replay" /\ ReplayNext
        /\ UNCHANGED <<proofVars, limitVars, serviceVars, policyVars, clientVars, routingVars, checkVars>>
     \/ /\ part = "proof" /\ ProofNext
        /\ UNCHANGED <<replayVars, limitVars, serviceVars, policyVars, clientVars, routingVars, checkVars>>
     \/ /\ part = "limit" /\ LimitNext
        /\ UNCHANGED <<replayVars, proofVars, serviceVars, policyVars, clientVars, routingVars, checkVars>>
     \/ /\ part = "service" /\ ServiceNext
        /\ UNCHANGED <<replayVars, proofVars, limitVars, policyVars, clientVars, routingVars, checkVars>>
     \/ /\ part = "policy" /\ PolicyNext /\ UNCHANGED now
        /\ UNCHANGED <<replayVars, proofVars, limitVars, serviceVars, clientVars, routingVars, checkVars>>
     \/ /\ part = "client" /\ ClientNext /\ UNCHANGED now
        /\ UNCHANGED <<replayVars, proofVars, limitVars, serviceVars, policyVars, routingVars, checkVars>>
     \/ /\ part = "routing" /\ RoutingNext /\ UNCHANGED now
        /\ UNCHANGED <<replayVars, proofVars, limitVars, serviceVars, policyVars, clientVars, checkVars>>
     \/ /\ part = "check" /\ CheckNext /\ UNCHANGED now
        /\ UNCHANGED <<replayVars, proofVars, limitVars, serviceVars, policyVars, clientVars, routingVars>>

Spec == Init /\ [][Next]_<<part, now, replayVars, proofVars, limitVars, serviceVars, policyVars,
                          clientVars, routingVars, checkVars>>
=============================================================================
