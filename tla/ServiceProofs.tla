---------------------------- MODULE ServiceProofs ----------------------------
(***************************************************************************)
(* Proofs about TokenService, for any scopes, resources and lifetimes, and *)
(* about WorkerRouting, for any number of issuers and requests.            *)
(***************************************************************************)
EXTENDS TokenService, WorkerRouting, TLAPS

-----------------------------------------------------------------------------
(* The token service *)

\* What a client registered for was allowed, and the checks were passed with it.
IdentityInv ==
  /\ identity.at \notin {"none", "failed"} =>
       /\ identity.ceiling \subseteq Supported
       /\ identity.scopes \subseteq identity.ceiling
       /\ identity.resource \in Protected
  /\ identity.at = "answered" => "accepted" \in attempts

\* A claim exists for a known identity only, and asks for no more than it has.
ClaimInv ==
  claim.at # "none" => identity.at = "answered" /\ claim.scopes \subseteq identity.scopes

\* So does an exchange in progress; one by a claim grant has the scopes of the used claim.
AuthorizationInv ==
  authorization.at # "none" =>
    /\ identity.at = "answered" /\ authorization.scopes \subseteq identity.scopes
    /\ authorization.at = "claim" =>
         claim.at = "used" /\ authorization.scopes = claim.scopes

\* A token rests on an identity that can no longer change.
TokenInv == token.at # "none" => identity.at = "answered" /\ TokenStaysWithin

ServiceInv == ServiceTypeOK /\ IdentityInv /\ ClaimInv /\ AuthorizationInv /\ TokenInv

USE ServiceAssumption

LEMMA RegisterStep ==
  ASSUME ServiceInv, NEW type \in IdentityType, NEW scope \in SUBSET Scope,
         NEW authority \in SUBSET Scope, NEW target \in Target, NEW other \in Target,
         RegisterIdentity(type, scope, target, authority, other)
  PROVE  ServiceInv'
<1> DEFINE ceiling == Ceiling(type, authority)
           scopes == Asked(scope, ceiling)
           resource == TargetOf(type, target, other)
           expiry == IF type = "anonymous" THEN now + AnonymousLifetime ELSE 0
<1>1. ceiling \subseteq Supported /\ scopes \subseteq ceiling
  BY DEF RegisterIdentity, ScopesAllowed
<1>2. resource \in Protected /\ resource \in Target
  BY DEF RegisterIdentity, TargetsAgree, TargetOf, Configured, Target
<1>3. expiry \in Nat
  BY DEF ServiceInv, ServiceTypeOK
<1>4. identity' = [at |-> "checked", type |-> type, ceiling |-> ceiling, scopes |-> scopes,
                   resource |-> resource, expiresAt |-> expiry]
  BY DEF RegisterIdentity
<1> HIDE DEF ceiling, scopes, resource, expiry
<1>5. /\ identity.at = "none" /\ UNCHANGED <<now, attempts, claim, authorization, token>>
      /\ identity'.at = "checked" /\ identity'.ceiling = ceiling
      /\ identity'.scopes = scopes /\ identity'.resource = resource
  BY <1>4 DEF RegisterIdentity
<1>6. ServiceTypeOK'
  BY <1>1, <1>2, <1>3, <1>4, <1>5 DEF ServiceInv, ServiceTypeOK
<1>7. claim.at = "none" /\ authorization.at = "none" /\ token.at = "none"
  BY <1>5 DEF ServiceInv, ClaimInv, AuthorizationInv, TokenInv
<1> QED
  BY <1>1, <1>2, <1>5, <1>6, <1>7
  DEF ServiceInv, IdentityInv, ClaimInv, AuthorizationInv, TokenInv

LEMMA RegistrationStep ==
  ASSUME ServiceInv, RejectIdentity \/ StoreIdentity \/ RecordAccepted
  PROVE  ServiceInv'
<1>1. /\ identity.at \in {"none", "checked", "stored"} /\ identity'.at # "none"
      /\ UNCHANGED <<now, claim, authorization, token>>
      /\ identity' = [identity EXCEPT !.at = identity'.at]
      /\ identity'.at \in {"stored", "answered", "failed"}
      /\ attempts' \subseteq {"accepted", "rejected"}
      /\ identity'.at = "answered" => "accepted" \in attempts'
      /\ identity.at = "none" => identity'.at = "failed"
  BY DEF ServiceInv, ServiceTypeOK, RejectIdentity, StoreIdentity, RecordAccepted
<1>2. /\ identity'.ceiling = identity.ceiling /\ identity'.scopes = identity.scopes
      /\ identity'.resource = identity.resource
  BY <1>1 DEF ServiceInv, ServiceTypeOK
<1>3. ServiceTypeOK'
  BY <1>1 DEF ServiceInv, ServiceTypeOK
<1>4. claim.at = "none" /\ authorization.at = "none" /\ token.at = "none"
  BY <1>1 DEF ServiceInv, ClaimInv, AuthorizationInv, TokenInv
<1> QED
  BY <1>1, <1>2, <1>3, <1>4
  DEF ServiceInv, IdentityInv, ClaimInv, AuthorizationInv, TokenInv

LEMMA ClaimStep ==
  ASSUME ServiceInv, NEW scope \in SUBSET Scope, NEW target \in Target,
         StartServiceClaim(scope, target)
  PROVE  ServiceInv'
<1> DEFINE scopes == Asked(scope, identity.scopes)
<1>1. /\ identity.at = "answered" /\ claim.at = "none" /\ scopes \subseteq identity.scopes
      /\ claim' = [at |-> "approved", scopes |-> scopes, resource |-> identity.resource]
      /\ UNCHANGED <<now, identity, attempts, authorization, token>>
  BY DEF StartServiceClaim, IdentityIsActive
<1> HIDE DEF scopes
<1>2. scopes \in SUBSET Scope /\ identity.resource \in Target
  BY <1>1 DEF ServiceInv, ServiceTypeOK
<1>3. ServiceTypeOK'
  BY <1>1, <1>2 DEF ServiceInv, ServiceTypeOK
<1>4. ClaimInv' /\ AuthorizationInv'
  BY <1>1 DEF ServiceInv, ClaimInv, AuthorizationInv
<1>5. token.at # "claim"
  BY <1>1 DEF ServiceInv, TokenInv, TokenStaysWithin
<1>6. IdentityInv' /\ TokenInv'
  BY <1>1, <1>5 DEF ServiceInv, IdentityInv, TokenInv, TokenStaysWithin
<1> QED
  BY <1>3, <1>4, <1>6 DEF ServiceInv

LEMMA AuthorizationStep ==
  ASSUME ServiceInv,
         \/ AuthorizeByClaim
         \/ \E authority \in SUBSET Scope, target \in Target :
              AuthorizeByAssertion(authority, target)
  PROVE  ServiceInv'
<1>1. CASE AuthorizeByClaim
  <2>1. /\ claim.at = "approved" /\ token.at = "none" /\ authorization.at = "none"
        /\ claim' = [claim EXCEPT !.at = "used"]
        /\ authorization' = authorization \/ authorization' = [claim EXCEPT !.at = "claim"]
        /\ UNCHANGED <<now, identity, attempts, token>>
    BY <1>1 DEF AuthorizeByClaim
  <2>2. ServiceTypeOK'
    BY <2>1 DEF ServiceInv, ServiceTypeOK
  <2>3. identity.at = "answered" /\ claim.scopes \subseteq identity.scopes
    BY <2>1 DEF ServiceInv, ClaimInv
  <2>4. claim'.at = "used" /\ claim'.scopes = claim.scopes
    BY <2>1 DEF ServiceInv, ServiceTypeOK
  <2>5. authorization'.at = "none" \/ authorization'.scopes = claim.scopes
    BY <2>1 DEF ServiceInv, ServiceTypeOK
  <2> QED
    BY <2>1, <2>2, <2>3, <2>4, <2>5
    DEF ServiceInv, IdentityInv, ClaimInv, AuthorizationInv, TokenInv
<1>2. ASSUME NEW authority \in SUBSET Scope, NEW target \in Target,
             AuthorizeByAssertion(authority, target)
      PROVE  ServiceInv'
  <2> DEFINE scopes == Asked(authority, identity.scopes)
  <2>1. /\ identity.at = "answered" /\ token.at = "none" /\ scopes \subseteq identity.scopes
        /\ authorization' = [at |-> "bearer", scopes |-> scopes, resource |-> target]
        /\ UNCHANGED <<now, identity, attempts, claim, token>>
    BY <1>2 DEF AuthorizeByAssertion, IdentityIsActive
  <2> HIDE DEF scopes
  <2>2. scopes \in SUBSET Scope
    BY <2>1 DEF ServiceInv, ServiceTypeOK
  <2>3. ServiceTypeOK'
    BY <1>2, <2>1, <2>2 DEF ServiceInv, ServiceTypeOK
  <2> QED
    BY <2>1, <2>3
    DEF ServiceInv, IdentityInv, ClaimInv, AuthorizationInv, TokenInv
<1> QED
  BY <1>1, <1>2

LEMMA ExchangeStep ==
  ASSUME ServiceInv,
         \/ \E scope \in SUBSET Scope, target \in Target : IssueToken(scope, target)
         \/ ExchangeFails
  PROVE  ServiceInv'
<1>1. NoGrant.at = "none" /\ NoGrant \in [at: {"none", "claim", "bearer"},
                                          scopes: SUBSET Scope, resource: Target]
  BY DEF NoGrant, Target
<1>2. CASE ExchangeFails
  <2>1. ServiceTypeOK'
    BY <1>1, <1>2 DEF ExchangeFails, ServiceInv, ServiceTypeOK
  <2> QED
    BY <1>1, <1>2, <2>1
    DEF ExchangeFails, ServiceInv, IdentityInv, ClaimInv, AuthorizationInv, TokenInv,
        TokenStaysWithin
<1>3. ASSUME NEW scope \in SUBSET Scope, NEW target \in Target, IssueToken(scope, target)
      PROVE  ServiceInv'
  <2> DEFINE scopes == Asked(scope, authorization.scopes)
  <2>1. /\ authorization.at # "none" /\ scopes \subseteq authorization.scopes
        /\ token' = [at |-> authorization.at, scopes |-> scopes, resource |-> identity.resource]
        /\ authorization' = NoGrant
        /\ UNCHANGED <<now, identity, attempts, claim>>
    BY <1>3 DEF IssueToken, AllowedByAuthorization
  <2> HIDE DEF scopes
  <2>2. /\ identity.at = "answered" /\ authorization.scopes \subseteq identity.scopes
        /\ authorization.at = "claim" =>
             claim.at = "used" /\ authorization.scopes = claim.scopes
    BY <2>1 DEF ServiceInv, AuthorizationInv
  <2>3. ServiceTypeOK'
    BY <1>1, <2>1 DEF ServiceInv, ServiceTypeOK
  <2>4. /\ token'.at = authorization.at /\ token'.scopes = scopes
        /\ token'.resource = identity.resource
    BY <2>1
  <2>5. TokenStaysWithin' /\ IdentityInv'
    BY <2>1, <2>2, <2>4 DEF TokenStaysWithin, ServiceInv, IdentityInv
  <2> QED
    BY <1>1, <2>1, <2>2, <2>3, <2>5 DEF ServiceInv, ClaimInv, AuthorizationInv, TokenInv
<1> QED
  BY <1>2, <1>3

LEMMA ServiceInvHolds == ServiceSpec => []ServiceInv
<1>1. ClockInit /\ ServiceInit => ServiceInv
  BY DEF ClockInit, ServiceInit, ServiceInv, ServiceTypeOK, IdentityInv, ClaimInv,
         AuthorizationInv, TokenInv, NoGrant, Target, IdentityType
<1>2. ServiceInv /\ [ServiceNext]_<<now, serviceVars>> => ServiceInv'
  <2> SUFFICES ASSUME ServiceInv, [ServiceNext]_<<now, serviceVars>>
               PROVE  ServiceInv'
    OBVIOUS
  <2>1. CASE ServiceTick \/ UNCHANGED <<now, serviceVars>>
    <3>1. UNCHANGED serviceVars /\ now' \in Nat
      BY <2>1 DEF ServiceTick, Tick, ServiceInv, ServiceTypeOK
    <3> QED
      BY <3>1 DEF serviceVars, ServiceInv, ServiceTypeOK, IdentityInv, ClaimInv,
                  AuthorizationInv, TokenInv, TokenStaysWithin
  <2>2. CASE ServiceNext /\ ~ServiceTick
    BY <2>2, RegisterStep, RegistrationStep, ClaimStep, AuthorizationStep, ExchangeStep
    DEF ServiceNext
  <2> QED
    BY <2>1, <2>2
<1> QED
  BY <1>1, <1>2, PTL DEF ServiceSpec

\* Whatever scopes and resources there are, nothing widens from the registration to the token,
\* although every exchange checks its request against the step before it only.
THEOREM TokenNeverWidens == ServiceSpec => []TokenStaysWithin
<1>1. ServiceInv => TokenStaysWithin
  BY DEF ServiceInv, TokenInv, TokenStaysWithin
<1> QED
  BY <1>1, ServiceInvHolds, PTL

-----------------------------------------------------------------------------
(* Routing *)

\* Until requests of two issuers wait side by side, whatever is cached or awaited is of the
\* issuer that was last asked for.
RoutingInv ==
  /\ router \in Issuer \union {Nobody} /\ configuredIssuer \in Issuer \union {Nobody}
  /\ fetches \in [Fetch -> Issuer \union {Nobody}]
  /\ ~overlapped =>
       /\ router \in {Nobody, configuredIssuer}
       /\ \A f \in Fetch : fetches[f] \in {Nobody, configuredIssuer}
       /\ served.asked = served.by

LEMMA ArriveStep ==
  ASSUME RoutingInv, NEW f \in Fetch, NEW i \in Issuer, ArriveAt(f, i)
  PROVE  RoutingInv'
<1>1. configuredIssuer' = i /\ router' = KeptRouter(i) /\ i # Nobody
  BY RoutingAssumption DEF ArriveAt
<1>2. CASE KeptRouter(i) = Nobody
  <2>1. /\ fetches' = [fetches EXCEPT ![f] = i] /\ UNCHANGED served
        /\ overlapped' = (overlapped \/ \E g \in Fetch : fetches[g] \notin {i, Nobody})
    BY <1>2 DEF ArriveAt
  <2> QED
    BY <1>1, <1>2, <2>1 DEF RoutingInv
<1>3. CASE KeptRouter(i) # Nobody
  <2>1. /\ configuredIssuer = i /\ router = KeptRouter(i)
        /\ served' = [asked |-> i, by |-> router] /\ UNCHANGED <<fetches, overlapped>>
    BY <1>3 DEF ArriveAt, KeptRouter
  <2> QED
    BY <1>1, <1>3, <2>1 DEF RoutingInv
<1> QED
  BY <1>2, <1>3

LEMMA ReadyStep ==
  ASSUME RoutingInv, NEW f \in Fetch, ServiceReady(f)
  PROVE  RoutingInv'
BY DEF RoutingInv, ServiceReady

\* For any number of issuers and requests, a request is served by the service of its own issuer
\* unless requests of two issuers awaited their services side by side.
THEOREM RouterIsTheIssuers == RoutingSpec => []ServedByOwnIssuer
<1>1. RoutingInit => RoutingInv
  BY DEF RoutingInit, RoutingInv
<1>2. RoutingInv /\ [RoutingNext]_routingVars => RoutingInv'
  <2>1. ASSUME RoutingInv, UNCHANGED routingVars
        PROVE  RoutingInv'
    BY <2>1 DEF RoutingInv, routingVars
  <2> QED
    BY <2>1, ArriveStep, ReadyStep DEF RoutingNext
<1>3. RoutingInv => ServedByOwnIssuer
  BY DEF RoutingInv, ServedByOwnIssuer
<1> QED
  BY <1>1, <1>2, <1>3, PTL DEF RoutingSpec
=============================================================================
