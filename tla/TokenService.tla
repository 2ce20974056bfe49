---------------------------- MODULE TokenService -----------------------------
(***************************************************************************)
(* What a registration, a claim and an exchange hand on to each other      *)
(* (service.ts, AgentAuthService): scopes and the protected resource, with *)
(* the checks of every step, an identity that may expire meanwhile, and    *)
(* writes that may fail. One identity with one claim and one token; how    *)
(* the claim is approved and used once is module ClaimCeremony, that an    *)
(* assertion is used once module AssertionReplay.                          *)
(***************************************************************************)
EXTENDS Clock

CONSTANTS
  Scope,              \* every scope a request may name
  Supported,          \* supportedScopes
  Resource,           \* every resource a request may name
  Protected,          \* protectedResources
  Default,            \* defaultResource
  NoResource,         \* a request, authority or assertion that names none
  AnonymousLifetime   \* anonymous.expiresInSeconds

ASSUME ServiceAssumption ==
  /\ Supported \subseteq Scope /\ Protected \subseteq Resource
  /\ Default \in Protected /\ NoResource \notin Resource
  /\ AnonymousLifetime \in Nat \ {0}

VARIABLES
  identity,       \* the registered identity; at: how far its registration came
  attempts,       \* outcomes in the audit of registration attempts
  claim,          \* scopes and resource of its claim; at: "none", "approved", "used"
  authorization,  \* what identityForExchange returned to an exchange in progress
  token           \* the issued token; via: the grant it was issued for

serviceVars == <<identity, attempts, claim, authorization, token>>

IdentityType == {"anonymous", "service_auth", "identity_assertion"}
Target == Resource \union {NoResource}
NoGrant == [at |-> "none", scopes |-> {}, resource |-> NoResource]

ServiceTypeOK ==
  /\ now \in Nat
  /\ identity \in [at: {"none", "checked", "stored", "answered", "failed"}, type: IdentityType,
                   ceiling: SUBSET Scope, scopes: SUBSET Scope, resource: Target, expiresAt: Nat]
  /\ attempts \subseteq {"accepted", "rejected"}
  /\ claim \in [at: {"none", "approved", "used"}, scopes: SUBSET Scope, resource: Target]
  /\ authorization \in [at: {"none", "claim", "bearer"}, scopes: SUBSET Scope, resource: Target]
  /\ token \in [at: {"none", "claim", "bearer"}, scopes: SUBSET Scope, resource: Target]

ServiceInit ==
  /\ identity = [at |-> "none", type |-> "anonymous", ceiling |-> {}, scopes |-> {},
                 resource |-> NoResource, expiresAt |-> 0]
  /\ attempts = {}
  /\ claim = NoGrant
  /\ authorization = NoGrant
  /\ token = NoGrant

\* requestedScopes: no scope asks for everything allowed.
Asked(scope, allowed) == IF scope = {} THEN allowed ELSE scope
Configured(target) == target \in Protected \union {NoResource}

(***************************************************************************)
(* Registration                                                            *)
(***************************************************************************)

\* What the authenticator or the assertion lets the client register for.
Ceiling(type, authority) ==
  CASE type = "anonymous" -> Supported
    [] type = "service_auth" -> authority
    [] type = "identity_assertion" -> Asked(authority, Supported)

\* The authority's resource comes before the requested one; both must agree.
TargetsAgree(type, target, authorityTarget) ==
  type = "anonymous" \/ authorityTarget = NoResource
    \/ (authorityTarget \in Protected /\ target \in {NoResource, authorityTarget})
TargetOf(type, target, authorityTarget) ==
  CASE type # "anonymous" /\ authorityTarget # NoResource -> authorityTarget
    [] OTHER -> IF target = NoResource THEN Default ELSE target

ScopesAllowed(scopes, ceiling) == ceiling \subseteq Supported /\ scopes \subseteq ceiling

RegisterIdentity(type, scope, target, authority, authorityTarget) ==
  LET ceiling == Ceiling(type, authority)  scopes == Asked(scope, ceiling) IN
  /\ identity.at = "none"
  /\ scope \subseteq Supported /\ Configured(target)
  /\ ScopesAllowed(scopes, ceiling)
  /\ TargetsAgree(type, target, authorityTarget)
  /\ identity' = [at |-> "checked", type |-> type, ceiling |-> ceiling, scopes |-> scopes,
                  resource |-> TargetOf(type, target, authorityTarget),
                  expiresAt |-> IF type = "anonymous" THEN now + AnonymousLifetime ELSE 0]
  /\ UNCHANGED <<now, attempts, claim, authorization, token>>

\* A refusal, or a write that fails, is recorded if that is possible.
RejectIdentity ==
  /\ identity.at \in {"none", "checked"}
  /\ identity' = [identity EXCEPT !.at = "failed"]
  /\ attempts' \in {attempts, attempts \union {"rejected"}}
  /\ UNCHANGED <<now, claim, authorization, token>>

StoreIdentity ==
  /\ identity.at = "checked"
  /\ identity' = [identity EXCEPT !.at = "stored"]
  /\ UNCHANGED <<now, attempts, claim, authorization, token>>

\* An accepted attempt that cannot be recorded fails the request, although the identity is
\* stored: nobody learns its id.
RecordAccepted ==
  /\ identity.at = "stored"
  /\ \/ identity' = [identity EXCEPT !.at = "answered"] /\ attempts' = attempts \union {"accepted"}
     \/ identity' = [identity EXCEPT !.at = "failed"] /\ UNCHANGED attempts
  /\ UNCHANGED <<now, claim, authorization, token>>

(***************************************************************************)
(* Claims and exchanges                                                    *)
(***************************************************************************)

\* requireActiveIdentity; its id is known once the registration is answered.
IdentityIsActive ==
  identity.at = "answered" /\ (identity.expiresAt = 0 \/ identity.expiresAt > now)

StartServiceClaim(scope, target) ==
  LET scopes == Asked(scope, identity.scopes) IN
  /\ IdentityIsActive
  /\ claim.at = "none"
  /\ scopes \subseteq identity.scopes
  /\ Configured(target) /\ target \in {NoResource, identity.resource}
  /\ claim' = [at |-> "approved", scopes |-> scopes, resource |-> identity.resource]
  /\ UNCHANGED <<now, identity, attempts, authorization, token>>

\* A claim grant: the claim is used up before anything else is looked at.
AuthorizeByClaim ==
  /\ authorization.at = "none" /\ token.at = "none"
  /\ claim.at = "approved"
  /\ claim' = [claim EXCEPT !.at = "used"]
  /\ authorization' = IF IdentityIsActive THEN [claim EXCEPT !.at = "claim"] ELSE authorization
  /\ UNCHANGED <<now, identity, attempts, token>>

\* A JWT bearer assertion about an identity that was registered by one.
AuthorizeByAssertion(authority, target) ==
  LET scopes == Asked(authority, identity.scopes) IN
  /\ authorization.at = "none" /\ token.at = "none"
  /\ IdentityIsActive /\ identity.type = "identity_assertion"
  /\ scopes \subseteq identity.scopes
  /\ Configured(target) /\ target \in {NoResource, identity.resource}
  /\ authorization' = [at |-> "bearer", scopes |-> scopes, resource |-> target]
  /\ UNCHANGED <<now, identity, attempts, claim, token>>

AllowedByIdentity(scopes) == scopes \subseteq identity.scopes  \* fault: not the claim's
AllowedByAuthorization(scopes) == scopes \subseteq authorization.scopes

\* exchangeToken after identityForExchange
IssueToken(scope, target) ==
  LET scopes == Asked(scope, authorization.scopes)
      resource == CASE target # NoResource -> target
                    [] authorization.resource # NoResource -> authorization.resource
                    [] OTHER -> identity.resource
  IN  /\ authorization.at # "none"
      /\ AllowedByAuthorization(scopes)
      /\ resource \in Protected
      /\ resource = identity.resource
      /\ authorization.resource \in {NoResource, resource}
      /\ token' = [at |-> authorization.at, scopes |-> scopes, resource |-> resource]
      /\ authorization' = NoGrant
      /\ UNCHANGED <<now, identity, attempts, claim>>

\* invalid_scope, invalid_target, or the token cannot be stored: the claim stays used, the
\* assertion marked.
ExchangeFails ==
  /\ authorization.at # "none"
  /\ authorization' = NoGrant
  /\ UNCHANGED <<now, identity, attempts, claim, token>>

ServiceTick == Tick /\ UNCHANGED serviceVars

ServiceNext ==
  \/ \E type \in IdentityType, scope, authority \in SUBSET Scope, target, other \in Target :
       RegisterIdentity(type, scope, target, authority, other)
  \/ RejectIdentity
  \/ StoreIdentity
  \/ RecordAccepted
  \/ \E scope \in SUBSET Scope, target \in Target :
       \/ StartServiceClaim(scope, target)
       \/ AuthorizeByAssertion(scope, target)
       \/ IssueToken(scope, target)
  \/ AuthorizeByClaim
  \/ ExchangeFails
  \/ ServiceTick

ServiceSpec == ClockInit /\ ServiceInit /\ [][ServiceNext]_<<now, serviceVars>>

\* Along registration, claim and exchange nothing widens: a token's scopes are within those of
\* its claim, its identity and whoever vouched for the identity, for a protected resource that
\* is the identity's, and the registration it rests on is in the audit.
TokenStaysWithin ==
  token.at # "none" =>
    /\ token.scopes \subseteq identity.scopes
    /\ identity.scopes \subseteq identity.ceiling \intersect Supported
    /\ token.at = "claim" => claim.at = "used" /\ token.scopes \subseteq claim.scopes
    /\ token.resource = identity.resource /\ token.resource \in Protected
    /\ "accepted" \in attempts
=============================================================================
