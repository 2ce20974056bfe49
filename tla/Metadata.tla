------------------------------- MODULE Metadata ------------------------------
(***************************************************************************)
(* The documents the conformance check compares (packages/cli): auth.md    *)
(* (authmd.ts), the protected resource metadata and the authorization      *)
(* server metadata (metadata.ts), each as what the validators tell apart,  *)
(* and the findings of the validators, as sets of rules.                   *)
(***************************************************************************)
EXTENDS Naturals, Sequences, FiniteSets

CONSTANTS
  Section,  \* REQUIRED_AUTHMD_SECTIONS
  Url,      \* the URLs an issuer or an endpoint may have
  PageOf,   \* normalizeResourceUrl: a URL without query, fragment and last slash
  OriginOf  \* its origin

Absent == "absent"
Malformed == "malformed"  \* no absolute HTTPS URL without a fragment; no array of strings
Good == "good"

Mode == {"identity_assertion", "service_auth", "anonymous"}
Grant == {"jwt_bearer", "claim"}
UrlField == {"token_endpoint", "revocation_endpoint"}
AgentEndpoint == {"identity_endpoint", "claim_endpoint", "events_endpoint"}

\* parseAuthMd: headings of level two, links to metadata, the first issuer, the modes it names
AuthMd == [sections: [Section -> {Good, Absent, "empty", "duplicate"}],
           unknownSection: BOOLEAN,
           references: SUBSET {Good, Malformed},
           issuer: {Absent, Malformed} \union Url,
           modes: SUBSET Mode]

ResourceMetadata == [resource: {Absent, Malformed, "other", "subject"},
                     servers: Seq({Malformed} \union Url),
                     arrays: {Absent, Good, Malformed}]  \* scopes, bearer methods

\* agentAuth.skill: the auth.md that was fetched, or another page. A set that is empty stands
\* for an array that is missing, empty or not of strings.
ServerMetadata == [issuer: {Absent, Malformed} \union Url,
                   urls: [UrlField -> {Good, Absent, Malformed}],
                   grants: SUBSET (Grant \union {"other"}),
                   authMethods: SUBSET {"none", "other"},
                   agentAuth: BOOLEAN,      \* it is an object
                   skill: {Absent, Malformed, "other", "fetched"},
                   endpoints: [AgentEndpoint -> {Absent, Malformed} \union Url],
                   modes: SUBSET (Mode \union {"unknown"}),
                   arrays: {Good, Absent, Malformed}]  \* assertion types, events

Valid(url) == url \notin {Absent, Malformed}

ASSUME UrlAssumption == \A u \in Url : Valid(u)

SameUrl(a, b) == PageOf[a] = PageOf[b]
SameOrigin(a, b) == OriginOf[a] = OriginOf[b]

Rules(rule, condition) == IF condition THEN {rule} ELSE {}

ValidateAuthMd(d) ==
  Rules("AUTHMD_REQUIRED_SECTION", \E s \in Section : d.sections[s] = Absent)
    \union Rules("AUTHMD_DUPLICATE_SECTION", \E s \in Section : d.sections[s] = "duplicate")
    \union Rules("AUTHMD_EMPTY_SECTION", \E s \in Section : d.sections[s] = "empty")
    \union Rules("AUTHMD_METADATA_URL", Malformed \in d.references)

AuthMdWarnings(d) == Rules("AUTHMD_UNKNOWN_SECTION", d.unknownSection)

ValidateResource(m) ==
  Rules("PRM_RESOURCE_REQUIRED", m.resource = Absent)
    \union Rules("PRM_RESOURCE_URL", m.resource = Malformed)
    \union Rules("PRM_RESOURCE_MISMATCH", m.resource = "other")
    \union Rules("PRM_AUTHORIZATION_SERVERS_REQUIRED", m.servers = <<>>)
    \union Rules("PRM_AUTHORIZATION_SERVER_URL", \E i \in DOMAIN m.servers : ~Valid(m.servers[i]))
    \union Rules("PRM_ARRAYS_TYPE", m.arrays = Malformed)

\* firstValidAuthorizationServer, Absent if there is none
DeclaredServer(m) ==
  LET valid == {i \in DOMAIN m.servers : Valid(m.servers[i])}
  IN  IF valid = {} THEN Absent
      ELSE m.servers[CHOOSE i \in valid : \A j \in valid : i <= j]

ValidateAgentAuth(m, d) ==
  Rules("AGENT_AUTH_MISSING_KEY",
        Absent \in {m.skill, m.arrays} \union {m.endpoints[e] : e \in AgentEndpoint})
    \union Rules("AGENT_AUTH_SKILL_URL", ~Valid(m.skill))
    \union Rules("AGENT_AUTH_SKILL_MISMATCH", m.skill = "other")
    \union Rules("AGENT_AUTH_ENDPOINT_URL", \E e \in AgentEndpoint : ~Valid(m.endpoints[e]))
    \union Rules("AGENT_AUTH_ENDPOINT_ISSUER",
                 /\ Valid(m.issuer)
                 /\ \E e \in AgentEndpoint :
                      Valid(m.endpoints[e]) /\ ~SameOrigin(m.endpoints[e], m.issuer))
    \union Rules("AGENT_AUTH_IDENTITY_TYPES", m.modes = {})
    \union Rules("AGENT_AUTH_UNKNOWN_REGISTRATION_MODE", "unknown" \in m.modes)
    \union Rules("AGENT_AUTH_ARRAYS", m.arrays # Good)
    \union Rules("AUTHMD_REGISTRATION_MODE_MISMATCH", ~(d.modes \subseteq m.modes))

ValidateGrantCoherence(m, d) ==
  Rules("AS_GRANT_TYPE_MISMATCH",
        \/ "identity_assertion" \in d.modes /\ "jwt_bearer" \notin m.grants
        \/ {"anonymous", "service_auth"} \intersect d.modes # {} /\ "claim" \notin m.grants)

ValidateIdentityConsistency(m, r, d) ==
  Rules("PRM_ISSUER_MISMATCH", Valid(DeclaredServer(r)) /\ ~SameUrl(DeclaredServer(r), m.issuer))
    \union Rules("AUTHMD_ISSUER_MISMATCH", Valid(d.issuer) /\ ~SameUrl(d.issuer, m.issuer))

ValidateServer(m, r, d) ==
  Rules("AS_ISSUER", ~Valid(m.issuer))
    \union Rules("AS_ENDPOINT", \E f \in UrlField : m.urls[f] # Good)
    \union Rules("AS_GRANT_TYPES", m.grants = {})
    \union Rules("AS_TOKEN_AUTH_METHODS", m.authMethods = {})
    \union (IF m.agentAuth THEN ValidateAgentAuth(m, d) ELSE {"AGENT_AUTH_REQUIRED"})
    \union ValidateGrantCoherence(m, d)
    \union Rules("AS_TOKEN_AUTH_PUBLIC_CLIENT", d.modes # {} /\ "none" \notin m.authMethods)
    \union (IF Valid(m.issuer) THEN ValidateIdentityConsistency(m, r, d) ELSE {})

\* What an agent that goes by the three documents needs: it reads the auth.md that the issuer
\* names, the resource is the one it asked for, its issuer is the same page everywhere and the
\* endpoints of agent_auth are at its origin, and each way to register that auth.md describes
\* is offered and leads to a token for a client without a secret. (Nothing ties the token and
\* revocation endpoints to the issuer, in the code either.)
AgentCanFollow(d, r, m) ==
  /\ \A s \in Section : d.sections[s] = Good
  /\ r.resource = "subject" /\ r.servers # <<>>
  /\ m.issuer \in Url /\ SameUrl(Head(r.servers), m.issuer)
  /\ Valid(d.issuer) => SameUrl(d.issuer, m.issuer)
  /\ m.agentAuth /\ m.skill = "fetched"
  /\ \A f \in UrlField : m.urls[f] = Good
  /\ \A e \in AgentEndpoint : m.endpoints[e] \in Url /\ SameOrigin(m.endpoints[e], m.issuer)
  /\ d.modes # {} => "none" \in m.authMethods
  /\ \A mode \in d.modes :
       mode \in m.modes /\ (IF mode = "identity_assertion" THEN "jwt_bearer" ELSE "claim") \in m.grants
=============================================================================
