------------------------------- MODULE Broker -------------------------------
(***************************************************************************)
(* The in-memory broker of packages/broker: Broker (broker.ts) over        *)
(* InMemoryBrokerStore (store.ts), with any number of calls in flight.     *)
(*                                                                         *)
(* JavaScript runs one continuation at a time, so an action is what a call *)
(* does between two awaits that can take real time: the authority binding, *)
(* WebCrypto (mint, proof verification) and a grant's lock while another   *)
(* call holds it. The per-grant lock is the FIFO promise chain of          *)
(* withLock: queue[g] lists the calls in it, and the first one holds it.   *)
(* The "exchange" and "subject:" locks guard synchronous bodies only, so a *)
(* body under one of them is one step.                                     *)
(*                                                                         *)
(* Time is counted in whole seconds. The deliveries that follow the end of *)
(* a grant are here for what they do to its trail and its evidence; how    *)
(* they are handed over and retried is module RevocationDelivery.          *)
(***************************************************************************)
EXTENDS Naturals, Sequences

CONSTANTS
  Request,         \* the calls that can be in flight at once
  Grant,           \* the ids randomId("grant") can return
  SubjectToken,    \* subjectTokenId of a proposal
  IdempotencyKey,  \* agentId:idempotencyKey of a proposal
  None,            \* an absent value (undefined)
  Ttl,             \* the lifetimes a proposal may ask for
  Target,          \* revocationTargets
  ApiSource,       \* the sources that callers of complete and revoke name
  MaxTime,         \* bound: the clock stops there
  MaxAttempts      \* bound: later attempts to deliver a grant's revocation do not fail

ASSUME BrokerAssumption ==
  /\ MaxTime \in Nat /\ MaxAttempts \in Nat
  /\ Ttl \subseteq Nat \ {0}
  /\ None \notin Request \union Grant \union SubjectToken \union IdempotencyKey

VARIABLES
  now,          \* clock.now()
  grants,       \* the grants map
  tokenGrant,   \* the subjectTokenGrant map
  idempotency,  \* the idempotency map
  queue,        \* Grant -> the calls in the chain of lock "grant:<id>"
  audits,       \* Grant -> the types of its audit events, in order
  evidence,     \* Grant -> its evidence record, or None
  deliveries,   \* Grant -> Target -> the status of its revocation delivery
  calls,        \* Request -> the call in flight
  minted,       \* history: Grant -> credentials returned for it
  uses          \* history: Grant -> successful consumes of it

store == <<grants, tokenGrant, idempotency, audits, evidence, deliveries>>
history == <<minted, uses>>
vars == <<now, store, queue, calls, history>>

(***************************************************************************)
(* Types                                                                   *)
(***************************************************************************)

GrantStatus == {"proposed", "approved", "consumed", "revoked", "expired", "denied"}
Decision == {"allow", "block", "require-approval"}
CompletionSource == {"agent", "resource", "ttl", "operator"}
FinalStatus == {"revoked", "expired"}
DeliveryStatus == {"none", "pending", "delivered", "failed"}
AuditType == {"grant_proposed", "grant_approved", "grant_denied", "grant_consumed",
              "grant_completed", "grant_revoked", "grant_expired", "revocation_delivery"}

ASSUME ApiSourceAssumption == ApiSource \subseteq CompletionSource

GrantRecord == [status: GrantStatus \union {"absent"},
                token: SubjectToken \union {None},
                key: IdempotencyKey \union {None},
                expiresAt: Nat,
                approver: {None, "policy", "approved"}]

NoGrant == [status |-> "absent", token |-> None, key |-> None,
            expiresAt |-> 0, approver |-> None]

EvidenceRecord == [source: CompletionSource,
                   approver: {None, "policy", "approved"},
                   timeline: Seq(AuditType),
                   deliveries: [Target -> DeliveryStatus]]

ASSUME NoneIsNoEvidence == None \notin EvidenceRecord

\* An approver is somebody.
ASSUME NoneIsNobody == None \notin {"policy", "approved"}

\* The awaits a call can be at. It holds its grant's lock in the last three; it delivers
\* without a lock.
Queued == {"approve", "consume", "finalize"}
Holding == {"reserving", "signing", "proving"}
CallState == {"idle", "resolving", "minting", "completing", "delivering"}
               \union Queued \union Holding

CallRecord == [at: CallState,
               grant: Grant \union {None},
               token: SubjectToken \union {None},
               key: IdempotencyKey \union {None},
               ttl: Nat,
               source: CompletionSource \union {None},
               final: FinalStatus \union {None},
               left: SUBSET Target]

Idle == [at |-> "idle", grant |-> None, token |-> None, key |-> None,
         ttl |-> 0, source |-> None, final |-> None, left |-> {}]

TypeOK ==
  /\ now \in 0..MaxTime
  /\ grants \in [Grant -> GrantRecord]
  /\ tokenGrant \in [SubjectToken -> Grant \union {None}]
  /\ idempotency \in [IdempotencyKey -> Grant \union {None}]
  /\ queue \in [Grant -> Seq(Request)]
  /\ audits \in [Grant -> Seq(AuditType)]
  /\ evidence \in [Grant -> EvidenceRecord \union {None}]
  /\ deliveries \in [Grant -> [Target -> DeliveryStatus]]
  /\ calls \in [Request -> CallRecord]
  /\ minted \in [Grant -> Nat]
  /\ uses \in [Grant -> Nat]

Init ==
  /\ now = 0
  /\ grants = [g \in Grant |-> NoGrant]
  /\ tokenGrant = [t \in SubjectToken |-> None]
  /\ idempotency = [k \in IdempotencyKey |-> None]
  /\ queue = [g \in Grant |-> <<>>]
  /\ audits = [g \in Grant |-> <<>>]
  /\ evidence = [g \in Grant |-> None]
  /\ deliveries = [g \in Grant |-> [x \in Target |-> "none"]]
  /\ calls = [r \in Request |-> Idle]
  /\ minted = [g \in Grant |-> 0]
  /\ uses = [g \in Grant |-> 0]

(***************************************************************************)
(* Helpers                                                                 *)
(***************************************************************************)

Exists(g) == grants[g].status # "absent"

\* assertNotExpired throws, and nothing of the grant changes.
Expired(g) == grants[g].status = "expired" \/ grants[g].expiresAt <= now

\* The conditions under which approve and consume go on past their early returns.
ApprovableTwice(g) == ~Expired(g)  \* fault: no status check
Approvable(g) == ~Expired(g) /\ grants[g].status = "proposed"

ConsumableAnyStatus(g) == ~Expired(g)  \* fault: no status check
Consumable(g) == ~Expired(g) /\ grants[g].status = "approved"

\* The subject token is free, or already held by this very grant.
ReservableAlways(t, g) == TRUE  \* fault: a reservation overwrites another
Reservable(t, g) == tokenGrant[t] \in {None, g}

\* The proposal's idempotency key already leads to a grant.
KnownKeyNever(k) == FALSE  \* fault: the key is stored and never looked up
KnownKey(k) == k # None /\ idempotency[k] # None

\* finalize goes on past "existing evidence" and "denied".
FinalizableAgain(g) == grants[g].status # "denied"  \* fault: evidence rewritten
Finalizable(g) == evidence[g] = None /\ grants[g].status # "denied"

FirstStatus(decision) ==
  IF decision = "allow" THEN "approved"
  ELSE IF decision = "block" THEN "denied" ELSE "proposed"

FirstEvents(decision) ==
  IF decision = "allow" THEN <<"grant_proposed", "grant_approved">>
  ELSE IF decision = "block" THEN <<"grant_proposed", "grant_denied">>
  ELSE <<"grant_proposed">>

FinalEvent(source, final) ==
  IF final = "expired" THEN "grant_expired"
  ELSE IF source = "agent" THEN "grant_completed" ELSE "grant_revoked"

\* The deliveries a call of finalize goes through: those of an ended grant that are not
\* delivered. Attempts counts what was tried for the grant so far.
Undelivered(g) == {x \in Target : deliveries[g][x] \in {"pending", "failed"}}
Attempts(g) == Len(audits[g]) - Len(evidence[g].timeline)

\* refreshEvidenceDeliveries: the evidence repeats the deliveries ds of its grant.
RefreshForgotten(g, ds) == UNCHANGED evidence  \* fault: the first snapshot stays
RefreshEvidence(g, ds) ==
  evidence' = [evidence EXCEPT ![g] = [@ EXCEPT !.deliveries = ds]]

HasTurnUnlocked(r, p) == calls[r].at = p  \* fault: no lock around the transition

\* Call r is at await p and is the one the chain of its grant's lock lets run.
HasTurn(r, p) ==
  /\ calls[r].at = p
  /\ queue[calls[r].grant] # <<>>
  /\ Head(queue[calls[r].grant]) = r

Enqueue(r, g) == queue' = [queue EXCEPT ![g] = Append(@, r)]

ReleaseNever(r) == UNCHANGED queue  \* fault: the gate is not released
Release(r) == queue' = [queue EXCEPT ![calls[r].grant] = Tail(@)]
Return(r) == calls' = [calls EXCEPT ![r] = Idle]
GoTo(r, p) == calls' = [calls EXCEPT ![r].at = p]

\* The call has still to deliver to the targets in left (its own copy), or returns.
GoDeliver(r, g, left) ==
  calls' = [calls EXCEPT ![r] =
    IF left = {} THEN Idle ELSE [Idle EXCEPT !.at = "delivering", !.grant = g, !.left = left]]

\* The call fails or finds nothing to do: it leaves the lock and returns.
LeaveLock(r) ==
  /\ Release(r)
  /\ Return(r)
  /\ UNCHANGED <<now, store, history>>

(***************************************************************************)
(* exchange                                                                *)
(***************************************************************************)

\* A well-formed proposal arrives; the call waits for the authority resolver.
StartExchange(r) ==
  /\ calls[r].at = "idle"
  /\ \E t \in SubjectToken, k \in IdempotencyKey \union {None}, ttl \in Ttl :
       calls' = [calls EXCEPT ![r] =
         [Idle EXCEPT !.at = "resolving", !.token = t, !.key = k, !.ttl = ttl]]
  /\ UNCHANGED <<now, store, queue, history>>

\* The resolver refuses, or an earlier grant is replayed for the key (no new credential),
\* or policy allows and the subject token already belongs to another grant.
ExchangeEndsEarly(r) ==
  /\ calls[r].at = "resolving"
  /\ Return(r)
  /\ UNCHANGED <<now, store, queue, history>>

\* createExchangeGrant stores a new grant and the audit events follow at once. An allowed
\* grant is approved and holds its subject token before its credential is signed.
CreateGrant(r, g, decision) ==
  LET c == calls[r]
      allowed == decision = "allow"
  IN /\ c.at = "resolving"
     /\ ~Exists(g)
     /\ ~KnownKey(c.key)
     /\ allowed => Reservable(c.token, g)
     /\ grants' = [grants EXCEPT ![g] =
          [status |-> FirstStatus(decision), token |-> c.token, key |-> c.key,
           expiresAt |-> now + c.ttl,
           approver |-> IF allowed THEN "policy" ELSE None]]
     /\ tokenGrant' = IF allowed THEN [tokenGrant EXCEPT ![c.token] = g] ELSE tokenGrant
     /\ idempotency' = IF c.key # None THEN [idempotency EXCEPT ![c.key] = g]
                                       ELSE idempotency
     /\ audits' = [audits EXCEPT ![g] = @ \o FirstEvents(decision)]
     /\ IF allowed
        THEN calls' = [calls EXCEPT ![r] = [Idle EXCEPT !.at = "minting", !.grant = g]]
        ELSE Return(r)
     /\ UNCHANGED <<now, queue, evidence, deliveries, history>>

\* The signed credential of an allowed exchange is returned.
ExchangeMints(r) ==
  /\ calls[r].at = "minting"
  /\ minted' = [minted EXCEPT ![calls[r].grant] = @ + 1]
  /\ Return(r)
  /\ UNCHANGED <<now, store, queue, uses>>

\* The signer rejects: the stored grant stays approved, without a credential.
ExchangeMintFails(r) ==
  /\ calls[r].at = "minting"
  /\ Return(r)
  /\ UNCHANGED <<now, store, queue, history>>

(***************************************************************************)
(* approve                                                                 *)
(***************************************************************************)

\* A call that names an existing grant joins the chain of the grant's lock.
JoinLock(r, g, p, source, final) ==
  /\ calls' = [calls EXCEPT ![r] =
       [Idle EXCEPT !.at = p, !.grant = g, !.source = source, !.final = final]]
  /\ Enqueue(r, g)
  /\ UNCHANGED <<now, store, history>>

StartApprove(r, g) ==
  /\ calls[r].at = "idle"
  /\ Exists(g)
  /\ JoinLock(r, g, "approve", None, None)

ApproveRefused(r) ==
  /\ HasTurn(r, "approve")
  /\ ~Approvable(calls[r].grant)
  /\ LeaveLock(r)

\* The checks pass, and the call awaits reserveSubjectToken inside the lock.
ApproveChecked(r) ==
  /\ HasTurn(r, "approve")
  /\ Approvable(calls[r].grant)
  /\ GoTo(r, "reserving")
  /\ UNCHANGED <<now, store, queue, history>>

ApproveTokenTaken(r) ==
  /\ calls[r].at = "reserving"
  /\ ~Reservable(grants[calls[r].grant].token, calls[r].grant)
  /\ LeaveLock(r)

\* The token is reserved and the grant approved; the credential is still to be signed.
ApproveReserves(r) ==
  LET g == calls[r].grant
      t == grants[g].token
  IN /\ calls[r].at = "reserving"
     /\ Reservable(t, g)
     /\ tokenGrant' = [tokenGrant EXCEPT ![t] = g]
     /\ grants' = [grants EXCEPT ![g] =
          [@ EXCEPT !.status = "approved", !.approver = "approved"]]
     /\ audits' = [audits EXCEPT ![g] = Append(@, "grant_approved")]
     /\ GoTo(r, "signing")
     /\ UNCHANGED <<now, idempotency, evidence, deliveries, queue, history>>

ApproveMints(r) ==
  /\ calls[r].at = "signing"
  /\ minted' = [minted EXCEPT ![calls[r].grant] = @ + 1]
  /\ Release(r)
  /\ Return(r)
  /\ UNCHANGED <<now, store, uses>>

\* mutateGrant undoes nothing: the grant is approved and its token stays reserved.
ApproveMintFails(r) ==
  /\ calls[r].at = "signing"
  /\ LeaveLock(r)

(***************************************************************************)
(* consume                                                                 *)
(***************************************************************************)

\* A resource presents a credential the broker signed (expired ones are let through here).
StartConsume(r, g) ==
  /\ calls[r].at = "idle"
  /\ minted[g] > 0
  /\ JoinLock(r, g, "consume", None, None)

\* Expired, a wrong audience or action, or a grant that is not approved.
ConsumeRefused(r) ==
  /\ HasTurn(r, "consume")
  /\ LeaveLock(r)

\* The checks pass, and the call awaits verifyDpopProof inside the lock.
ConsumeChecked(r) ==
  /\ HasTurn(r, "consume")
  /\ Consumable(calls[r].grant)
  /\ GoTo(r, "proving")
  /\ UNCHANGED <<now, store, queue, history>>

ConsumeProofInvalid(r) ==
  /\ calls[r].at = "proving"
  /\ LeaveLock(r)

ConsumeSucceeds(r) ==
  LET g == calls[r].grant
  IN /\ calls[r].at = "proving"
     /\ grants' = [grants EXCEPT ![g].status = "consumed"]
     /\ audits' = [audits EXCEPT ![g] = Append(@, "grant_consumed")]
     /\ uses' = [uses EXCEPT ![g] = @ + 1]
     /\ Release(r)
     /\ Return(r)
     /\ UNCHANGED <<now, tokenGrant, idempotency, evidence, deliveries, minted>>

(***************************************************************************)
(* completeAuthenticated, complete, revoke, expire: finalize               *)
(***************************************************************************)

\* The agent completes with an unexpired credential; the claims match the grant.
StartComplete(r, g) ==
  /\ calls[r].at = "idle"
  /\ minted[g] > 0
  /\ now < grants[g].expiresAt
  /\ calls' = [calls EXCEPT ![r] = [Idle EXCEPT !.at = "completing", !.grant = g]]
  /\ UNCHANGED <<now, store, queue, history>>

CompleteProofInvalid(r) ==
  /\ calls[r].at = "completing"
  /\ Return(r)
  /\ UNCHANGED <<now, store, queue, history>>

CompleteProved(r) ==
  /\ calls[r].at = "completing"
  /\ JoinLock(r, calls[r].grant, "finalize", "agent", "revoked")

\* An authorized caller of complete or revoke names the source itself, whatever it is.
StartRevoke(r, g) ==
  /\ calls[r].at = "idle"
  /\ Exists(g)
  /\ \E source \in ApiSource : JoinLock(r, g, "finalize", source, "revoked")

\* The grant's expiry alarm fires, at its expiresAt or later. The alarm of a grant whose
\* call was finalized meanwhile still fires.
StartExpire(r, g) ==
  /\ calls[r].at = "idle"
  /\ Exists(g)
  /\ grants[g].expiresAt <= now
  /\ JoinLock(r, g, "finalize", "ttl", "expired")

\* A denied grant is refused.
FinalizeRefused(r) ==
  /\ HasTurn(r, "finalize")
  /\ evidence[calls[r].grant] = None
  /\ grants[calls[r].grant].status = "denied"
  /\ LeaveLock(r)

\* Existing evidence stays; what is not delivered is tried again, outside the lock.
FinalizeRepeats(r) ==
  LET g == calls[r].grant
  IN /\ HasTurn(r, "finalize")
     /\ evidence[g] # None
     /\ Release(r)
     /\ GoDeliver(r, g, Undelivered(g))
     /\ UNCHANGED <<now, store, history>>

\* The one synchronous body that ends a grant: status, audit event, deliveries and
\* evidence together. The call leaves the lock and delivers.
Finalize(r) ==
  LET c == calls[r]
      g == c.grant
      ds == [x \in Target |-> "pending"]
  IN /\ HasTurn(r, "finalize")
     /\ Finalizable(g)
     /\ grants' = [grants EXCEPT ![g].status = c.final]
     /\ audits' = [audits EXCEPT ![g] = Append(@, FinalEvent(c.source, c.final))]
     /\ deliveries' = [deliveries EXCEPT ![g] = ds]
     /\ evidence' = [evidence EXCEPT ![g] =
          [source |-> c.source, approver |-> grants[g].approver,
           timeline |-> audits'[g], deliveries |-> ds]]
     /\ Release(r)
     /\ GoDeliver(r, g, Target)
     /\ UNCHANGED <<now, tokenGrant, idempotency, history>>

\* The transport answers or throws (or there is none): the outcome is written over
\* whatever another call wrote since this one copied the deliveries.
Deliver(r, x, outcome) ==
  LET c == calls[r]
      g == c.grant
      ds == [deliveries[g] EXCEPT ![x] = outcome]
  IN /\ c.at = "delivering"
     /\ x \in c.left
     /\ outcome = "failed" => Attempts(g) < MaxAttempts
     /\ deliveries' = [deliveries EXCEPT ![g] = ds]
     /\ RefreshEvidence(g, ds)
     /\ audits' = [audits EXCEPT ![g] = Append(@, "revocation_delivery")]
     /\ GoDeliver(r, g, c.left \ {x})
     /\ UNCHANGED <<now, grants, tokenGrant, idempotency, queue, history>>

\* retryRevocations, for one of the grants it goes through: the deliveries that are due.
StartRetry(r, g) ==
  /\ calls[r].at = "idle"
  /\ \E due \in SUBSET Undelivered(g) :
       /\ due # {}
       /\ GoDeliver(r, g, due)
  /\ UNCHANGED <<now, store, queue, history>>

(***************************************************************************)
(* The system                                                              *)
(***************************************************************************)

Tick ==
  /\ now < MaxTime
  /\ now' = now + 1
  /\ UNCHANGED <<store, queue, calls, history>>

\* A client, a resource, an operator or an alarm makes a call.
Start(r) ==
  \/ StartExchange(r)
  \/ \E g \in Grant :
       \/ StartApprove(r, g)
       \/ StartConsume(r, g)
       \/ StartComplete(r, g)
       \/ StartRevoke(r, g)
       \/ StartExpire(r, g)
       \/ StartRetry(r, g)

\* The broker carries a call on to its next await or to its answer.
Advance(r) ==
  \/ ExchangeEndsEarly(r)
  \/ \E g \in Grant, d \in Decision : CreateGrant(r, g, d)
  \/ ExchangeMints(r)
  \/ ExchangeMintFails(r)
  \/ ApproveRefused(r)
  \/ ApproveChecked(r)
  \/ ApproveTokenTaken(r)
  \/ ApproveReserves(r)
  \/ ApproveMints(r)
  \/ ApproveMintFails(r)
  \/ ConsumeRefused(r)
  \/ ConsumeChecked(r)
  \/ ConsumeProofInvalid(r)
  \/ ConsumeSucceeds(r)
  \/ CompleteProofInvalid(r)
  \/ CompleteProved(r)
  \/ FinalizeRefused(r)
  \/ FinalizeRepeats(r)
  \/ Finalize(r)
  \/ \E x \in Target, outcome \in {"delivered", "failed"} : Deliver(r, x, outcome)

Next == Tick \/ \E r \in Request : Start(r) \/ Advance(r)

Spec == Init /\ [][Next]_vars

\* The event loop runs every continuation that is ready; nobody has to make a call, and
\* nothing bounds how often the clock is read.
FairSpec == Spec /\ \A r \in Request : WF_vars(Advance(r))

(***************************************************************************)
(* Properties                                                              *)
(***************************************************************************)

\* A subject token leads to the credential of one grant at most, and a grant to one
\* credential, however exchanges and approvals of several grants interleave
\* (createExchangeGrant and approve reserve the token under different locks).
CredentialsAreUnique ==
  /\ \A g \in Grant : minted[g] <= 1
  /\ \A g, h \in Grant :
       (minted[g] > 0 /\ minted[h] > 0 /\ grants[g].token = grants[h].token) => g = h

\* Exactly one of the calls that present a credential consumes it: the status check and
\* the write are separated by the verification of the proof, under the grant's lock.
UsedAtMostOnce ==
  \A g \in Grant :
    /\ uses[g] <= minted[g] /\ uses[g] <= 1
    /\ uses[g] = 1 => grants[g].status \in {"consumed", "revoked", "expired"}

\* Concurrent exchanges with the same idempotency key end with one grant: the lookup is
\* repeated after the wait for the authority resolver.
OneGrantPerKey ==
  \A g, h \in Grant :
    (Exists(g) /\ Exists(h) /\ grants[g].key = grants[h].key /\ grants[g].key # None)
      => g = h

\* The audit trails a grant of each status can have.
Opening == {<<"grant_proposed">>, <<"grant_proposed", "grant_approved">>,
            <<"grant_proposed", "grant_approved", "grant_consumed">>}

LegalTrail(s) ==
  CASE s = "absent" -> {<<>>}
    [] s = "proposed" -> {<<"grant_proposed">>}
    [] s = "denied" -> {<<"grant_proposed", "grant_denied">>}
    [] s = "approved" -> {<<"grant_proposed", "grant_approved">>}
    [] s = "consumed" -> {<<"grant_proposed", "grant_approved", "grant_consumed">>}
    [] s = "expired" -> {Append(o, "grant_expired") : o \in Opening}
    [] s = "revoked" ->
         {Append(o, e) : o \in Opening, e \in {"grant_completed", "grant_revoked"}}

\* Trail t is trail s and, after it, deliveries of the revocation only.
Continues(s, t) ==
  /\ Len(s) <= Len(t)
  /\ \A i \in 1..Len(s) : t[i] = s[i]
  /\ \A i \in (Len(s) + 1)..Len(t) : t[i] = "revocation_delivery"

\* The audit trail of a grant tells its life: every transition is recorded once, in
\* order, and nothing is recorded that did not happen. Attempts to deliver the revocation
\* are recorded after the end, and only there.
AuditTellsStatus ==
  \A g \in Grant : \E life \in LegalTrail(grants[g].status) :
    /\ Continues(life, audits[g])
    /\ grants[g].status \notin FinalStatus => audits[g] = life

\* Evidence exists exactly for the grants that ended, and tells how: its timeline ends with
\* the event of its source and of the grant's status, and is the trail up to the end of the
\* grant; it names an approver exactly when the timeline shows an approval; and its
\* deliveries are those of the store, whichever calls deliver at once.
EvidenceMatchesGrant ==
  \A g \in Grant :
    LET e == evidence[g]
        status == grants[g].status
    IN /\ (e # None) <=> (status \in FinalStatus)
       /\ e # None =>
            /\ \E o \in Opening : e.timeline = Append(o, FinalEvent(e.source, status))
            /\ Continues(e.timeline, audits[g])
            /\ status = "expired" => e.source = "ttl"
            /\ (e.approver # None) <=> (Len(e.timeline) > 2)
            /\ e.deliveries = deliveries[g]

KeepsFinalized ==
  \A g \in Grant : evidence[g] # None =>
    /\ evidence'[g] = [evidence[g] EXCEPT !.deliveries = deliveries'[g]]
    /\ \A x \in Target : deliveries'[g][x] = "pending" => deliveries[g][x] = "pending"
    /\ grants'[g] = grants[g]
    /\ Continues(audits[g], audits'[g])
    /\ uses'[g] = uses[g]

\* Whatever calls are still in flight when a grant ends, its record, its uses and all of its
\* evidence but the delivery snapshot never change again (a later completion finds the same
\* evidence and only delivers). Its trail only grows, by attempts to deliver, and a delivery
\* that was tried is never again one that was not.
FinalizedIsFrozen == [][KeepsFinalized]_vars

\* Every call is answered: no call is left behind in the chain of a lock, whoever holds
\* it and however the holder ends.
CallsReturn == \A r \in Request : calls[r].at # "idle" ~> calls[r].at = "idle"

\* The grants whose approval reserved their subject token.
Authorized == {g \in Grant : Exists(g) /\ tokenGrant[grants[g].token] = g}

Lifecycle == INSTANCE GrantLifecycle WITH
  status <- [g \in Grant |-> grants[g].status],
  token <- [g \in Grant |-> grants[g].token],
  authorized <- Authorized,
  issued <- {g \in Grant : minted[g] > 0}

\* The concurrent broker keeps the promises of GrantLifecycle, step by step.
ImplementsLifecycle == Lifecycle!Spec
=============================================================================
