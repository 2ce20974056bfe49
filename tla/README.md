# Warden in TLA+

A verification project for the warden.md packages: TLA+ modules translated from
the TypeScript sources, TLC configurations that check them on small instances,
and TLAPS proofs for every size. Paths below are relative to the repository;
`broker/` stands for `packages/broker/src/`, `service/` for `packages/service/src/`.

## 1. The system

Warden lets an agent act once, for one purpose, with a human or a policy in
front of it and evidence behind it. Three packages:

| Component | Code | State | Operations |
| --- | --- | --- | --- |
| In-memory broker | `broker/broker.ts`, `store.ts`, `types.ts` | grants, audits, evidence, idempotency keys, subject-token reservations, deliveries, promise-chain locks, remembered proof ids | exchange, approve, consume, complete, revoke, expire, retryRevocations |
| Broker coordinator | `broker/runtime.ts`, `worker.ts` | one stored snapshot; in memory a pending or resolved Broker, a router bound to it; one retry alarm | fetch, internal expiry callback, alarm, reset, persist, project |
| Grant expiry object | `broker/durable-object.ts` | a grant id and an alarm, one object per grant | schedule, alarm |
| Revocation handoff | parts of the three above | delivery records: status, attempts, next attempt | deliver, finalize's loop, retryRevocations, scheduleRetry |
| Policy engine | `broker/policy.ts`, parsing in `runtime.ts` | none | decide |
| Proofs and credentials | `broker/crypto.ts` | proof ids, with the broker | sign, verify, verifyDpopProof |
| Completion client, middleware | `broker/client.ts`, `middleware.ts` | buffered completions | run, retryBufferedCompletions |
| Claim ceremony | `service/claim.ts`, `claim-durable-object.ts`, part of `repository.ts` | claims with a version, indexes, next expiry and alarm | start, verifyUserCode, decide, poll, consumeApprovedClaim, removeExpiredClaims |
| Identity and token service | `service/service.ts`, `router.ts`, `jose.ts` | identities, tokens, replay records, events, subscribers | registerIdentity, exchangeToken, validateAccessToken, revoke, subscribe |
| Security event delivery | `service/event-delivery-durable-object.ts`, `deliverDueEvents` | delivery rows in D1, one alarm | schedule, alarm, run |
| Rate limiters | `service/rate-limit.ts` | a window and a count per key | take |
| Service storage | `service/repository.ts` | tables in memory or D1, a claim object's storage | reads, inserts, conditional updates |
| Conformance CLI | `packages/cli` | the findings of one run | fetch, parse, validate, report |
| GitHub action, scripts | `action`, `scripts` | none that lasts | run the CLI, package |

How they interact. A client's request reaches the coordinator's `fetch`, which
awaits the shared Broker, lets the router call it, writes the whole snapshot,
projects it to D1, sets the retry alarm and only then answers. On its way the
router calls the authority, approval and operator bindings (fetches during which
other requests run) and, for an active grant, the grant's expiry object, which
sets an alarm and later calls the coordinator back. A finalization hands its
revocations to the relay binding. Any error that reaches `fetch` answers 503 and
makes the coordinator forget its Broker and its router.

On the service side the Worker keeps one service for its issuer and answers most
requests itself over D1. A claim's requests go to the Durable Object of its
registration, found through a row of `claim_routes`; that object owns the claims, and
its alarm removes the expired ones. A revocation writes its event and deliveries
to D1 and, after the answer, wakes the one delivery object. The agent's completion
client and the resource's middleware are the two ends of a grant's life outside the
broker. The conformance CLI reads what a deployment publishes about itself.

What is hard here: calls interleave at every external await, on the grant's lock
and outside it; the snapshot is one value written by every request; a failure
resets an object that others are still using; three kinds of alarms and callers
race to finish the same grant; the platform may evict the object between any two
awaits and fires an alarm again whose handler did not return. `PROJECT.json`
lists each of these hazards with the line where it bites and the properties
that would catch it.

What makes each component correct:

- broker: one credential per subject token and per grant, one use of it, one
  grant per idempotency key, an end that is final but for the record of its
  deliveries, a trail and an evidence record that tell what happened, and every
  call answered;
- coordinator: what was answered is stored and stays, no credential leaves
  before its approval is durable, a stored active grant has its time-to-live
  alarm and ends;
- revocation handoff: evidence claims no delivery that did not happen, an
  answered finalization has tried every target, and every stored revocation
  reaches the relay;
- claim ceremony: a claim grant is used once and only after the user approved; a
  refused compare-and-set loses nothing; expired claims leave with an alarm set
  for the rest;
- tokens and events: a token is never wider than the claim, the identity and the
  authority it comes from, an assertion and a proof are accepted once, each
  revocation reaches each subscriber or is given up after five attempts, and a retry
  does not wait for another revocation;
- limiters: no stretch as long as a window sees more than two limits;
- policy: the first matching rule decides, also when a window spans midnight;
- completion client: every completion is sent or still buffered, and the protected
  handler runs once for a grant;
- conformance CLI: exit code 0 means that all documents were had and agree.

## 2. Modules

| Module | Models | Composes |
| --- | --- | --- |
| `GrantLifecycle` | the promise: statuses, the one approval per subject token, one issue and one use | abstract |
| `Broker` | `Broker` over `InMemoryBrokerStore` with any number of calls in flight | implements `GrantLifecycle` |
| `BrokerProofs` | theorems about `Broker` | extends it |
| `Coordinator` | the Durable Object around Broker instances, with the expiry objects | implements `GrantLifecycle` |
| `CoordinatorProofs` | theorems about `Coordinator` | extends it |
| `RevocationDelivery`, `RevocationProofs` | handoff, retries and the alarms that bring them back | |
| `EventDelivery`, `EventProofs` | token revocation, its event and deliveries in D1, and the delivery object with its alarm | |
| `ClaimLifecycle` | the promise: what a claim may become, one token after an approval | abstract |
| `ClaimCeremony` | claims in their object, compare-and-sets, routes, alarm | implements `ClaimLifecycle` |
| `ClaimProofs` | theorems about `ClaimCeremony` | extends it |
| `Clock` | the clock that the next four share | |
| `AssertionReplay` | `verifyJwt` with `markIfUnused`, in memory and on D1 | extends `Clock` |
| `ProofReplay` | `verifyDpopProof` and the map of used proofs across Brokers | extends `Clock` |
| `RateLimit` | both limiters, for one key | extends `Clock` |
| `TokenService` | what registration, claim and exchange hand on, with the audit | extends `Clock` |
| `ReplayProofs`, `ServiceProofs` | theorems about `AssertionReplay` and `ProofReplay`; about `TokenService` and `WorkerRouting` | extend them |
| `Policy` | the policy engine with a clock that moves under it | |
| `CompletionClient` | `CompletionClient`, `WorkerBrokerClient` and the resource's middleware | |
| `WorkerRouting` | the cached service and router of the Worker and of the claim object | |
| `Metadata`, `ConformanceCheck` | the documents and their validators; the check that fetches and reports | |
| `PartsProofs` | theorems about `RateLimit`, `Policy`, `CompletionClient` and `ConformanceCheck` | extends them |
| `MC*` | symmetry sets, documents, and `MCParts`, which runs one of eight components | extend the above |

Operators whose comment says `fault` are not used by the specifications. Each is
a plausible bug in the code next to it, and shows that a property notices.

**Broker.** JavaScript runs a continuation to its next await, so an action is
what a call does between two awaits that can take real time: the authority
resolver, WebCrypto, and the grant's lock. `queue[g]` is the promise chain of
`withLock("grant:" + id)`; its first call holds the lock. `calls[r].at` names the
await: `resolving` and `minting` belong to exchange, `approve`, `reserving` and
`signing` to approve, `consume` and `proving` to consume, `completing` to the
proof that precedes a completion, `finalize` to the wait for the lock of a
completion, revocation or expiry (`expireDue` is a sequence of those). `delivering`
is the loop that follows, outside the lock, over the call's copy `left` of what is not
delivered; each answer is written to the store's `deliveries`, repeated in the evidence and
appended to the trail as `revocation_delivery`. A repeated completion, revocation or expiry
and an alarm's retry go through that loop again. `ApiSource` are the sources that
callers of `complete` and `revoke` may name. The
exchange lock and the subject lock guard synchronous bodies, which are one step
each. Scope, audience and action checks and proof contents are
choices of outcome. `minted` and `uses` are histories. Bounds: `MaxTime`, and `MaxAttempts`, after
which a delivery does not fail any more.

**Coordinator.** `stores[i]` is the store of a Broker object that somebody still
references; `current` and `router` are the two cached fields, `flights[r]` a
request with the Broker it will persist (`broker`) and the one its router calls
(`via`). A call on one instance is one step here: that is what `Broker` shows.
`durable` is the snapshot (statuses, tokens, reservations, evidence ids), replaced as
a whole by `Persist`. `Fail` is a failed schedule, write or answer, `Evict` an
eviction; both count as faults. Time is left out: an alarm may fire at any moment
after it was set, so the model also covers early and very late callbacks. A
`createBroker` that fails changes nothing durable and answers 503; it is left
out, and so is the D1 projection, which nothing reads back. A signer that rejects
is in `Broker` only: the coordinator's signer is a local key.

**RevocationDelivery.** A worker is a request or alarm in progress. `todo` is its
copy of the undelivered records, `memory` and `durable` the records in the store
and in the snapshot, `due` the failed ones whose `nextAttemptAt` has come (the
delay of 2 to 60 seconds is only due or not due). The relay takes a revocation in
(`Take`), and its receipt arrives (`Deliver`) or does not (`Reject`). A failed
write resets the Broker, which for a worker alone is an eviction; what it does
to workers side by side is the subject of `Coordinator`.

**EventDelivery.** D1's tables are shared and each query is atomic; `requests[q]` is
a revocation and `runs[d]` an execution of the delivery object's `run`, each between
two of its queries. Runs interleave, because only the object's own storage keeps
other events out. `alarm` is the object's one alarm, `batch` and `copy` what
`listDueDeliveries` returned: `SaveDelivery` writes that copy back. `due` stands for
`next_attempt_at`, as above. A subscriber may get an event whose answer is lost. A request or a
run may die; a run of the alarm is then fired again. Histories: `confirmed` and `sends` tell what
reached a subscriber, `outdated` are the runs about to write the alarm by an answer from before it
was last set. `crossed` and `abandoned` name the two cases in which a delivery is left without
an alarm: such a run has deleted it, or a request that queued rows, or the run it asked for, has
died and nobody repeats it.
Nothing deletes subscribers or events, so the branch for a missing one is left
out. `Limit` and `MaxAttempts` are 25 and 5 in the code.

**ClaimCeremony.** One registration's object. `claims`, `active`, `nextExpiry` and
`alarm` are its storage, `routes` the rows of `claim_routes` in D1. `calls[r]` is a
request: on its way (`called`, `routed`), or between the read of a claim and its
compare-and-set (`writing`), with the `copy` and the `clock` it read. In the object
the storage calls of one `createClaim` or `removeExpiredClaims` follow each other
without other events in between (the input gate), but may be cut short: `StoreClaimCut`
and `SweepCut` are the two cuts that nothing repairs, `SweepFails` all others.
An interval is in steps of the clock, and `Changed` is the record that each
transition asks for. After the use of a grant the exchange may still fail
(`TokenService`), so that `tokens` grows or not.

**AssertionReplay.** A presentation is a call between `verifyJwt`'s checks and the
answer of the store. The memory store answers in one step; on D1 the purge and the insert
are two queries, with one clock that was read before both. **ProofReplay** is the same
for DPoP proofs, where the clock is read before the signature is awaited and the map belongs to
a Broker. A request keeps the Broker it got, also when a failure has made the coordinator
forget it (`current`) for later requests: several Brokers then accept proofs, each by its
own map, and each may store its own over the other's (`storedJtis`). `proofUses` counts what
one Broker accepted, `answeredUses` what was accepted and answered by any of them. Two cases are
named. `parted` says that a failure has met another request in progress: the proof may then be used
on the old and on the new Broker, and the map that remembers it may be overwritten (the
first finding below, seen from here). `ahead` are the proofs first used at or before their own
`iat`: their entry ends no later than they do, which is the fourth finding.

**RateLimit.** The clock value a D1 call read may be older than that of the statement
before it; `disordered` says that a statement ran after one of a later window.

**TokenService.** One identity, one claim, one token: the chain is what is checked, not
a table. The checks of each step are the module's own operators (`Asked` is
`requestedScopes`, `Configured` is `configuredResource`). What is not modelled is
who authenticates; the authority's scopes and resource are any.

**Policy.** A document is built rule by rule, then one proposal is decided, rule by rule,
while the hour may turn once. A day of three hours has every kind of window.

**CompletionClient.** `completing[x]` is `completeOrBuffer` in progress, for a run or for
a retry that goes through its copy of the buffer. `remote` is the Worker broker, whose
answers can be lost; in the same process they cannot. A completion that is still
refused because its credential expired stays in the buffer at every retry: the code
never gives up, which does no harm to the grant, since its time-to-live has ended it.

**WorkerRouting.** `ServiceReady` is the assignment of `??=` after its await.

**Metadata, ConformanceCheck.** A document is what the validators tell apart (a field
is absent, malformed or good). A URL is known by its page, which is what is left of it without
query, fragment and last slash (`PageOf`, for `sameUrl`), and by its origin (`OriginOf`, for
`sameOrigin`); the hosts answer anything. The rules
are named after the finding, several of a kind under one name. `AgentCanFollow` is not
in the code: it states what an agent needs, and the check is compared with it. That the
endpoints of `agent_auth` belong to the issuer is part of it, and that the token and the revocation
endpoint are valid URLs, but not that these two belong to the issuer, which no validator asks.

## 3. Runs

| Run | Asks | Bounds |
| --- | --- | --- |
| `broker_safety` | one credential, one use, one grant per key, and the refinement of `GrantLifecycle` | 3 calls, 2 grants, 1 token, 1 key, no target, lifetime 1, clock 0..1 |
| `broker_endings` | trail, evidence and deliveries of a grant agree, its end is final, and every call is answered | 3 calls, 1 grant, 1 target, 1 source for callers next to the fixed ones, clock 0..1, 1 failed attempt |
| `coordinator_serial` | safety and refinement, one request at a time, and that every stored active grant ends | 2 grants, 1 token, 3 faults |
| `coordinator_concurrent` | safety with requests side by side, when a failure meets no other request (`AloneSpec`) | 2 requests, 2 grants, 1 fault |
| `coordinator_lost_update`, `coordinator_unscheduled` | the first two findings below | 2 requests, 1 grant, 1 fault |
| `revocation` | safety of the handoff, and that each stored revocation reaches the relay | 2 workers, 1 grant, 1 target, 2 evictions |
| `events` | what the delivery rows say is true, and they are scheduled and settle, but for the two cases named in `EventDelivery` | 1 token, 2 subscribers, 1 request, 2 runs, batches of 1, 2 attempts, 1 death |
| `event_alarm_lost` | the third finding | 2 tokens, 1 subscriber, 2 requests, 2 runs, no death |
| `proof_replayed` | the fourth finding | 1 proof, 1 request, 1 Broker, tolerance 1, clock 1..4 |
| `claims` | safety, pace and refinement of `ClaimLifecycle`, and that expired claims leave | 2 claims (1 of them worked on), 2 calls, clock 1..3, lifetime 2, 4 writes, 1 fault |
| `parts` | one property for each of eight components | clock 1..4, otherwise per component, below |

`parts` checks the components that share no state with any other: the first state
chooses one, and the others stay in their initial states, so that its states are the sum of
theirs and not the product. Each has two or three concurrent calls where calls
overlap: three presentations of two assertions (one replays, one purges, one races),
one proof that two requests bring to two Brokers with a tolerance of 1, two takers with windows of 2 and a
limit of 2 over four instants (two windows and their border) and at most six requests admitted, three scopes of which two
are supported, three resources of which two are protected, two rules over a day of
three hours, two runs of the client with a retrier and three lost messages, two
issuers with two requests, four URLs (the issuer, the same page with a query, another page of its
origin, another origin) with redirects up to 1 and two candidates per
document, and documents that differ from the right ones in one respect.

Why the bounds are enough to be interesting. Two grants for one token and one key
are what it takes to break uniqueness; a third call lets one call hold a lock,
one wait for it and one act outside. A clock of two instants has a grant before
and after its expiry. With three faults a request can fail, its retry can fail,
and the object can be evicted in between. There are as many slots (`Instance`) as the
run needs: TLC stops with an error if no unreferenced one is left. The handoff runs with
one target, on which two workers race; with two the liveness check takes too long, and the
theorems hold for any number. In `claims` the second claim is only stored and removed:
it is what makes the alarm's bookkeeping interesting, while two calls race on the first. With two subscribers and batches of one, a run leaves
a delivery behind; two attempts are one retry, after which a delivery is given up. `events` has a
constraint, `Promised`: what comes after one of the two named cases is not explored, since
two of its three properties promise nothing there; the third, `OutcomeIsTrue`, is proved without it.

`CHECK_DEADLOCK FALSE` stands where the model really may stop: `parts`, `proof_replayed` and `claims`, which are done
when their bounds are used up, and `coordinator_concurrent`, where `AloneSpec` takes away the
one step that is left when a request cannot go on but by failing while another is in flight.

Fairness. The event loop runs every continuation that is ready, so a call or
request that waits for something that answers goes on (weak fairness on the
advance of each); nobody is obliged to make a call. The platform fires an alarm
that is set, and again after a handler that threw; clients' requests may keep an
object busy for a while but not for ever (strong fairness on the alarms). A relay
that is asked again and again takes each revocation in at some time, and its
receipts may all be lost; a subscriber need not answer at all. The number of faults
is bounded, so a system that does not fail for ever is assumed. For claims only the
alarm is fair: what nobody asks about still expires.

### Findings

Each of the four is a run in which TLC finds the property violated.

Without failures, or with one request at a time, the coordinator keeps its
promises (`coordinator_concurrent`, `coordinator_serial`; proved for every size). A failure *while another
request is in flight* breaks two of them:

1. `coordinator_lost_update`. `resetBroker` leaves the other request its old Broker.
   When a new Broker has been created, has completed a grant and answered with the
   evidence, the old request writes its older snapshot over it.
2. `coordinator_unscheduled`. While one request waits for the expiry object,
   another one stores the snapshot with the unscheduled grant in it. When the
   scheduling then fails, an active grant is stored that no alarm will end.

The delivery object needs no failure of the platform, only two runs side by side:

3. `event_alarm_lost`. A run reads that nothing is pending; meanwhile another one
   sends a newly queued delivery, is refused, and sets the alarm for the retry; the
   first run then deletes that alarm. `RetryIsScheduled` is what `packages/service/README.md:31`
   ("retries do not depend on another revocation request arriving"), `docs/deploy.md:78` and
   the comment of the class (`event-delivery-durable-object.ts:23`) say.

And one Broker with one request at a time is enough for the last:

4. `proof_replayed`. `verifyDpopProof` forgets a proof 300 seconds after the clock of its first
   use (`crypto.ts:357`), but a proof may be presented until 300 seconds after its `iat`, the
   last millisecond included (`crypto.ts:312`). A proof that was used at its `iat`, or before it
   by a client whose clock is ahead, is accepted a second time at the end of that time, while
   `docs/spec/completion-scoped-grants.md:86` and `:126` say that a replayed proof is
   refused. The grant's own status still limits what the second use can do.

A smaller observation, not stated as a finding because the documents promise
at-least-once only: of two workers that hand off the same revocation, the later
answer stays recorded. A late refusal turns `delivered` into `failed`, and an
eviction between that write and `scheduleRetry` leaves the record `failed` with no
alarm. `RetryIsArmed` and `AtLeastOnce` are therefore about what the relay lacks.

Nor is this one: a delivered row of `event_deliveries` can become pending again, when a run that was
refused writes its older copy back. The subscriber then gets the event twice, which it must
expect; `OutcomeIsTrue` is about what a row claims, and does not forbid it.

Cases that the properties exclude by name. They follow from what the code does, and are said
here because a general sentence of a document is not true in them. They are not listed as
findings, since these sentences say nothing of failures or of the order of statements.

- `abandoned`. A revocation that dies between `revokeToken` and its last `createDelivery` leaves
  a revoked token with some subscribers unnotified, since its repetition returns early;
  and when the scheduling call after the answer fails, or its run dies, the queue waits for the
  next revocation. `packages/service/README.md:31` and `docs/deploy.md:78` say without
  qualification that retries do not wait for that.
- `cut`. A claim stored just before its object dies, or a sweep cut between two deletions,
  leaves a next expiry without an alarm, and no later claim sets one. `docs/deploy.md:30`
  ("removes expired claim state with an alarm") and `packages/service/README.md:31` ("its alarm removes
  expired state") do not mention it.
- `disordered`. D1 statements of two windows that run in the wrong order restart the count.
  `docs/deploy.md:102` calls these windows atomic, which each statement is.
- `overlapped`. Two issuers that await their services side by side may leave the router of one to
  the requests of the other; a configured `ISSUER` rules it out. We know of no document about it.
- `parted`. After a failure that met another request, two Brokers each accept proofs by their
  own map. `docs/spec/completion-scoped-grants.md:86` is as general here as it is for the fourth finding,
  whose run needs no failure.

## 4. Proofs

`BrokerProofs` holds for any sets of calls, grants, tokens,
keys, lifetimes and targets, assuming only what `Broker` states: `MaxTime` and `MaxAttempts` are natural
numbers, lifetimes are positive, `None` is none of the ids (`BrokerAssumption`),
no evidence record (`NoneIsNoEvidence`) and no approver (`NoneIsNobody`), and callers name sources
that the type has (`ApiSourceAssumption`).

None of the properties is inductive. The invariant `IInv` adds what the code
relies on without saying so:

- `LockInv`: a call between the check and the write of approve or consume is first in
  its lock's chain; hence two calls cannot both be there for one grant;
- `CallsInv`: a call that names a grant names one that exists;
- `HolderInv`: the grant of such a call is still as the check found it;
- `MintInv`, `TokenInv`: a credential that is issued, or being signed, belongs to the
  grant that holds its token's reservation, and only one call is signing it;
- `UseInv`, `KeyInv`, `EvidenceInv`: uses, keys and evidence agree with the status, and
  only an ended grant has deliveries that are open.

`IInv` was checked by TLC before it was proved. `InvInit` and `InvStep` (one case per
action, the quiet ones through shared lemmas) make it an invariant;
`TypeCorrect`, `CredentialUniqueness`, `SingleUse` and `Idempotency` follow
from it in one step, `FinalIsFinal` from it and one look at each action that
writes: the record, the uses and the evidence of an ended grant stay as they are but for the delivery
snapshot, which repeats the store's deliveries, and its trail only grows. `AuditIsTrue` and `EvidenceIsTrue` need `TrailInv` next to `IInv`: the trail is the one
of the status, an approver is stored exactly when the trail shows an approval, evidence is
a copy of both as they were at the end, and what the trail got since are delivery events. Its step writes the few possible trails out, since only the grant that a call
holds the lock of grows one. `Refinement` maps each writing action to its action of `GrantLifecycle`
and every other to a stutter.

`CoordinatorProofs`: any number of requests, grants, subject tokens and failures; the slots for
Broker objects are more than twice the requests (`InstanceAssumption`), so that an
unreferenced one is always left. `TypeCorrect` needs nothing else: a Broker that somebody uses or will
persist is never recycled under it.

The promises about the snapshot do not hold of every behaviour (findings 1 and 2), so the theorems
say of which ones they do. `AloneSpec` is `Spec` with the one restriction that a step which makes the
coordinator forget its Broker leaves no request in flight. Under it `EvidenceIsKept`,
`CredentialIsDurable`, `CredentialIsUsedOnce` and `EndsStayDurable` hold. Their invariant says: all requests in
flight share the current Broker, and the router is bound to it (`OneBroker`); that Broker's store
extends the snapshot, so that persisting it, unfinished work of others included, takes nothing back
(`SnapshotInv`, `Extends`); what a request will hand out is in its Broker's store, and in the snapshot
once it answers (`FlightsBacked`); and what was handed out is in the snapshot, where no second use of a
grant can start (`HistoryInv`). `FailuresMeetNobody` shows that one request at a time, or no failure at all
(`SerialOrFaultless`), is enough for `AloneSpec`, and `DurablePromises` restates the four for `Spec`
itself.

`NoneIsUnscheduled` needs `SerialOrFaultless`: `AloneSpec` is not enough, because a request may persist
the active grant of another one that is still waiting for the expiry object, answer, and leave that
one alone to fail. `Refinement` is stated for one request at a time: with two, one write may carry
the transitions of both, which is no single step of `GrantLifecycle`. There the Broker is the
snapshot except for one transition that its request has yet to write (`SerialInv`, `Moved`).

`ClaimProofs` assumes `ClaimAssumption`: positive lifetimes and intervals. Its invariant
has two halves. `CoreInv` is about calls: a copy with the stored version *is* the
stored record (`CopyInv`; a copy that is outdated can therefore never match), a claim that is being
started has no record yet, and grants, decisions and tokens agree with the status.
`ScheduleInv` is about the alarm: unless a sequence was cut, every stored claim is among
the active ids, the next expiry is no later than any of theirs, none is left
behind when there are none, and the alarm is no later than it. `AlarmCoversClaims` needs all
of it, since each step only keeps the last part given the others. `Refinement` then maps
each compare-and-set to its move of `ClaimLifecycle` (`StatusMap`; an approved claim that was
used is `used`), and `PollsKeepTheirPace` is an action property from `CopyInv`.

`RevocationProofs`: any number of workers, grants and targets. A record says delivered, in a
worker's memory, in its copy or in the snapshot, only when the relay has the revocation; a
worker that answers has nothing left of its `todo`; and what the relay lacks is open in
the snapshot and has an alarm, or a worker whose last step will set it.

`EventProofs`: any number of tokens, subscribers, requests, runs and deaths. A copy that is
written back has no more attempts than were sent (`OutcomesAreTrue`). `PendingStaysScheduled` has no hypothesis
besides the two cases that its property names. That a delivery which waits has an alarm or an
attendant (`Attended`: a run that will still look, or a request that will call the object) is
not inductive, because a run may be about to delete the alarm. `ScheduleInv` adds that for every run
about to do so by an answer that is not outdated there is an attendant: no delivery
waited when that run got its answer, so whoever queued or refused one since is still at work or
has set the alarm, which outdates the answer.

`ReplayProofs`: the row of an assertion stays as long as the assertion is valid, because
every purge uses a clock that was read earlier; a verified call that finds no
row is the first. For proofs the entry ends `Tolerance` after the clock the call read,
which is later than `iat + Tolerance` for those not in `ahead`; so each Broker accepts a proof
once, an old one that is still at work after a reset too (`MapsInv`). That one use is answered in all,
through any number of Brokers, failures and evictions, is `UsesInv`: while nothing has parted, all requests share the
current Broker, an accepted use has its entry there, and an answered one has it in the snapshot as well, from which
the next Broker is made.

`ServiceProofs`: for any scopes and resources a registered identity is within its ceiling, a
claim within its identity, an authorization within both, and the registration is in the audit
as soon as anybody can know the identity's id (`TokenNeverWidens`); and for any number of
issuers and requests a cached router is that of the configured issuer, and so are the
services awaited, unless two issuers overlapped (`RouterIsTheIssuers`).

`PartsProofs` is about four components on their own.

- `GrantsAreUsedOnceAndEnded`: a request that let the handler start, or is about to, has a grant that
  cannot be consumed again, whoever completes a grant leaves it ended or buffered, and a grant in the
  buffer or with a retrier is one whose run is over.
- `TheFirstMatchWins`: `WindowIsWalked` shows, for a day of any length, that the code's two comparisons
  accept the hours that a clock shows between the window's ends.
- `SuccessIsEarned`: `NoFindingsLeadThrough` shows of any three documents, and not only of those that
  the run serves, that when the validators find nothing an agent can follow them; the invariant says that
  a check reports nothing only of documents it had. It assumes of `Url` only that its members are valid
  (`UrlAssumption`), and nothing of `PageOf` and `OriginOf`.
- `TheLimitIsKept`: windows that a request was admitted in do not overlap and number their requests
  from 1 to the limit (`WindowsInv`); three of them would not fit in a stretch (`TwoWindows`), so its
  requests can be numbered from 1 to twice the limit.

A step that changes several fields of a call or a worker is written `[f EXCEPT ![x] = [@ EXCEPT
!.a = .., !.b = ..]]` in every module: tlapm 1.4.5 takes `[f EXCEPT ![x].a = .., ![x].b = ..]` for
two claims about all other fields, which contradict each other, and would then prove anything.
That no lemma has assumptions it can refute was tried for each of them.

The type invariants of `Broker`, `RevocationDelivery`, `EventDelivery` and `ClaimCeremony`
are proved (`TypeCorrect`) and no longer run.

Every safety property and every refinement that a passing run checks is also a theorem, some of
`Coordinator` with a hypothesis that their run shares: `AloneSpec` or one request. Only model-checked: `CallsReturn`, `ActiveEnds`, `AtLeastOnce`, `DeliveriesSettle`
and `ExpiredClaimsLeave`, which are liveness under fairness and out of this prover's reach.

## 5. Plan

In this order; done first.

1. `GrantLifecycle`, `Broker`, its runs, its invariant, its theorems and the
   refinement. Done.
2. `Coordinator` with the expiry objects, `RevocationDelivery`. Done.
3. `EventDelivery`. Done.
4. `ClaimCeremony` with its lifecycle, run, invariant, theorems and refinement. Done.
5. `AssertionReplay`, `ProofReplay`, `RateLimit`, `TokenService`, `WorkerRouting`, with the
   theorems about all but the limiters. Done.
6. `Policy`, `CompletionClient`, `Metadata` and `ConformanceCheck`. Done.
7. Proofs of the handoff and of the event delivery. Done.
8. Proofs of the coordinator, of its refinement for one request, and of the limiters, the policy, the
   completion client and the conformance check. Done.
9. Left: an abstract handoff (at least once, with what the evidence may claim) that `RevocationDelivery`
   and `EventDelivery` both implement; what of `NoneIsUnscheduled` survives a failure that
   meets other requests.

## 6. Not modelled

WebCrypto, JOSE, Markdown, URL and HTTP syntax (a check passes or fails); key import, JWKS and
the service's own metadata; the configuration parsers except for policy rules; the
D1 projection of the broker ledger, which nothing reads back; `validateAccessToken`,
which reads one row after a signature check and writes nothing; a `createWorkerService` that
fails, whose rejected promise stays cached until another issuer comes in; the rendering of
reports; the GitHub action, the scripts and the examples, which keep no state; retention
(`retentionUntil` is recorded, no code acts on it).
