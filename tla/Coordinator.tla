---------------------------- MODULE Coordinator ----------------------------
(***************************************************************************)
(* The deployed broker: BrokerCoordinatorDurableObject (runtime.ts) around *)
(* in-memory Broker instances, its one durable snapshot, and the expiry    *)
(* alarms that GrantExpiryDurableObject (durable-object.ts) keeps, one per *)
(* grant.                                                                  *)
(*                                                                         *)
(* A request that waits for a service binding, a fetch to an expiry object *)
(* or WebCrypto lets the other requests run: Request is the set of         *)
(* requests that can be in flight at once. A storage operation lets nobody *)
(* run. After a failure the coordinator forgets its Broker and its router, *)
(* but a request in flight keeps the instances it started with.            *)
(*                                                                         *)
(* A call on one instance is a single transition here: Broker shows that   *)
(* concurrent calls on one instance amount to that. Time is left out: an   *)
(* expiry alarm may fire at any moment after it was set.                   *)
(***************************************************************************)
EXTENDS Naturals, FiniteSets

CONSTANTS
  Request,       \* the requests that can be in flight at once
  Grant,         \* the ids randomId("grant") can return
  SubjectToken,  \* subjectTokenId of a proposal
  Instance,      \* slots for the Broker objects still referenced
  None,          \* an absent value
  MaxFaults      \* bound: failed schedules, writes and answers, and evictions

ASSUME CoordinatorAssumption ==
  /\ MaxFaults \in Nat
  /\ None \notin Request \union Grant \union SubjectToken \union Instance

\* There is always room for one more Broker object: a request in flight refers to two of
\* them, and the coordinator itself to its Broker and its router's.
ASSUME InstanceAssumption ==
  /\ IsFiniteSet(Request) /\ IsFiniteSet(Instance)
  /\ Cardinality(Instance) > 2 * Cardinality(Request)

VARIABLES
  durable,   \* the stored snapshot (runtimeStateKey)
  stores,    \* Instance -> the store of a Broker object
  current,   \* the Broker of brokerPromise, or None
  ready,     \* the instances whose brokerPromise has resolved
  router,    \* the Broker the cached router was built on, or None
  flights,   \* Request -> the request in flight
  alarms,    \* Grant -> its expiry alarm
  drawn,     \* the grant ids already drawn
  faults,    \* failures so far
  issued,    \* history: grants whose credential was returned
  uses,      \* history: Grant -> consumes answered with success
  records,   \* history: Grant -> evidence ids made for it
  shown      \* history: Grant -> the evidence ids returned for it

memory == <<stores, current, ready, router>>
history == <<issued, uses, records, shown>>
vars == <<durable, memory, flights, alarms, drawn, faults, history>>

(***************************************************************************)
(* Types                                                                   *)
(***************************************************************************)

Active == {"proposed", "approved", "consumed"}
Final == {"revoked", "expired"}
GrantStatus == {"absent", "denied"} \union Active \union Final
Decision == {"allow", "block", "require-approval"}
Operation == {"exchange", "approve", "consume", "complete", "revoke", "expire"}
AlarmState == {"none", "set", "firing", "done"}
FlightState == {"idle", "opening", "waiting", "scheduling", "scheduled", "settling", "answering"}

\* What broker.store.snapshot() keeps of a grant. Evidence 0 is no evidence.
Snapshot == [status: [Grant -> GrantStatus],
             token: [Grant -> SubjectToken \union {None}],
             evidence: [Grant -> Nat],
             holder: [SubjectToken -> Grant \union {None}]]

EmptyStore == [status |-> [g \in Grant |-> "absent"],
               token |-> [g \in Grant |-> None],
               evidence |-> [g \in Grant |-> 0],
               holder |-> [t \in SubjectToken |-> None]]

\* The Broker that fetch awaited (and will persist), the Broker whose router or method
\* carries the request out, and what a successful answer hands out.
Flight == [at: FlightState,
           op: Operation \union {None},
           grant: Grant \union {None},
           token: SubjectToken \union {None},
           broker: Instance \union {None},
           via: Instance \union {None},
           gives: {"nothing", "credential", "use", "evidence"}]

Idle == [at |-> "idle", op |-> None, grant |-> None, token |-> None,
         broker |-> None, via |-> None, gives |-> "nothing"]

TypeOK ==
  /\ durable \in Snapshot
  /\ stores \in [Instance -> Snapshot]
  /\ current \in Instance \union {None}
  /\ ready \subseteq Instance
  /\ router \in Instance \union {None}
  /\ flights \in [Request -> Flight]
  /\ alarms \in [Grant -> AlarmState]
  /\ drawn \subseteq Grant
  /\ faults \in 0..MaxFaults
  /\ issued \subseteq Grant
  /\ uses \in [Grant -> Nat]
  /\ records \in [Grant -> Nat]
  /\ shown \in [Grant -> SUBSET Nat]

Init ==
  /\ durable = EmptyStore
  /\ stores = [i \in Instance |-> EmptyStore]
  /\ current = None
  /\ ready = {}
  /\ router = None
  /\ flights = [r \in Request |-> Idle]
  /\ alarms = [g \in Grant |-> "none"]
  /\ drawn = {}
  /\ faults = 0
  /\ issued = {}
  /\ uses = [g \in Grant |-> 0]
  /\ records = [g \in Grant |-> 0]
  /\ shown = [g \in Grant |-> {}]

(***************************************************************************)
(* Helpers                                                                 *)
(***************************************************************************)

Store(r) == stores[flights[r].via]
StatusOf(r) == Store(r).status[flights[r].grant]

Reservable(s, t, g) == s.holder[t] \in {None, g}

\* Request r has carried out its transition: its store is s, and it goes on at p.
Goes(r, s, p, gives) ==
  /\ stores' = [stores EXCEPT ![flights[r].via] = s]
  /\ flights' = [flights EXCEPT ![r] = [@ EXCEPT !.at = p, !.gives = gives]]
  /\ UNCHANGED <<durable, current, ready, router, alarms, drawn, faults>>

ResetNever == UNCHANGED <<current, router>>  \* fault: the Broker is kept after a failure
\* resetBroker: whichever instance the failing request used.
Reset == current' = None /\ router' = None

CallbackEndsOnce(r, p) ==  \* fault: any answer ends the alarm
  alarms' = IF flights[r].op = "expire" /\ alarms[flights[r].grant] = "firing"
            THEN [alarms EXCEPT ![flights[r].grant] = "done"] ELSE alarms

\* The answer to an expiry callback: GrantExpiryDurableObject.alarm throws unless it is
\* ok, and the platform fires the alarm again. An alarm set meanwhile is another one.
CallbackEnds(r, p) ==
  alarms' = IF flights[r].op = "expire" /\ alarms[flights[r].grant] = "firing"
            THEN [alarms EXCEPT ![flights[r].grant] = p] ELSE alarms

\* The catch of fetch: 503, and the coordinator starts over from the snapshot.
FailsOver(r) ==
  /\ Reset
  /\ CallbackEnds(r, "set")
  /\ flights' = [flights EXCEPT ![r] = Idle]
  /\ UNCHANGED <<durable, stores, ready, drawn, history>>

SharesPendingNever == FALSE  \* fault: every request creates a Broker
\* brokerPromise ??= createBroker(): a request that arrives meanwhile waits for the same.
SharesPending == current # None

Referenced(i) ==
  \/ i \in {current, router}
  \/ \E r \in Request : i \in {flights[r].broker, flights[r].via}

(***************************************************************************)
(* Arrival                                                                 *)
(***************************************************************************)

\* The router a public request runs on was built on the Broker of the first public request
\* since the last reset, which is not always the Broker that will be persisted. The expiry
\* callback uses its own Broker.
RouterAfter(ops, b) ==
  IF router = None /\ \E op \in ops : op # "expire" THEN b ELSE router

Opened(f, b, v) ==
  [f EXCEPT !.at = "waiting", !.broker = b, !.via = IF f.op = "expire" THEN b ELSE v]

\* fetch awaits brokerPromise, which the first request after a reset sets: the snapshot is
\* read, and the signing key is imported while other requests run. Slots that nobody
\* references any more are cleared.
Arrive(r, f) ==
  /\ flights[r].at = "idle"
  /\ \/ /\ current \in ready
        /\ router' = RouterAfter({f.op}, current)
        /\ flights' = [flights EXCEPT ![r] = Opened(f, current, router')]
        /\ UNCHANGED <<stores, current, ready>>
     \/ /\ current \notin ready /\ SharesPending
        /\ flights' = [flights EXCEPT ![r] = [f EXCEPT !.at = "opening", !.broker = current]]
        /\ UNCHANGED memory
     \/ /\ current \notin ready /\ ~SharesPending
        /\ LET i == CHOOSE j \in Instance : ~Referenced(j)
           IN /\ current' = i
              /\ stores' = [j \in Instance |-> IF j = i THEN durable
                                               ELSE IF Referenced(j) THEN stores[j]
                                               ELSE EmptyStore]
              /\ ready' = {j \in ready : j # i /\ Referenced(j)}
              /\ flights' = [flights EXCEPT ![r] = [f EXCEPT !.at = "opening", !.broker = i]]
        /\ UNCHANGED router
  /\ UNCHANGED <<durable, drawn, faults, history>>

\* The Broker is there, and every request that awaits it runs on to its next await.
Open(r) ==
  LET b == flights[r].broker
      opening == {q \in Request : flights[q].at = "opening" /\ flights[q].broker = b}
  IN /\ flights[r].at = "opening"
     /\ ready' = ready \union {b}
     /\ router' = RouterAfter({flights[q].op : q \in opening}, b)
     /\ flights' = [q \in Request |->
          IF q \in opening THEN Opened(flights[q], b, router') ELSE flights[q]]
     /\ UNCHANGED <<durable, stores, current, alarms, drawn, faults, history>>

\* A client proposes, or repeats an exchange whose grant exists (same idempotency key).
StartExchange(r) ==
  /\ \E t \in SubjectToken :
       Arrive(r, [Idle EXCEPT !.op = "exchange", !.token = t])
  /\ UNCHANGED alarms

\* An approver or an operator acts on a grant that was persisted and shown to them; only
\* the agent that got the credential can consume or complete.
StartOperation(r, g, op) ==
  /\ \/ op \in {"approve", "revoke"} /\ durable.status[g] # "absent"
     \/ op \in {"consume", "complete"} /\ g \in issued
  /\ Arrive(r, [Idle EXCEPT !.op = op, !.grant = g])
  /\ UNCHANGED alarms

\* The grant's expiry object calls the coordinator's internal endpoint.
FireAlarm(r, g) ==
  /\ alarms[g] = "set"
  /\ Arrive(r, [Idle EXCEPT !.op = "expire", !.grant = g])
  /\ alarms' = [alarms EXCEPT ![g] = "firing"]

(***************************************************************************)
(* The transition, after the authority, approval, operator or proof check  *)
(***************************************************************************)

\* A check fails, or the broker finds nothing to do; the answer is an error or what is
\* already there, and the instance is persisted all the same.
Refuse(r) ==
  /\ flights[r].at = "waiting"
  /\ flights[r].op # "expire"
  /\ Goes(r, Store(r), "settling", "nothing")
  /\ UNCHANGED history

\* A new grant. An active one is scheduled before it is persisted.
Exchange(r, g, d) ==
  LET s == Store(r)
      t == flights[r].token
      allowed == d = "allow"
  IN /\ flights[r].at = "waiting" /\ flights[r].op = "exchange"
     /\ g \notin drawn
     /\ allowed => Reservable(s, t, g)
     /\ stores' = [stores EXCEPT ![flights[r].via] =
          [s EXCEPT !.status[g] = CASE allowed -> "approved"
                                    [] d = "block" -> "denied"
                                    [] OTHER -> "proposed",
                    !.token[g] = t,
                    !.holder[t] = IF allowed THEN g ELSE @]]
     /\ drawn' = drawn \union {g}
     /\ flights' = [flights EXCEPT ![r] =
          [@ EXCEPT !.at = IF d = "block" THEN "settling" ELSE "scheduling", !.grant = g,
                    !.gives = IF allowed THEN "credential" ELSE "nothing"]]
     /\ UNCHANGED <<durable, current, ready, router, alarms, faults, history>>

\* The exchange was made before: its grant is scheduled again if it is still active, and no
\* second credential is handed out. (A repeated approval is refused.)
Repeat(r, g) ==
  /\ flights[r].at = "waiting" /\ flights[r].op = "exchange"
  /\ Store(r).status[g] \in {"proposed", "approved"}
  /\ Store(r).token[g] = flights[r].token
  /\ flights' = [flights EXCEPT ![r] = [@ EXCEPT !.at = "scheduling", !.grant = g]]
  /\ UNCHANGED <<durable, memory, alarms, drawn, faults, history>>

Approve(r) ==
  LET s == Store(r)
      g == flights[r].grant
      t == s.token[g]
  IN /\ flights[r].at = "waiting" /\ flights[r].op = "approve"
     /\ StatusOf(r) = "proposed"
     /\ Reservable(s, t, g)
     /\ Goes(r, [s EXCEPT !.status[g] = "approved", !.holder[t] = g],
             "scheduling", "credential")
     /\ UNCHANGED history

Consume(r) ==
  /\ flights[r].at = "waiting" /\ flights[r].op = "consume"
  /\ StatusOf(r) = "approved"
  /\ Goes(r, [Store(r) EXCEPT !.status[flights[r].grant] = "consumed"], "settling", "use")
  /\ UNCHANGED history

FinalizableAgain(r) == StatusOf(r) \notin {"absent", "denied"}  \* fault: evidence rewritten
\* finalize acts on any grant but a denied one that has no evidence yet.
Finalizable(r) == Store(r).evidence[flights[r].grant] = 0 /\ StatusOf(r) \in Active

FinalStatusUntyped(op) == IF op = "expire" THEN "expired" ELSE "completed"  \* fault
FinalStatus(op) == IF op = "expire" THEN "expired" ELSE "revoked"

\* finalize, and the handoff of its revocations; existing evidence is returned as it is.
Finalize(r) ==
  LET g == flights[r].grant
  IN /\ flights[r].at = "waiting"
     /\ flights[r].op \in {"complete", "revoke", "expire"}
     /\ Finalizable(r)
     /\ records' = [records EXCEPT ![g] = @ + 1]
     /\ Goes(r, [Store(r) EXCEPT
                   !.status[g] = FinalStatus(flights[r].op),
                   !.evidence[g] = records[g] + 1],
             "settling", "evidence")
     /\ UNCHANGED <<issued, uses, shown>>

FinalizeAgain(r) ==
  /\ flights[r].at = "waiting"
  /\ flights[r].op \in {"complete", "revoke", "expire"}
  /\ Store(r).evidence[flights[r].grant] # 0
  /\ Goes(r, Store(r), "settling", "evidence")
  /\ UNCHANGED history

\* expire throws for a grant the instance does not know, or a denied one; nothing catches
\* it before fetch does.
ExpireUnknown(r) ==
  /\ flights[r].at = "waiting" /\ flights[r].op = "expire"
  /\ StatusOf(r) \in {"absent", "denied"}
  /\ FailsOver(r)
  /\ UNCHANGED faults

(***************************************************************************)
(* scheduleExpiry, persist, and the answer                                 *)
(***************************************************************************)

ScheduleAlarmNever(r) ==  \* fault: the alarm is taken for set
  /\ flights[r].at = "scheduling"
  /\ flights' = [flights EXCEPT ![r].at = "scheduled"]
  /\ UNCHANGED <<durable, memory, alarms, drawn, faults, history>>

\* The grant's expiry object sets its alarm, and its answer is on the way.
ScheduleAlarm(r) ==
  /\ flights[r].at = "scheduling"
  /\ alarms' = [alarms EXCEPT ![flights[r].grant] = "set"]
  /\ flights' = [flights EXCEPT ![r].at = "scheduled"]
  /\ UNCHANGED <<durable, memory, drawn, faults, history>>

PersistNothing(r) ==  \* fault: the answer does not wait for the write
  /\ flights[r].at \in {"scheduled", "settling"}
  /\ flights' = [flights EXCEPT ![r].at = "answering"]
  /\ UNCHANGED <<durable, memory, alarms, drawn, faults, history>>

\* The whole snapshot of the request's Broker replaces the stored one.
Persist(r) ==
  /\ flights[r].at \in {"scheduled", "settling"}
  /\ durable' = stores[flights[r].broker]
  /\ flights' = [flights EXCEPT ![r].at = "answering"]
  /\ UNCHANGED <<memory, alarms, drawn, faults, history>>

\* The projection is over and the retry alarm is set: the answer leaves.
Answer(r) ==
  LET g == flights[r].grant
      gives == flights[r].gives
  IN /\ flights[r].at = "answering"
     /\ issued' = IF gives = "credential" THEN issued \union {g} ELSE issued
     /\ uses' = IF gives = "use" THEN [uses EXCEPT ![g] = @ + 1] ELSE uses
     /\ shown' = IF gives = "evidence"
                 THEN [shown EXCEPT ![g] = @ \union {Store(r).evidence[g]}] ELSE shown
     /\ CallbackEnds(r, "done")
     /\ flights' = [flights EXCEPT ![r] = Idle]
     /\ UNCHANGED <<durable, memory, drawn, faults, records>>

\* The schedule fetch fails (before or after the alarm is set), or a storage write does.
Fail(r) ==
  /\ faults < MaxFaults
  /\ faults' = faults + 1
  /\ flights[r].at \in {"scheduling", "scheduled", "settling", "answering"}
  /\ FailsOver(r)

\* The platform evicts the object: its memory and its requests are gone.
Evict ==
  /\ faults < MaxFaults
  /\ faults' = faults + 1
  /\ Reset
  /\ alarms' = [g \in Grant |-> IF alarms[g] = "firing" THEN "set" ELSE alarms[g]]
  /\ flights' = [r \in Request |-> Idle]
  /\ UNCHANGED <<durable, stores, ready, drawn, history>>

(***************************************************************************)
(* The system                                                              *)
(***************************************************************************)

Start(r) ==
  \/ StartExchange(r)
  \/ \E g \in Grant, op \in Operation : StartOperation(r, g, op)

Proceed(r) ==
  \/ Open(r)
  \/ Refuse(r)
  \/ \E g \in Grant, d \in Decision : Exchange(r, g, d)
  \/ \E g \in Grant : Repeat(r, g)
  \/ Approve(r)
  \/ Consume(r)
  \/ Finalize(r)
  \/ FinalizeAgain(r)
  \/ ExpireUnknown(r)
  \/ ScheduleAlarm(r)
  \/ Persist(r)
  \/ Answer(r)

Alarm(g) == \E r \in Request : FireAlarm(r, g)

Next ==
  \/ \E r \in Request : Start(r) \/ Proceed(r) \/ Fail(r)
  \/ \E g \in Grant : Alarm(g)
  \/ Evict

Spec == Init /\ [][Next]_vars

\* A failure that meets no other request in flight: nobody is left with a Broker that the
\* coordinator has given up. An eviction is always one, a request that ran alone always has.
ResetsAlone == current' = None => \A r \in Request : flights'[r].at = "idle"

\* The deployments in which failures are such: the two known violations need the others.
AloneSpec == Init /\ [][Next /\ ResetsAlone]_vars

\* A request goes on once what it waits for has answered. The platform delivers a set
\* alarm, in between the requests of the clients, and fires it again when it threw.
FairSpec ==
  /\ Spec
  /\ \A r \in Request : WF_vars(Proceed(r))
  /\ \A g \in Grant : SF_vars(Alarm(g))

(***************************************************************************)
(* Properties                                                              *)
(***************************************************************************)

\* A completion or revocation that was answered is durable, and is the only one ever
\* answered: whoever asks later gets the same evidence id.
ShownEvidenceIsKept ==
  \A g \in Grant : \A e \in shown[g] : durable.evidence[g] = e

\* No credential leaves the broker before its approval is durable, and the approval is
\* never undone: a failure after the answer cannot bring the grant back to proposed.
IssuedIsDurable ==
  \A g \in issued :
    /\ durable.status[g] \in {"approved", "consumed"} \union Final
    /\ durable.holder[durable.token[g]] = g

\* A resource is told once that it may act, although a consume whose write failed was
\* answered with 503 and is tried again.
UsedAtMostOnce ==
  \A g \in Grant : uses[g] <= 1 /\ (uses[g] = 1 => durable.status[g] \in {"consumed"} \union Final)

\* A stored grant that has not ended has its time-to-live alarm still to come, or the
\* request that activated it is still about to set it: none was stored whose schedule
\* failed.
ActiveIsScheduled ==
  \A g \in Grant :
    durable.status[g] \in Active =>
      \/ alarms[g] \in {"set", "firing"}
      \/ \E r \in Request : flights[r].at = "scheduling" /\ flights[r].grant = g

\* A stored snapshot is never replaced by one that has forgotten an end.
EndsAreDurable ==
  [][\A g \in Grant : durable.status[g] \in Final =>
       durable'.status[g] = durable.status[g] /\ durable'.evidence[g] = durable.evidence[g]]_vars

\* Every stored grant ends, with or without its agent: the time-to-live is a fallback
\* that no failed callback, write or eviction loses.
ActiveEnds ==
  \A g \in Grant : durable.status[g] \in Active ~> durable.status[g] \in Final

Lifecycle == INSTANCE GrantLifecycle WITH
  status <- durable.status,
  token <- durable.token,
  authorized <- {g \in Grant : durable.token[g] # None /\ durable.holder[durable.token[g]] = g},
  issued <- issued

\* What is stored and answered follows the lifecycle step by step, whatever fails.
ImplementsLifecycle == Lifecycle!Spec
=============================================================================
