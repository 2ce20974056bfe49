------------------------- MODULE RevocationDelivery -------------------------
(***************************************************************************)
(* The handoff of revocations to the trusted relay: finalize, deliver and  *)
(* retryRevocations (broker.ts), the delivery records of the store         *)
(* (store.ts), and the two alarms that bring a failed handoff back: the    *)
(* coordinator's retry alarm (runtime.ts) and the expiry callback of each  *)
(* grant (durable-object.ts).                                              *)
(*                                                                         *)
(* A worker is a request or alarm the coordinator is busy with. It goes    *)
(* through a COPY of the undelivered records and waits for the relay at    *)
(* each, so two workers may hand the same revocation off side by side, and *)
(* the later answer is the one that stays recorded.                        *)
(*                                                                         *)
(* Every grant here is active and has its expiry alarm (Coordinator). The  *)
(* backoff of 2 to 60 seconds is "not due until some time has passed". A   *)
(* failed write resets the Broker: for a worker alone that is an eviction, *)
(* and what it does to workers side by side is the subject of Coordinator. *)
(***************************************************************************)
EXTENDS Naturals

CONSTANTS
  Worker,     \* the requests and alarms that can be in progress at once
  Grant,      \* the grants
  Target,     \* BROKER_REVOCATION_TARGETS
  None,       \* an absent value
  MaxFaults   \* bound: evictions and failed writes

ASSUME DeliveryAssumption == MaxFaults \in Nat /\ None \notin Grant \union Target

VARIABLES
  memory,      \* Delivery -> its status in the Broker's store
  durable,     \* Delivery -> its status in the stored snapshot
  due,         \* the failed deliveries whose nextAttemptAt has come
  workers,     \* Worker -> what it is doing
  retryAlarm,  \* the coordinator's alarm
  expiry,      \* Grant -> its expiry alarm
  faults,      \* faults so far
  received,    \* history: what the relay has taken in
  answered     \* history: grants whose finalization was answered with success

vars == <<memory, durable, due, workers, retryAlarm, expiry, faults, received, answered>>

(***************************************************************************)
(* Types                                                                   *)
(***************************************************************************)

Delivery == Grant \X Target
DeliveryStatus == {"none", "pending", "failed", "delivered"}  \* none: not finalized
Undelivered == {"pending", "failed"}

\* left: the grants retryRevocations has still to visit; todo: the targets of the copied
\* records of the grant at hand, the one being sent included.
WorkerState == [at: {"idle", "listing", "sending", "taken", "stored"},
                op: {"finalize", "expire", "retry", "other"},
                grant: Grant \union {None},
                left: SUBSET Grant,
                todo: SUBSET Target,
                target: Target \union {None}]

IdleWorker == [at |-> "idle", op |-> "other", grant |-> None,
               left |-> {}, todo |-> {}, target |-> None]

TypeOK ==
  /\ memory \in [Delivery -> DeliveryStatus]
  /\ durable \in [Delivery -> DeliveryStatus]
  /\ due \subseteq Delivery
  /\ workers \in [Worker -> WorkerState]
  /\ retryAlarm \in BOOLEAN
  /\ expiry \in [Grant -> {"set", "firing", "done"}]
  /\ faults \in 0..MaxFaults
  /\ received \subseteq Delivery
  /\ answered \subseteq Grant

Init ==
  /\ memory = [d \in Delivery |-> "none"]
  /\ durable = memory
  /\ due = {}
  /\ workers = [w \in Worker |-> IdleWorker]
  /\ retryAlarm = FALSE
  /\ expiry = [g \in Grant |-> "set"]
  /\ faults = 0
  /\ received = {}
  /\ answered = {}

(***************************************************************************)
(* Finalization                                                            *)
(***************************************************************************)

Open(m, g) == {t \in Target : m[<<g, t>>] \in Undelivered}

TodoFirstTime(m, g) ==  \* fault: existing evidence is returned without another handoff
  IF \A t \in Target : memory[<<g, t>>] = "none" THEN Open(m, g) ELSE {}

\* What finalize goes through: due or not, a repeated finalization hands off again.
Todo(m, g) == Open(m, g)

\* finalize: the first one records a pending delivery for each target, and each one goes
\* through a copy of what is undelivered.
Finalize(w, g, op) ==
  /\ workers[w].at = "idle"
  /\ memory' = [d \in Delivery |->
       IF d[1] = g /\ memory[d] = "none" THEN "pending" ELSE memory[d]]
  /\ workers' = [workers EXCEPT ![w] =
       [IdleWorker EXCEPT !.at = "listing", !.op = op, !.grant = g, !.todo = Todo(memory', g)]]
  /\ UNCHANGED <<durable, due, retryAlarm, faults, received, answered>>

\* An agent completes, or an operator revokes, as often as they like.
Revoke(w, g) == Finalize(w, g, "finalize") /\ UNCHANGED expiry

FireExpiry(w, g) ==
  /\ expiry[g] = "set"
  /\ expiry' = [expiry EXCEPT ![g] = "firing"]
  /\ Finalize(w, g, "expire")

(***************************************************************************)
(* Retry                                                                   *)
(***************************************************************************)

\* The platform runs one alarm handler of the object at a time.
FireRetry(w) ==
  /\ workers[w].at = "idle"
  /\ retryAlarm
  /\ \A v \in Worker : workers[v].at # "idle" => workers[v].op # "retry"
  /\ retryAlarm' = FALSE
  /\ workers' = [workers EXCEPT ![w] =
       [IdleWorker EXCEPT !.at = "listing", !.op = "retry", !.left = Grant]]
  /\ UNCHANGED <<memory, durable, due, expiry, faults, received, answered>>

\* retryRevocations copies a grant's records when it gets there, and keeps those due.
Visit(w, g) ==
  /\ workers[w].at = "listing"
  /\ workers[w].todo = {}
  /\ g \in workers[w].left
  /\ workers' = [workers EXCEPT ![w] = [@ EXCEPT
       !.grant = g,
       !.left = workers[w].left \ {g},
       !.todo = {t \in Target : \/ memory[<<g, t>>] = "pending"
                                \/ memory[<<g, t>>] = "failed" /\ <<g, t>> \in due}]]
  /\ UNCHANGED <<memory, durable, due, retryAlarm, expiry, faults, received, answered>>

\* nextAttemptAt of a failed delivery comes.
TimePasses(d) ==
  /\ d \notin due
  /\ memory[d] = "failed"
  /\ due' = due \union {d}
  /\ UNCHANGED <<memory, durable, workers, retryAlarm, expiry, faults, received, answered>>

(***************************************************************************)
(* One handoff                                                             *)
(***************************************************************************)

Handed(w) == <<workers[w].grant, workers[w].target>>

Send(w, t) ==
  /\ workers[w].at = "listing"
  /\ t \in workers[w].todo
  /\ workers' = [workers EXCEPT ![w] = [@ EXCEPT !.at = "sending", !.target = t]]
  /\ UNCHANGED <<memory, durable, due, retryAlarm, expiry, faults, received, answered>>

\* The relay takes the revocation in; its receipt may still be lost.
Take(w) ==
  /\ workers[w].at = "sending"
  /\ received' = received \union {Handed(w)}
  /\ workers' = [workers EXCEPT ![w].at = "taken"]
  /\ UNCHANGED <<memory, durable, due, retryAlarm, expiry, faults, answered>>

\* updateDelivery for an answered handoff, whatever is recorded by then.
Record(w, status) ==
  /\ memory' = [memory EXCEPT ![Handed(w)] = status]
  /\ workers' = [workers EXCEPT ![w] =
       [@ EXCEPT !.at = "listing", !.target = None,
                 !.todo = workers[w].todo \ {workers[w].target}]]
  /\ UNCHANGED <<durable, retryAlarm, expiry, faults, received, answered>>

Deliver(w) ==
  /\ workers[w].at = "taken"
  /\ Record(w, "delivered")
  /\ UNCHANGED due

RejectedAsDelivered(w) ==  \* fault: any answer counts as a receipt
  /\ workers[w].at \in {"sending", "taken"}
  /\ Record(w, "delivered")
  /\ UNCHANGED due

\* No binding, no answer, a refusal, or an answer without a receipt.
Reject(w) ==
  /\ workers[w].at \in {"sending", "taken"}
  /\ Record(w, "failed")
  /\ due' = due \ {Handed(w)}

(***************************************************************************)
(* After the handoffs                                                      *)
(***************************************************************************)

\* Any other request of the coordinator: it persists what the workers have left.
Other(w) ==
  /\ workers[w].at = "idle"
  /\ workers' = [workers EXCEPT ![w] = [IdleWorker EXCEPT !.at = "listing"]]
  /\ UNCHANGED <<memory, durable, due, retryAlarm, expiry, faults, received, answered>>

Persist(w) ==
  /\ workers[w].at = "listing"
  /\ workers[w].todo = {}
  /\ workers[w].left = {}
  /\ durable' = memory
  /\ workers' = [workers EXCEPT ![w].at = "stored"]
  /\ UNCHANGED <<memory, due, retryAlarm, expiry, faults, received, answered>>

NeedsRetryPending(m) == \E d \in Delivery : m[d] = "pending"  \* fault: failed is left alone
NeedsRetry(m) == \E d \in Delivery : m[d] \in Undelivered

\* The grants that have an answer, worker w's included.
AnsweredBy(w) ==
  IF workers[w].op \in {"finalize", "expire"}
  THEN answered \union {workers[w].grant} ELSE answered

\* scheduleRetry looks at the records as they are now, after the projection's await; then
\* the answer leaves, which ends the alarm that asked for it.
Finish(w) ==
  /\ workers[w].at = "stored"
  /\ retryAlarm' = (retryAlarm \/ NeedsRetry(memory))
  /\ expiry' = IF workers[w].op = "expire"
               THEN [expiry EXCEPT ![workers[w].grant] = "done"] ELSE expiry
  /\ answered' = AnsweredBy(w)
  /\ workers' = [workers EXCEPT ![w] = IdleWorker]
  /\ UNCHANGED <<memory, durable, due, faults, received>>

\* The object loses its memory and its workers. The platform fires an alarm again whose
\* handler did not return.
Evict ==
  /\ faults < MaxFaults
  /\ faults' = faults + 1
  /\ memory' = durable
  /\ workers' = [w \in Worker |-> IdleWorker]
  /\ retryAlarm' = (retryAlarm \/ \E w \in Worker : workers[w].op = "retry")
  /\ expiry' = [g \in Grant |-> IF expiry[g] = "firing" THEN "set" ELSE expiry[g]]
  /\ UNCHANGED <<durable, due, received, answered>>

(***************************************************************************)
(* The system                                                              *)
(***************************************************************************)

Proceed(w) ==
  \/ \E g \in Grant : Visit(w, g)
  \/ \E t \in Target : Send(w, t)
  \/ Take(w)
  \/ Deliver(w)
  \/ Reject(w)
  \/ Persist(w)
  \/ Finish(w)

Next ==
  \/ \E w \in Worker :
       \/ \E g \in Grant : Revoke(w, g) \/ FireExpiry(w, g)
       \/ FireRetry(w)
       \/ Other(w)
       \/ Proceed(w)
  \/ \E d \in Delivery : TimePasses(d)
  \/ Evict

Spec == Init /\ [][Next]_vars

RelayTakes(d) == \E w \in Worker : Take(w) /\ Handed(w) = d

\* Workers go on, time passes, the platform fires a set alarm in between the requests of
\* the clients, and a relay that is asked again and again takes each revocation in once.
\* Nothing says that its receipt ever arrives.
FairSpec ==
  /\ Spec
  /\ \A w \in Worker : WF_vars(Proceed(w))
  /\ \A d \in Delivery : WF_vars(TimePasses(d)) /\ SF_vars(RelayTakes(d))
  /\ SF_vars(\E w \in Worker : FireRetry(w))
  /\ \A g \in Grant : SF_vars(\E w \in Worker : FireExpiry(w, g))

(***************************************************************************)
(* Properties                                                              *)
(***************************************************************************)

\* The evidence never claims a handoff the relay did not take in.
DeliveredWasReceived ==
  \A d \in Delivery : "delivered" \in {memory[d], durable[d]} => d \in received

\* Whoever finalizes gets an answer only when every target of the grant was tried and the
\* result stored, although another worker may be the one that is trying.
AnsweredWasTried ==
  \A g \in answered : \A t \in Target : durable[<<g, t>>] \in {"failed", "delivered"}

\* While the relay lacks a stored revocation, somebody is going to hand it off: a worker
\* in progress, the retry alarm, or the grant's expiry callback.
RetryIsArmed ==
  \A d \in Delivery : durable[d] \in Undelivered /\ d \notin received =>
    \/ retryAlarm
    \/ expiry[d[1]] # "done"
    \/ \E w \in Worker : workers[w].at # "idle"

\* At least once: a revocation that was stored reaches the relay, however often it refuses
\* and wherever the coordinator is interrupted.
AtLeastOnce ==
  \A d \in Delivery : durable[d] # "none" ~> d \in received
=============================================================================
