---------------------------- MODULE EventDelivery ----------------------------
(***************************************************************************)
(* Revocation of access tokens and its security events: revoke and         *)
(* deliverDueEvents (service.ts) over the D1 tables of D1ServiceStore      *)
(* (repository.ts), the Worker that schedules a delivery after a           *)
(* revocation (router.ts), and the singleton Durable Object that owns the  *)
(* retry alarm (event-delivery-durable-object.ts).                         *)
(*                                                                         *)
(* D1 is shared by everybody and a query is atomic, but whoever waits for  *)
(* its answer lets the others run: requests of the Worker side by side,    *)
(* and runs of the Durable Object too, since only its own storage keeps    *)
(* other events out. An action is what happens between two such waits.     *)
(*                                                                         *)
(* Subscribers and events are never deleted, so the branch of              *)
(* deliverDueEvents for a missing one is never taken. The backoff of at    *)
(* most 300 seconds is "not due until some time has passed", and an alarm  *)
(* may fire at any time after it was set.                                  *)
(***************************************************************************)
EXTENDS Naturals, FiniteSets

CONSTANTS
  Token,        \* the access tokens that were issued
  Subscriber,   \* the services that can subscribe
  Request,      \* the revocation requests that can be in flight at once
  Run,          \* the runs of the Durable Object that can be in progress at once
  None,         \* an absent value
  Limit,        \* how many deliveries a run takes (25 in the code)
  MaxAttempts,  \* attempts after which a delivery is given up (5 in the code)
  MaxFaults     \* bound: requests and runs that die

ASSUME EventAssumption ==
  /\ Limit \in Nat \ {0} /\ MaxAttempts \in Nat \ {0} /\ MaxFaults \in Nat
  /\ None \notin Token \union Subscriber

VARIABLES
  revoked,      \* issued_tokens: the tokens with a revoked_at
  events,       \* revocation_events: the tokens that have one
  subscribers,  \* event_subscribers
  rows,         \* event_deliveries: Delivery -> status and attempts
  due,          \* the deliveries whose next_attempt_at has come
  requests,     \* Request -> the revocation in flight
  runs,         \* Run -> the run in progress
  alarm,        \* the object's alarm is set
  faults,       \* faults so far
  confirmed,    \* history: the deliveries a subscriber has confirmed
  sends,        \* history: Delivery -> how often it was sent, up to MaxAttempts
  outdated,     \* history: runs about to arm by an answer from before the alarm was last set
  crossed,      \* history: such a run has deleted the alarm
  abandoned     \* history: a request that queued rows, or the run it asked for, has died

database == <<revoked, events, subscribers, rows, due>>
sent == <<confirmed, sends>>
history == <<sent, outdated, crossed, abandoned>>
vars == <<database, requests, runs, alarm, faults, history>>

(***************************************************************************)
(* Types                                                                   *)
(***************************************************************************)

Delivery == Token \X Subscriber
DeliveryStatus == {"none", "pending", "delivered", "failed"}
Row == [status: DeliveryStatus, attempts: 0..MaxAttempts]
NoRow == [status |-> "none", attempts |-> 0]

\* todo: the subscribers whose delivery is still to be inserted.
RequestState == [at: {"idle", "revoked", "recorded", "queueing", "answered"},
                 token: Token \union {None},
                 todo: SUBSET Subscriber]
IdleRequest == [at |-> "idle", token |-> None, todo |-> {}]

\* batch: the deliveries listDueDeliveries returned and that are still to be sent; copy:
\* the attempts read with them; ok: the answer to the one at hand; next: whether
\* nextPendingDeliveryAt found anything.
RunState == [at: {"idle", "listing", "sending", "saving", "arming"},
             onAlarm: BOOLEAN,
             batch: SUBSET Delivery,
             copy: [Delivery -> 0..MaxAttempts],
             hand: Delivery \union {None},
             ok: BOOLEAN,
             next: BOOLEAN]
IdleRun == [at |-> "idle", onAlarm |-> FALSE, batch |-> {},
            copy |-> [x \in Delivery |-> 0], hand |-> None, ok |-> FALSE, next |-> FALSE]

TypeOK ==
  /\ revoked \subseteq Token
  /\ events \subseteq Token
  /\ subscribers \subseteq Subscriber
  /\ rows \in [Delivery -> Row]
  /\ due \subseteq Delivery
  /\ requests \in [Request -> RequestState]
  /\ runs \in [Run -> RunState]
  /\ alarm \in BOOLEAN
  /\ faults \in 0..MaxFaults
  /\ confirmed \subseteq Delivery
  /\ sends \in [Delivery -> 0..MaxAttempts]
  /\ outdated \subseteq Run
  /\ crossed \in BOOLEAN
  /\ abandoned \in BOOLEAN

Init ==
  /\ revoked = {}
  /\ events = {}
  /\ subscribers = {}
  /\ rows = [x \in Delivery |-> NoRow]
  /\ due = {}
  /\ requests = [q \in Request |-> IdleRequest]
  /\ runs = [d \in Run |-> IdleRun]
  /\ alarm = FALSE
  /\ faults = 0
  /\ confirmed = {}
  /\ sends = [x \in Delivery |-> 0]
  /\ outdated = {}
  /\ crossed = FALSE
  /\ abandoned = FALSE

(***************************************************************************)
(* Subscription and revocation                                             *)
(***************************************************************************)

Subscribe(s) ==
  /\ s \notin subscribers
  /\ subscribers' = subscribers \union {s}
  /\ UNCHANGED <<revoked, events, rows, due, requests, runs, alarm, faults, history>>

\* revokeToken is one UPDATE ... WHERE revoked_at IS NULL: the request that changes the
\* row goes on, any other is answered with 200 at once.
RevokeToken(q, t) ==
  /\ requests[q].at = "idle"
  /\ revoked' = revoked \union {t}
  /\ requests' = [requests EXCEPT ![q] =
       [IdleRequest EXCEPT !.at = IF t \in revoked THEN "answered" ELSE "revoked",
                           !.token = t]]
  /\ UNCHANGED <<events, subscribers, rows, due, runs, alarm, faults, history>>

CreateEvent(q) ==
  /\ requests[q].at = "revoked"
  /\ events' = events \union {requests[q].token}
  /\ requests' = [requests EXCEPT ![q].at = "recorded"]
  /\ UNCHANGED <<revoked, subscribers, rows, due, runs, alarm, faults, history>>

ListSubscribers(q) ==
  /\ requests[q].at = "recorded"
  /\ requests' = [requests EXCEPT ![q] = [@ EXCEPT !.at = "queueing", !.todo = subscribers]]
  /\ UNCHANGED <<database, runs, alarm, faults, history>>

\* The inserts of Promise.all land in any order.
CreateDelivery(q, s) ==
  LET x == <<requests[q].token, s>>
  IN /\ requests[q].at = "queueing"
     /\ s \in requests[q].todo
     /\ rows' = [rows EXCEPT ![x] = [status |-> "pending", attempts |-> 0]]
     /\ due' = due \union {x}
     /\ requests' = [requests EXCEPT ![q].todo = @ \ {s}]
     /\ UNCHANGED <<revoked, events, subscribers, runs, alarm, faults, history>>

AnswerUnscheduled(q) ==  \* fault: nobody calls the object after the answer
  /\ requests[q].at = "queueing"
  /\ requests[q].todo = {}
  /\ requests' = [requests EXCEPT ![q] = IdleRequest]
  /\ UNCHANGED <<database, runs, alarm, faults, history>>
AnswerRevoke(q) ==
  /\ requests[q].at = "queueing"
  /\ requests[q].todo = {}
  /\ requests' = [requests EXCEPT ![q].at = "answered"]
  /\ UNCHANGED <<database, runs, alarm, faults, history>>

(***************************************************************************)
(* Runs of the Durable Object                                              *)
(***************************************************************************)

Begin(d, onAlarm) ==
  /\ runs[d].at = "idle"
  /\ runs' = [runs EXCEPT ![d] = [IdleRun EXCEPT !.at = "listing", !.onAlarm = onAlarm]]

\* waitUntil(scheduleEventDelivery) after the 200 of a revocation.
Schedule(q, d) ==
  /\ requests[q].at = "answered"
  /\ requests' = [requests EXCEPT ![q] = IdleRequest]
  /\ Begin(d, FALSE)
  /\ UNCHANGED <<database, alarm, faults, history>>

\* The platform runs one alarm handler of an object at a time.
FireAlarm(d) ==
  /\ alarm
  /\ \A e \in Run : runs[e].at # "idle" => ~runs[e].onAlarm
  /\ alarm' = FALSE
  /\ Begin(d, TRUE)
  /\ UNCHANGED <<database, requests, faults, history>>

TimePasses(x) ==
  /\ rows[x].status = "pending"
  /\ x \notin due
  /\ due' = due \union {x}
  /\ UNCHANGED <<revoked, events, subscribers, rows, requests, runs, alarm, faults, history>>

DueNow == {x \in due : rows[x].status = "pending"}

\* listDueDeliveries returns the due rows, up to the limit.
ListDue(d) ==
  /\ runs[d].at = "listing"
  /\ \E batch \in SUBSET DueNow :
       /\ batch = DueNow \/ Cardinality(batch) = Limit
       /\ Cardinality(batch) <= Limit
       /\ runs' = [runs EXCEPT ![d] = [@ EXCEPT
            !.at = "sending", !.batch = batch,
            !.copy = [x \in Delivery |-> IF x \in batch THEN rows[x].attempts ELSE 0]]]
  /\ UNCHANGED <<database, requests, alarm, faults, history>>

\* One POST to a subscriber, and its answer. Without a good one the subscriber may have got
\* the event or not.
Send(d, x, ok) ==
  /\ runs[d].at = "sending"
  /\ x \in runs[d].batch
  /\ confirmed' = IF ok THEN confirmed \union {x} ELSE confirmed
  /\ sends' = [sends EXCEPT ![x] = IF @ < MaxAttempts THEN @ + 1 ELSE @]
  /\ runs' = [runs EXCEPT ![d] =
       [@ EXCEPT !.at = "saving", !.hand = x, !.ok = ok, !.batch = runs[d].batch \ {x}]]
  /\ UNCHANGED <<database, requests, alarm, faults, outdated, crossed, abandoned>>

GivesUpEarly(attempts) == attempts >= MaxAttempts - 1  \* fault: off by one
GivesUp(attempts) == attempts >= MaxAttempts

StatusAfterAnyAnswer(ok, attempts) == "delivered"  \* fault: an answer is enough
StatusAfter(ok, attempts) ==
  IF ok THEN "delivered" ELSE IF GivesUp(attempts) THEN "failed" ELSE "pending"

\* saveDelivery writes the copy it was given, whatever the row has become meanwhile.
SaveDelivery(d) ==
  LET x == runs[d].hand
      attempts == runs[d].copy[x] + 1
      status == StatusAfter(runs[d].ok, attempts)
  IN /\ runs[d].at = "saving"
     /\ rows' = [rows EXCEPT ![x] = [status |-> status, attempts |-> attempts]]
     /\ due' = IF status = "pending" THEN due \ {x} ELSE due
     /\ runs' = [runs EXCEPT ![d] = [@ EXCEPT !.at = "sending", !.hand = None, !.ok = FALSE,
                                               !.copy = [runs[d].copy EXCEPT ![x] = 0]]]
     /\ UNCHANGED <<revoked, events, subscribers, requests, alarm, faults, history>>

PendingLeftDue == DueNow # {}  \* fault: a delivery that waits is not counted
PendingLeft == \E x \in Delivery : rows[x].status = "pending"

\* nextPendingDeliveryAt answers, after the last delivery of the batch.
NextPending(d) ==
  /\ runs[d].at = "sending"
  /\ runs[d].batch = {}
  /\ runs' = [runs EXCEPT ![d] = [@ EXCEPT !.at = "arming", !.next = PendingLeft]]
  /\ UNCHANGED <<database, requests, alarm, faults, history>>

Arming == {d \in Run : runs[d].at = "arming"}

\* setAlarm or deleteAlarm, by what the query found.
Arm(d) ==
  /\ runs[d].at = "arming"
  /\ alarm' = runs[d].next
  /\ runs' = [runs EXCEPT ![d] = IdleRun]
  /\ outdated' = (IF runs[d].next THEN Arming ELSE outdated) \ {d}
  /\ crossed' = (crossed \/ (~runs[d].next /\ d \in outdated))
  /\ UNCHANGED <<database, requests, faults, sent, abandoned>>

(***************************************************************************)
(* Failures                                                                *)
(***************************************************************************)

\* The request has rows in event_deliveries, and will call the object.
Queueing == {"queueing", "answered"}

\* A query of the request fails, or its Worker dies; nothing is scheduled then.
RequestDies(q) ==
  /\ faults < MaxFaults
  /\ faults' = faults + 1
  /\ requests[q].at # "idle"
  /\ requests' = [requests EXCEPT ![q] = IdleRequest]
  /\ abandoned' = (abandoned \/ requests[q].at \in Queueing)
  /\ UNCHANGED <<database, runs, alarm, sent, outdated, crossed>>

\* A run dies. The platform fires an alarm again whose handler threw; nobody repeats the
\* run of a request.
RunDies(d) ==
  /\ faults < MaxFaults
  /\ faults' = faults + 1
  /\ runs[d].at # "idle"
  /\ alarm' = (alarm \/ runs[d].onAlarm)
  /\ runs' = [runs EXCEPT ![d] = IdleRun]
  /\ outdated' = (IF runs[d].onAlarm THEN Arming ELSE outdated) \ {d}
  /\ abandoned' = (abandoned \/ ~runs[d].onAlarm)
  /\ UNCHANGED <<database, requests, sent, crossed>>

(***************************************************************************)
(* The system                                                              *)
(***************************************************************************)

Revoke(q) ==
  \/ CreateEvent(q)
  \/ ListSubscribers(q)
  \/ \E s \in Subscriber : CreateDelivery(q, s)
  \/ AnswerRevoke(q)

Proceed(d) ==
  \/ ListDue(d)
  \/ \E x \in Delivery, ok \in BOOLEAN : Send(d, x, ok)
  \/ SaveDelivery(d)
  \/ NextPending(d)
  \/ Arm(d)

Next ==
  \/ \E s \in Subscriber : Subscribe(s)
  \/ \E q \in Request :
       \/ \E t \in Token : RevokeToken(q, t)
       \/ Revoke(q)
       \/ \E d \in Run : Schedule(q, d)
       \/ RequestDies(q)
  \/ \E d \in Run : FireAlarm(d) \/ Proceed(d) \/ RunDies(d)
  \/ \E x \in Delivery : TimePasses(x)

Spec == Init /\ [][Next]_vars

\* A request and a run go on, time passes, and the platform calls the object when it is
\* asked to and when its alarm is set, in between the calls of others.
FairSpec ==
  /\ Spec
  /\ \A q \in Request : WF_vars(Revoke(q)) /\ SF_vars(\E d \in Run : Schedule(q, d))
  /\ \A d \in Run : WF_vars(Proceed(d))
  /\ SF_vars(\E d \in Run : FireAlarm(d))
  /\ \A x \in Delivery : WF_vars(TimePasses(x))

(***************************************************************************)
(* Properties                                                              *)
(***************************************************************************)

\* A row that says how its delivery ended is right, whichever run wrote it last: it was
\* confirmed, or it was sent as often as promised. Runs side by side count from the same copy,
\* and may send the event more often but not less.
OutcomeIsTrue ==
  \A x \in Delivery :
    /\ rows[x].status = "delivered" => x \in confirmed
    /\ rows[x].status = "failed" => sends[x] = MaxAttempts

\* packages/service/README.md:31, docs/deploy.md:78 and event-delivery-durable-object.ts:23:
\* retries do not depend on another revocation. The alarm is set for a delivery that waits,
\* or somebody is on the way who will see to it.
RetryIsScheduled ==
  \A x \in Delivery : rows[x].status = "pending" =>
    \/ alarm
    \/ \E d \in Run : runs[d].at # "idle"
    \/ \E q \in Request : requests[q].at \in Queueing

\* That is so through any overlap of runs and requests, and when runs of the alarm die,
\* but for two cases. A run deletes the alarm by an answer from before another one set it
\* (RetryIsScheduled itself is violated by that); or a request that was queueing rows, or
\* the run it asked for, dies, and nobody repeats it.
PendingIsScheduled == crossed \/ abandoned \/ RetryIsScheduled

\* Every queued delivery is delivered in the end, or given up, with the same two exceptions.
DeliveriesSettle ==
  \A x \in Delivery :
    rows[x].status = "pending" ~>
      \/ rows[x].status \in {"delivered", "failed"}
      \/ crossed \/ abandoned
=============================================================================
