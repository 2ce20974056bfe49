-------------------------- MODULE RevocationProofs --------------------------
(***************************************************************************)
(* Proofs about RevocationDelivery, for any number of workers, grants,     *)
(* targets and faults: the runs have one target.                           *)
(***************************************************************************)
EXTENDS RevocationDelivery, TLAPS

-----------------------------------------------------------------------------
(* The inductive invariant *)

Tried == {"failed", "delivered"}
Finalizing == {"finalize", "expire"}

\* A worker that hands off has a grant and a target; one that finalizes keeps its grant.
WorkersInv ==
  \A w \in Worker :
    /\ workers[w].at = "idle" => workers[w].op = "other"
    /\ workers[w].todo # {} => workers[w].grant \in Grant
    /\ workers[w].at \in {"sending", "taken"} => workers[w].target \in workers[w].todo
    /\ workers[w].op \in Finalizing => workers[w].grant \in Grant
    /\ workers[w].left # {} => workers[w].op = "retry"

\* What the relay took in, for the workers that wait for its receipt.
TakenInv == \A w \in Worker : workers[w].at = "taken" => Handed(w) \in received

\* Memory is never behind the snapshot.
StoredInv == \A d \in Delivery : durable[d] \in Tried => memory[d] \in Tried

\* A finalization has tried, or has still to try, every target of its grant.
TriesInv ==
  \A w \in Worker : workers[w].op \in Finalizing => \A t \in Target :
    /\ workers[w].at \in {"listing", "sending", "taken"} =>
         t \in workers[w].todo \/ memory[<<workers[w].grant, t>>] \in Tried
    /\ workers[w].at = "stored" => durable[<<workers[w].grant, t>>] \in Tried

\* Once the expiry callback of a grant is over, the relay has its revocations, or the retry
\* alarm is set, or its handler runs: an eviction sets it again.
ArmedInv ==
  \A g \in Grant : expiry[g] = "done" => \A t \in Target :
    /\ durable[<<g, t>>] \in Tried
    /\ <<g, t>> \in received \/ retryAlarm \/ \E w \in Worker : workers[w].op = "retry"

IInv == /\ TypeOK
        /\ WorkersInv
        /\ TakenInv
        /\ DeliveredWasReceived
        /\ StoredInv
        /\ TriesInv
        /\ AnsweredWasTried
        /\ ArmedInv

-----------------------------------------------------------------------------
(* Each action keeps it *)

LEMMA RevokeStep ==
  ASSUME IInv, NEW w \in Worker, NEW g \in Grant, Revoke(w, g)
  PROVE  IInv'
<1>1. TypeOK'
  BY DEF IInv, TypeOK, Revoke, Finalize, WorkerState, IdleWorker, Todo, Open, DeliveryStatus
<1>2. WorkersInv'
  BY DEF IInv, WorkersInv, Revoke, Finalize, IdleWorker
<1>3. TakenInv'
  BY DEF IInv, Revoke, Finalize, TakenInv, Handed
<1>4. DeliveredWasReceived'
  BY DEF IInv, Revoke, Finalize, DeliveredWasReceived
<1>5. StoredInv'
  BY DEF IInv, Revoke, Finalize, StoredInv, Tried
<1>6. TriesInv'
  BY DEF IInv, TypeOK, Delivery, WorkersInv, Revoke, Finalize, TriesInv, Tried, Todo, Open,
         Undelivered, DeliveryStatus
<1>7. AnsweredWasTried'
  BY DEF IInv, Revoke, Finalize, AnsweredWasTried
<1>8. ArmedInv'
  BY DEF IInv, WorkersInv, Revoke, Finalize, ArmedInv
<1> QED
  BY <1>1, <1>2, <1>3, <1>4, <1>5, <1>6, <1>7, <1>8 DEF IInv

LEMMA FireExpiryStep ==
  ASSUME IInv, NEW w \in Worker, NEW g \in Grant, FireExpiry(w, g)
  PROVE  IInv'
<1>1. TypeOK'
  BY DEF IInv, TypeOK, FireExpiry, Finalize, WorkerState, IdleWorker, Todo, Open, DeliveryStatus
<1>2. WorkersInv'
  BY DEF IInv, WorkersInv, FireExpiry, Finalize, IdleWorker
<1>3. TakenInv'
  BY DEF IInv, FireExpiry, Finalize, TakenInv, Handed
<1>4. DeliveredWasReceived'
  BY DEF IInv, FireExpiry, Finalize, DeliveredWasReceived
<1>5. StoredInv'
  BY DEF IInv, FireExpiry, Finalize, StoredInv, Tried
<1>6. TriesInv'
  BY DEF IInv, TypeOK, Delivery, WorkersInv, FireExpiry, Finalize, TriesInv, Tried, Todo, Open,
         Undelivered, DeliveryStatus
<1>7. AnsweredWasTried'
  BY DEF IInv, FireExpiry, Finalize, AnsweredWasTried
<1>8. ArmedInv'
  BY DEF IInv, WorkersInv, FireExpiry, Finalize, ArmedInv
<1> QED
  BY <1>1, <1>2, <1>3, <1>4, <1>5, <1>6, <1>7, <1>8 DEF IInv

LEMMA FireRetryStep ==
  ASSUME IInv, NEW w \in Worker, FireRetry(w)
  PROVE  IInv'
<1>1. TypeOK'
  BY DEF IInv, TypeOK, FireRetry, WorkerState, IdleWorker
<1>2. WorkersInv'
  BY DEF IInv, WorkersInv, FireRetry, IdleWorker, Finalizing
<1>3. TakenInv'
  BY DEF IInv, FireRetry, TakenInv, Handed
<1>4. DeliveredWasReceived'
  BY DEF IInv, FireRetry, DeliveredWasReceived
<1>5. StoredInv'
  BY DEF IInv, FireRetry, StoredInv
<1>6. TriesInv'
  BY DEF IInv, FireRetry, TriesInv, Finalizing
<1>7. AnsweredWasTried'
  BY DEF IInv, FireRetry, AnsweredWasTried
<1>8. ArmedInv'
  BY DEF IInv, TypeOK, FireRetry, ArmedInv
<1> QED
  BY <1>1, <1>2, <1>3, <1>4, <1>5, <1>6, <1>7, <1>8 DEF IInv

LEMMA VisitStep ==
  ASSUME IInv, NEW w \in Worker, NEW g \in Grant, Visit(w, g)
  PROVE  IInv'
<1>0. PICK ts \in SUBSET Target :
        workers' = [workers EXCEPT ![w] =
          [@ EXCEPT !.grant = g, !.left = workers[w].left \ {g}, !.todo = ts]]
  BY DEF Visit
<1> DEFINE new == [workers[w] EXCEPT !.grant = g, !.left = workers[w].left \ {g}, !.todo = ts]
<1>a. /\ new \in WorkerState /\ new.at = workers[w].at /\ new.op = workers[w].op
      /\ new.grant = g /\ new.left = workers[w].left \ {g} /\ new.target = workers[w].target
  BY DEF IInv, TypeOK, WorkerState
<1>b. workers' = [workers EXCEPT ![w] = new]
  BY <1>0
<1> HIDE DEF new
<1>c. workers[w].at = "listing" /\ workers[w].op = "retry"
  BY DEF Visit, IInv, WorkersInv
<1>1. TypeOK'
  BY <1>a, <1>b DEF IInv, TypeOK, Visit
<1>2. WorkersInv'
  BY <1>a, <1>b, <1>c DEF IInv, TypeOK, WorkersInv, Finalizing
<1>3. TakenInv'
  BY <1>a, <1>b, <1>c DEF IInv, TypeOK, Visit, TakenInv, Handed
<1>4. DeliveredWasReceived'
  BY DEF IInv, Visit, DeliveredWasReceived
<1>5. StoredInv'
  BY DEF IInv, Visit, StoredInv
<1>6. TriesInv'
  BY <1>a, <1>b, <1>c DEF IInv, TypeOK, Visit, TriesInv, Finalizing
<1>7. AnsweredWasTried'
  BY DEF IInv, Visit, AnsweredWasTried
<1>8. ArmedInv'
  BY <1>a, <1>b DEF IInv, TypeOK, Visit, ArmedInv
<1> QED
  BY <1>1, <1>2, <1>3, <1>4, <1>5, <1>6, <1>7, <1>8 DEF IInv

LEMMA TimePassesStep ==
  ASSUME IInv, NEW d \in Delivery, TimePasses(d)
  PROVE  IInv'
<1>1. TypeOK'
  BY DEF IInv, TypeOK, TimePasses
<1>2. WorkersInv'
  BY DEF IInv, WorkersInv, TimePasses
<1>3. TakenInv'
  BY DEF IInv, TimePasses, TakenInv, Handed
<1>4. DeliveredWasReceived'
  BY DEF IInv, TimePasses, DeliveredWasReceived
<1>5. StoredInv'
  BY DEF IInv, TimePasses, StoredInv
<1>6. TriesInv'
  BY DEF IInv, TimePasses, TriesInv
<1>7. AnsweredWasTried'
  BY DEF IInv, TimePasses, AnsweredWasTried
<1>8. ArmedInv'
  BY DEF IInv, TimePasses, ArmedInv
<1> QED
  BY <1>1, <1>2, <1>3, <1>4, <1>5, <1>6, <1>7, <1>8 DEF IInv

LEMMA SendStep ==
  ASSUME IInv, NEW w \in Worker, NEW t \in Target, Send(w, t)
  PROVE  IInv'
<1>1. TypeOK'
  <2>1. [workers[w] EXCEPT !.at = "sending", !.target = t] \in WorkerState
    BY DEF IInv, TypeOK, WorkerState
  <2> QED
    BY <2>1 DEF IInv, TypeOK, Send
<1>2. WorkersInv'
  BY DEF IInv, TypeOK, WorkersInv, Send
<1>3. TakenInv'
  BY DEF IInv, TypeOK, Send, TakenInv, Handed
<1>4. DeliveredWasReceived'
  BY DEF IInv, Send, DeliveredWasReceived
<1>5. StoredInv'
  BY DEF IInv, Send, StoredInv
<1>6. TriesInv'
  BY DEF IInv, TypeOK, Send, TriesInv
<1>7. AnsweredWasTried'
  BY DEF IInv, Send, AnsweredWasTried
<1>8. ArmedInv'
  BY DEF IInv, TypeOK, Send, ArmedInv
<1> QED
  BY <1>1, <1>2, <1>3, <1>4, <1>5, <1>6, <1>7, <1>8 DEF IInv

LEMMA TakeStep ==
  ASSUME IInv, NEW w \in Worker, Take(w)
  PROVE  IInv'
<1>1. TypeOK'
  BY DEF IInv, TypeOK, Take, WorkerState, WorkersInv, Handed, Delivery
<1>2. WorkersInv'
  BY DEF IInv, WorkersInv, Take
<1>3. TakenInv'
  BY DEF IInv, Take, TakenInv, Handed
<1>4. DeliveredWasReceived'
  BY DEF IInv, Take, DeliveredWasReceived
<1>5. StoredInv'
  BY DEF IInv, Take, StoredInv
<1>6. TriesInv'
  BY DEF IInv, Take, TriesInv
<1>7. AnsweredWasTried'
  BY DEF IInv, Take, AnsweredWasTried
<1>8. ArmedInv'
  BY DEF IInv, Take, ArmedInv
<1> QED
  BY <1>1, <1>2, <1>3, <1>4, <1>5, <1>6, <1>7, <1>8 DEF IInv

\* A worker that records an answer is done with its target; the others go on as they were.
LEMMA RecordFields ==
  ASSUME IInv, NEW w \in Worker, NEW s \in Tried, workers[w].at \in {"sending", "taken"},
         Record(w, s)
  PROVE  /\ workers' \in [Worker -> WorkerState] /\ memory' \in [Delivery -> DeliveryStatus]
         /\ Handed(w) \in Delivery /\ memory'[Handed(w)] = s
         /\ \A d \in Delivery : d # Handed(w) => memory'[d] = memory[d]
         /\ \A d \in Delivery : memory'[d] = memory[d] \/ memory'[d] \in Tried
         /\ \A v \in Worker : v # w => workers'[v] = workers[v]
         /\ workers'[w].at = "listing" /\ workers'[w].op = workers[w].op
         /\ workers'[w].grant = workers[w].grant /\ workers'[w].left = workers[w].left
         /\ workers'[w].todo = workers[w].todo \ {workers[w].target}
<1> DEFINE new == [workers[w] EXCEPT !.at = "listing", !.target = None,
                                     !.todo = workers[w].todo \ {workers[w].target}]
<1>1. /\ new \in WorkerState /\ new.at = "listing" /\ new.op = workers[w].op
      /\ new.grant = workers[w].grant /\ new.left = workers[w].left
      /\ new.todo = workers[w].todo \ {workers[w].target}
  BY DEF IInv, TypeOK, WorkerState
<1>2. workers' = [workers EXCEPT ![w] = new]
  BY DEF Record
<1> HIDE DEF new
<1>3. Handed(w) \in Delivery
  <2>1. workers[w] \in WorkerState /\ workers[w].target \in workers[w].todo
        /\ workers[w].grant \in Grant
    BY DEF IInv, TypeOK, WorkersInv
  <2> QED
    BY <2>1 DEF Handed, Delivery, WorkerState
<1>4. memory' = [memory EXCEPT ![Handed(w)] = s] /\ s \in DeliveryStatus
  BY DEF Record, Tried, DeliveryStatus
<1> QED
  BY <1>1, <1>2, <1>3, <1>4 DEF IInv, TypeOK

LEMMA DeliverStep ==
  ASSUME IInv, NEW w \in Worker, Deliver(w)
  PROVE  IInv'
<1>0. /\ workers[w].at \in {"sending", "taken"} /\ "delivered" \in Tried /\ Record(w, "delivered")
      /\ UNCHANGED <<durable, retryAlarm, expiry, faults, received, answered>>
  BY DEF Deliver, Record, Tried
<1> USE <1>0, RecordFields
<1>1. TypeOK'
  BY DEF IInv, TypeOK, Deliver
<1>2. WorkersInv'
  BY DEF IInv, WorkersInv
<1>3. TakenInv'
  BY DEF IInv, TakenInv, Handed
<1>4. DeliveredWasReceived'
  BY DEF IInv, Deliver, DeliveredWasReceived, TakenInv
<1>5. StoredInv'
  BY DEF IInv, StoredInv
<1>6. TriesInv'
  <2> SUFFICES ASSUME NEW v \in Worker, workers'[v].op \in Finalizing, NEW t \in Target,
                      workers'[v].at \in {"listing", "sending", "taken"}
               PROVE  t \in workers'[v].todo \/ memory'[<<workers'[v].grant, t>>] \in Tried
    BY DEF IInv, TriesInv
  <2>1. <<workers[v].grant, t>> \in Delivery /\ workers'[v].grant = workers[v].grant
    BY DEF IInv, WorkersInv, Delivery
  <2>2. t \in workers[v].todo \/ memory[<<workers[v].grant, t>>] \in Tried
    BY DEF IInv, TriesInv
  <2>3. CASE v = w /\ t = workers[w].target
    BY <2>1, <2>3 DEF Handed
  <2>4. CASE v # w \/ t # workers[w].target
    BY <2>1, <2>2, <2>4
  <2> QED
    BY <2>3, <2>4
<1>7. AnsweredWasTried'
  BY DEF IInv, AnsweredWasTried
<1>8. ArmedInv'
  BY DEF IInv, ArmedInv
<1> QED
  BY <1>1, <1>2, <1>3, <1>4, <1>5, <1>6, <1>7, <1>8 DEF IInv

LEMMA RejectStep ==
  ASSUME IInv, NEW w \in Worker, Reject(w)
  PROVE  IInv'
<1>0. /\ workers[w].at \in {"sending", "taken"} /\ "failed" \in Tried /\ Record(w, "failed")
      /\ UNCHANGED <<durable, retryAlarm, expiry, faults, received, answered>>
  BY DEF Reject, Record, Tried
<1> USE <1>0, RecordFields
<1>1. TypeOK'
  BY DEF IInv, TypeOK, Reject
<1>2. WorkersInv'
  BY DEF IInv, WorkersInv
<1>3. TakenInv'
  BY DEF IInv, TakenInv, Handed
<1>4. DeliveredWasReceived'
  BY DEF IInv, Reject, DeliveredWasReceived, TakenInv
<1>5. StoredInv'
  BY DEF IInv, StoredInv
<1>6. TriesInv'
  <2> SUFFICES ASSUME NEW v \in Worker, workers'[v].op \in Finalizing, NEW t \in Target,
                      workers'[v].at \in {"listing", "sending", "taken"}
               PROVE  t \in workers'[v].todo \/ memory'[<<workers'[v].grant, t>>] \in Tried
    BY DEF IInv, TriesInv
  <2>1. <<workers[v].grant, t>> \in Delivery /\ workers'[v].grant = workers[v].grant
    BY DEF IInv, WorkersInv, Delivery
  <2>2. t \in workers[v].todo \/ memory[<<workers[v].grant, t>>] \in Tried
    BY DEF IInv, TriesInv
  <2>3. CASE v = w /\ t = workers[w].target
    BY <2>1, <2>3 DEF Handed
  <2>4. CASE v # w \/ t # workers[w].target
    BY <2>1, <2>2, <2>4
  <2> QED
    BY <2>3, <2>4
<1>7. AnsweredWasTried'
  BY DEF IInv, AnsweredWasTried
<1>8. ArmedInv'
  BY DEF IInv, ArmedInv
<1> QED
  BY <1>1, <1>2, <1>3, <1>4, <1>5, <1>6, <1>7, <1>8 DEF IInv

LEMMA OtherStep ==
  ASSUME IInv, NEW w \in Worker, Other(w)
  PROVE  IInv'
<1>1. TypeOK'
  BY DEF IInv, TypeOK, Other, WorkerState, IdleWorker
<1>2. WorkersInv'
  BY DEF IInv, WorkersInv, Other, IdleWorker, Finalizing
<1>3. TakenInv'
  BY DEF IInv, Other, TakenInv, Handed
<1>4. DeliveredWasReceived'
  BY DEF IInv, Other, DeliveredWasReceived
<1>5. StoredInv'
  BY DEF IInv, Other, StoredInv
<1>6. TriesInv'
  BY DEF IInv, Other, TriesInv, IdleWorker, Finalizing
<1>7. AnsweredWasTried'
  BY DEF IInv, Other, AnsweredWasTried
<1>8. ArmedInv'
  BY DEF IInv, WorkersInv, Other, ArmedInv
<1> QED
  BY <1>1, <1>2, <1>3, <1>4, <1>5, <1>6, <1>7, <1>8 DEF IInv

LEMMA PersistStep ==
  ASSUME IInv, NEW w \in Worker, Persist(w)
  PROVE  IInv'
<1>1. TypeOK'
  BY DEF IInv, TypeOK, Persist, WorkerState
<1>2. WorkersInv'
  BY DEF IInv, WorkersInv, Persist
<1>3. TakenInv'
  BY DEF IInv, Persist, TakenInv, Handed
<1>4. DeliveredWasReceived'
  BY DEF IInv, Persist, DeliveredWasReceived
<1>5. StoredInv'
  BY DEF Persist, StoredInv
<1>6. TriesInv'
  BY DEF IInv, Delivery, WorkersInv, Persist, TriesInv, StoredInv
<1>7. AnsweredWasTried'
  BY DEF IInv, TypeOK, Delivery, Persist, AnsweredWasTried, StoredInv, Tried
<1>8. ArmedInv'
  BY DEF IInv, Delivery, Persist, ArmedInv, StoredInv
<1> QED
  BY <1>1, <1>2, <1>3, <1>4, <1>5, <1>6, <1>7, <1>8 DEF IInv

LEMMA FinishStep ==
  ASSUME IInv, NEW w \in Worker, Finish(w)
  PROVE  IInv'
<1>1. TypeOK'
  BY DEF IInv, TypeOK, Finish, AnsweredBy, Finalizing, WorkerState, IdleWorker, WorkersInv
<1>2. WorkersInv'
  BY DEF IInv, WorkersInv, Finish, Finalizing, IdleWorker
<1>3. TakenInv'
  BY DEF IInv, Finish, TakenInv, Handed, IdleWorker
<1>4. DeliveredWasReceived'
  BY DEF IInv, Finish, DeliveredWasReceived
<1>5. StoredInv'
  BY DEF IInv, Finish, StoredInv
<1>6. TriesInv'
  BY DEF IInv, Finish, TriesInv, IdleWorker
<1>7. AnsweredWasTried'
  BY DEF IInv, Finish, AnsweredBy, Finalizing, AnsweredWasTried, Tried, TriesInv
<1>8. ArmedInv'
  <2> SUFFICES ASSUME NEW g \in Grant, expiry'[g] = "done", NEW t \in Target
               PROVE  /\ durable'[<<g, t>>] \in Tried
                      /\ <<g, t>> \in received' \/ retryAlarm' \/ \E v \in Worker : workers'[v].op = "retry"
    BY DEF ArmedInv
  <2>1. durable[<<g, t>>] \in Tried /\ <<g, t>> \in Delivery
    <3>1. CASE expiry[g] = "done"
      BY <3>1 DEF IInv, ArmedInv, Delivery
    <3>2. CASE expiry[g] # "done"
      BY <3>2 DEF IInv, Finish, TriesInv, Finalizing, Delivery
    <3> QED
      BY <3>1, <3>2
  <2>2. memory[<<g, t>>] \in Tried
    BY <2>1 DEF IInv, StoredInv
  <2>3. <<g, t>> \in received \/ retryAlarm'
    BY <2>1, <2>2 DEF IInv, DeliveredWasReceived, Finish, NeedsRetry, Tried, Undelivered
  <2> QED
    BY <2>1, <2>3 DEF Finish
<1> QED
  BY <1>1, <1>2, <1>3, <1>4, <1>5, <1>6, <1>7, <1>8 DEF IInv

LEMMA EvictStep ==
  ASSUME IInv, Evict
  PROVE  IInv'
<1>1. TypeOK'
  <2>1. workers' \in [Worker -> WorkerState]
    BY DEF Evict, WorkerState, IdleWorker
  <2>2. expiry' \in [Grant -> {"set", "firing", "done"}]
    BY DEF IInv, TypeOK, Evict
  <2>3. retryAlarm' \in BOOLEAN
    BY DEF IInv, TypeOK, Evict
  <2> QED
    BY <2>1, <2>2, <2>3, DeliveryAssumption DEF IInv, TypeOK, Evict
<1>2. WorkersInv'
  BY DEF WorkersInv, Evict, IdleWorker, Finalizing
<1>3. TakenInv'
  BY DEF Evict, TakenInv, IdleWorker
<1>4. DeliveredWasReceived'
  BY DEF IInv, Evict, DeliveredWasReceived
<1>5. StoredInv'
  BY DEF Evict, StoredInv
<1>6. TriesInv'
  BY DEF Evict, TriesInv, IdleWorker
<1>7. AnsweredWasTried'
  BY DEF IInv, Evict, AnsweredWasTried
<1>8. ArmedInv'
  BY DEF IInv, Evict, ArmedInv
<1> QED
  BY <1>1, <1>2, <1>3, <1>4, <1>5, <1>6, <1>7, <1>8 DEF IInv

-----------------------------------------------------------------------------
(* The theorems *)

LEMMA InitHolds == Init => IInv
<1> SUFFICES ASSUME Init PROVE IInv
  OBVIOUS
<1>1. TypeOK
  <2>1. IdleWorker \in WorkerState
    BY DEF IdleWorker, WorkerState
  <2>2. faults \in 0..MaxFaults
    BY DeliveryAssumption DEF Init
  <2> QED
    BY <2>1, <2>2 DEF Init, TypeOK, DeliveryStatus
<1>2. \A w \in Worker : workers[w] = IdleWorker
  BY DEF Init
<1>3. WorkersInv /\ TakenInv /\ TriesInv
  BY <1>2 DEF WorkersInv, TakenInv, TriesInv, IdleWorker, Finalizing
<1>4. DeliveredWasReceived /\ StoredInv /\ AnsweredWasTried /\ ArmedInv
  BY DEF Init, DeliveredWasReceived, StoredInv, AnsweredWasTried, ArmedInv
<1> QED
  BY <1>1, <1>3, <1>4 DEF IInv

LEMMA NextKeeps == IInv /\ [Next]_vars => IInv'
<1> SUFFICES ASSUME IInv, [Next]_vars PROVE IInv'
  OBVIOUS
<1>1. CASE Next
  BY <1>1, RevokeStep, FireExpiryStep, FireRetryStep, OtherStep, VisitStep, SendStep, TakeStep,
     DeliverStep, RejectStep, PersistStep, FinishStep, TimePassesStep, EvictStep DEF Next, Proceed
<1>2. CASE UNCHANGED vars
  BY <1>2 DEF vars, IInv, TypeOK, WorkersInv, TakenInv, Handed, DeliveredWasReceived, StoredInv,
     TriesInv, AnsweredWasTried, ArmedInv
<1> QED
  BY <1>1, <1>2

LEMMA Invariance == Spec => []IInv
BY InitHolds, NextKeeps, PTL DEF Spec

\* Every reachable state of the handoff is well typed.
THEOREM TypeCorrect == Spec => []TypeOK
BY Invariance, PTL DEF IInv

\* The evidence claims a handoff only when the relay took it in, whichever of the workers
\* side by side recorded its answer last and whatever an eviction undid.
THEOREM DeliveredMeansReceived == Spec => []DeliveredWasReceived
BY Invariance, PTL DEF IInv

\* An answered finalization has tried every target, and its results are stored.
THEOREM AnswerMeansTried == Spec => []AnsweredWasTried
BY Invariance, PTL DEF IInv

\* What the relay lacks has somebody or some alarm to bring it there, after any number of
\* evictions at any point: ArmedInv holds for the grants whose callback is over, and the
\* callback itself covers the others.
THEOREM RetryAlwaysArmed == Spec => []RetryIsArmed
<1>1. IInv => RetryIsArmed
  <2> SUFFICES ASSUME IInv, NEW d \in Delivery, d \notin received, expiry[d[1]] = "done", ~retryAlarm
               PROVE  \E w \in Worker : workers[w].at # "idle"
    BY DEF RetryIsArmed
  <2>1. PICK g \in Grant, t \in Target : d = <<g, t>>
    BY DEF Delivery
  <2>2. PICK w \in Worker : workers[w].op = "retry"
    BY <2>1 DEF IInv, ArmedInv
  <2> QED
    BY <2>2 DEF IInv, WorkersInv
<1> QED
  BY <1>1, Invariance, PTL
=============================================================================
