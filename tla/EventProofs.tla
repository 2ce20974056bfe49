---------------------------- MODULE EventProofs ----------------------------
(***************************************************************************)
(* Proofs about EventDelivery, for any number of tokens, subscribers,      *)
(* requests, runs and faults, any batch size and any number of attempts.   *)
(***************************************************************************)
EXTENDS EventDelivery, TLAPS

-----------------------------------------------------------------------------
(* The inductive invariant *)

\* A request in flight revokes a token.
RequestsInv == \A q \in Request : requests[q].at # "idle" => requests[q].token \in Token

\* A row never counts more attempts than there were sends, and one that waits has some left.
RowsInv ==
  \A x \in Delivery :
    /\ rows[x].attempts <= sends[x]
    /\ rows[x].status = "pending" => rows[x].attempts < MaxAttempts

\* Neither does the copy a run read. The delivery at hand was sent once more than the copy
\* says, and is confirmed when its answer was good.
RunsInv ==
  \A d \in Run :
    /\ \A x \in Delivery : runs[d].copy[x] <= sends[x]
    /\ \A x \in runs[d].batch : runs[d].copy[x] < MaxAttempts
    /\ runs[d].at = "saving" =>
         /\ runs[d].hand \in Delivery
         /\ runs[d].copy[runs[d].hand] < MaxAttempts
         /\ runs[d].copy[runs[d].hand] < sends[runs[d].hand]
         /\ runs[d].ok => runs[d].hand \in confirmed

IInv == /\ TypeOK
        /\ RequestsInv
        /\ RowsInv
        /\ RunsInv
        /\ OutcomeIsTrue

LEMMA IdleRunIsRun == IdleRun \in RunState
BY EventAssumption DEF IdleRun, RunState

LEMMA IdleRequestIsRequest == IdleRequest \in RequestState
BY DEF IdleRequest, RequestState

\* What the invariant says of one row and one run, without the function spaces.
LEMMA RowFields ==
  ASSUME TypeOK, NEW x \in Delivery
  PROVE  rows[x].status \in DeliveryStatus /\ rows[x].attempts \in 0..MaxAttempts
BY DEF TypeOK, Row

LEMMA RunFields ==
  ASSUME TypeOK, NEW d \in Run
  PROVE  /\ runs[d] \in RunState
         /\ runs[d].batch \subseteq Delivery
         /\ runs[d].copy \in [Delivery -> 0..MaxAttempts]
BY DEF TypeOK, RunState

-----------------------------------------------------------------------------
(* Each action keeps it *)

LEMMA SubscribeStep ==
  ASSUME IInv, NEW s \in Subscriber, Subscribe(s)
  PROVE  IInv'
<1>1. TypeOK'
  BY DEF IInv, Subscribe, database, history, sent, TypeOK
<1>2. RequestsInv'
  BY DEF IInv, Subscribe, database, history, sent, RequestsInv, TypeOK
<1>3. RowsInv'
  BY DEF IInv, Subscribe, database, history, sent, RowsInv, TypeOK
<1>4. RunsInv'
  BY DEF IInv, Subscribe, database, history, sent, RunsInv, TypeOK
<1>5. OutcomeIsTrue'
  BY DEF IInv, Subscribe, database, history, sent, OutcomeIsTrue, TypeOK
<1> QED
  BY <1>1, <1>2, <1>3, <1>4, <1>5 DEF IInv

LEMMA RevokeTokenStep ==
  ASSUME IInv, NEW q \in Request, NEW t \in Token, RevokeToken(q, t)
  PROVE  IInv'
<1>1. TypeOK'
  <2>1. [IdleRequest EXCEPT !.at = IF t \in revoked THEN "answered" ELSE "revoked",
                            !.token = t] \in RequestState
    BY DEF IInv, TypeOK, RequestState, IdleRequest
  <2> QED
    BY <2>1 DEF IInv, TypeOK, RevokeToken, database, history, sent
<1>2. RequestsInv'
  BY DEF IInv, TypeOK, RequestsInv, RevokeToken, IdleRequest
<1>3. RowsInv'
  BY DEF IInv, RevokeToken, database, history, sent, RowsInv, TypeOK
<1>4. RunsInv'
  BY DEF IInv, RevokeToken, database, history, sent, RunsInv, TypeOK
<1>5. OutcomeIsTrue'
  BY DEF IInv, RevokeToken, database, history, sent, OutcomeIsTrue, TypeOK
<1> QED
  BY <1>1, <1>2, <1>3, <1>4, <1>5 DEF IInv

LEMMA CreateEventStep ==
  ASSUME IInv, NEW q \in Request, CreateEvent(q)
  PROVE  IInv'
<1>1. TypeOK'
  <2>1. [requests[q] EXCEPT !.at = "recorded"] \in RequestState
    BY DEF IInv, TypeOK, RequestState
  <2> QED
    BY <2>1 DEF IInv, TypeOK, CreateEvent, RequestsInv, database, history, sent
<1>2. RequestsInv'
  BY DEF IInv, CreateEvent, database, history, sent, RequestsInv, TypeOK
<1>3. RowsInv'
  BY DEF IInv, CreateEvent, database, history, sent, RowsInv, TypeOK
<1>4. RunsInv'
  BY DEF IInv, CreateEvent, database, history, sent, RunsInv, TypeOK
<1>5. OutcomeIsTrue'
  BY DEF IInv, CreateEvent, database, history, sent, OutcomeIsTrue, TypeOK
<1> QED
  BY <1>1, <1>2, <1>3, <1>4, <1>5 DEF IInv

LEMMA ListSubscribersStep ==
  ASSUME IInv, NEW q \in Request, ListSubscribers(q)
  PROVE  IInv'
<1>1. TypeOK'
  <2>1. [requests[q] EXCEPT !.at = "queueing", !.todo = subscribers] \in RequestState
    BY DEF IInv, TypeOK, RequestState
  <2> QED
    BY <2>1 DEF IInv, TypeOK, ListSubscribers, database, history, sent
<1>2. RequestsInv'
  BY DEF IInv, ListSubscribers, database, history, sent, RequestsInv, TypeOK
<1>3. RowsInv'
  BY DEF IInv, ListSubscribers, database, history, sent, RowsInv, TypeOK
<1>4. RunsInv'
  BY DEF IInv, ListSubscribers, database, history, sent, RunsInv, TypeOK
<1>5. OutcomeIsTrue'
  BY DEF IInv, ListSubscribers, database, history, sent, OutcomeIsTrue, TypeOK
<1> QED
  BY <1>1, <1>2, <1>3, <1>4, <1>5 DEF IInv

LEMMA CreateDeliveryStep ==
  ASSUME IInv, NEW q \in Request, NEW s \in Subscriber, CreateDelivery(q, s)
  PROVE  IInv'
<1>1. TypeOK'
  <2>1. [requests[q] EXCEPT !.todo = @ \ {s}] \in RequestState
    BY DEF IInv, TypeOK, RequestState
  <2>2. <<requests[q].token, s>> \in Delivery
    BY DEF IInv, RequestsInv, CreateDelivery, Delivery
  <2>3. [status |-> "pending", attempts |-> 0] \in Row
    BY EventAssumption DEF Row, DeliveryStatus
  <2> QED
    BY <2>1, <2>2, <2>3 DEF IInv, TypeOK, CreateDelivery, history, sent
<1>2. RequestsInv'
  BY DEF IInv, TypeOK, RequestsInv, CreateDelivery
<1>3. RowsInv'
  BY EventAssumption DEF IInv, TypeOK, RowsInv, CreateDelivery, history, sent
<1>4. RunsInv'
  BY DEF IInv, CreateDelivery, database, history, sent, RunsInv, TypeOK
<1>5. OutcomeIsTrue'
  BY DEF IInv, TypeOK, OutcomeIsTrue, CreateDelivery, history, sent
<1> QED
  BY <1>1, <1>2, <1>3, <1>4, <1>5 DEF IInv

LEMMA AnswerRevokeStep ==
  ASSUME IInv, NEW q \in Request, AnswerRevoke(q)
  PROVE  IInv'
<1>1. TypeOK'
  <2>1. [requests[q] EXCEPT !.at = "answered"] \in RequestState
    BY DEF IInv, TypeOK, RequestState
  <2> QED
    BY <2>1 DEF IInv, TypeOK, AnswerRevoke, database, history, sent
<1>2. RequestsInv'
  BY DEF IInv, AnswerRevoke, database, history, sent, RequestsInv, TypeOK
<1>3. RowsInv'
  BY DEF IInv, AnswerRevoke, database, history, sent, RowsInv, TypeOK
<1>4. RunsInv'
  BY DEF IInv, AnswerRevoke, database, history, sent, RunsInv, TypeOK
<1>5. OutcomeIsTrue'
  BY DEF IInv, AnswerRevoke, database, history, sent, OutcomeIsTrue, TypeOK
<1> QED
  BY <1>1, <1>2, <1>3, <1>4, <1>5 DEF IInv

LEMMA ScheduleStep ==
  ASSUME IInv, NEW q \in Request, NEW d \in Run, Schedule(q, d)
  PROVE  IInv'
<1>1. TypeOK'
  <2>1. [IdleRun EXCEPT !.at = "listing", !.onAlarm = FALSE] \in RunState
    BY IdleRunIsRun DEF RunState
  <2> QED
    BY <2>1, IdleRequestIsRequest DEF IInv, TypeOK, Schedule, Begin, database, history, sent
<1>2. RequestsInv'
  BY DEF IInv, TypeOK, RequestsInv, Schedule, IdleRequest
<1>3. RowsInv'
  BY DEF IInv, Schedule, Begin, database, history, sent, RowsInv, TypeOK
<1>4. RunsInv'
  <2>1. \A x \in Delivery : 0 <= sends[x]
    BY DEF IInv, TypeOK
  <2> QED
    BY <2>1 DEF IInv, TypeOK, RunsInv, Schedule, Begin, IdleRun, history, sent
<1>5. OutcomeIsTrue'
  BY DEF IInv, Schedule, Begin, database, history, sent, OutcomeIsTrue, TypeOK
<1> QED
  BY <1>1, <1>2, <1>3, <1>4, <1>5 DEF IInv

LEMMA FireAlarmStep ==
  ASSUME IInv, NEW d \in Run, FireAlarm(d)
  PROVE  IInv'
<1>1. TypeOK'
  <2>1. [IdleRun EXCEPT !.at = "listing", !.onAlarm = TRUE] \in RunState
    BY IdleRunIsRun DEF RunState
  <2> QED
    BY <2>1 DEF IInv, TypeOK, FireAlarm, Begin, database, history, sent
<1>2. RequestsInv'
  BY DEF IInv, FireAlarm, Begin, database, history, sent, RequestsInv, TypeOK
<1>3. RowsInv'
  BY DEF IInv, FireAlarm, Begin, database, history, sent, RowsInv, TypeOK
<1>4. RunsInv'
  <2>1. \A x \in Delivery : 0 <= sends[x]
    BY DEF IInv, TypeOK
  <2> QED
    BY <2>1 DEF IInv, TypeOK, RunsInv, FireAlarm, Begin, IdleRun, history, sent
<1>5. OutcomeIsTrue'
  BY DEF IInv, FireAlarm, Begin, database, history, sent, OutcomeIsTrue, TypeOK
<1> QED
  BY <1>1, <1>2, <1>3, <1>4, <1>5 DEF IInv

LEMMA TimePassesStep ==
  ASSUME IInv, NEW x \in Delivery, TimePasses(x)
  PROVE  IInv'
<1>1. TypeOK'
  BY DEF IInv, TimePasses, database, history, sent, TypeOK
<1>2. RequestsInv'
  BY DEF IInv, TimePasses, database, history, sent, RequestsInv, TypeOK
<1>3. RowsInv'
  BY DEF IInv, TimePasses, database, history, sent, RowsInv, TypeOK
<1>4. RunsInv'
  BY DEF IInv, TimePasses, database, history, sent, RunsInv, TypeOK
<1>5. OutcomeIsTrue'
  BY DEF IInv, TimePasses, database, history, sent, OutcomeIsTrue, TypeOK
<1> QED
  BY <1>1, <1>2, <1>3, <1>4, <1>5 DEF IInv

\* A run reads waiting rows only: it copies less attempts than there were sends.
LEMMA ListDueStep ==
  ASSUME IInv, NEW d \in Run, ListDue(d)
  PROVE  IInv'
<1>1. PICK batch \in SUBSET DueNow :
        runs' = [runs EXCEPT ![d] = [@ EXCEPT
          !.at = "sending", !.batch = batch,
          !.copy = [x \in Delivery |-> IF x \in batch THEN rows[x].attempts ELSE 0]]]
  BY DEF ListDue
<1> DEFINE copy == [x \in Delivery |-> IF x \in batch THEN rows[x].attempts ELSE 0]
<1>2. copy \in [Delivery -> 0..MaxAttempts]
  BY RowFields, EventAssumption DEF IInv
<1>3. \A x \in Delivery : copy[x] <= sends[x] /\ (x \in batch => copy[x] < MaxAttempts)
  <2> SUFFICES ASSUME NEW x \in Delivery
               PROVE  copy[x] <= sends[x] /\ (x \in batch => copy[x] < MaxAttempts)
    OBVIOUS
  <2>1. sends[x] \in Nat /\ rows[x].attempts <= sends[x]
    BY DEF IInv, TypeOK, RowsInv
  <2>2. x \in batch => rows[x].attempts < MaxAttempts
    BY DEF DueNow, IInv, RowsInv
  <2> QED
    BY <2>1, <2>2
<1>4. batch \subseteq Delivery
  BY DEF DueNow, IInv, TypeOK
<1>5. UNCHANGED <<database, requests, alarm, faults, history>>
  BY DEF ListDue
<1> HIDE DEF copy
<1>6. runs' = [runs EXCEPT ![d] = [runs[d] EXCEPT !.at = "sending", !.batch = batch, !.copy = copy]]
  BY <1>1 DEF copy, IInv, TypeOK
<1>7. /\ [runs[d] EXCEPT !.at = "sending", !.batch = batch, !.copy = copy] \in RunState
      /\ [runs[d] EXCEPT !.at = "sending", !.batch = batch, !.copy = copy].at = "sending"
      /\ [runs[d] EXCEPT !.at = "sending", !.batch = batch, !.copy = copy].batch = batch
      /\ [runs[d] EXCEPT !.at = "sending", !.batch = batch, !.copy = copy].copy = copy
  BY <1>2, <1>4, RunFields DEF IInv, RunState
<1>8. TypeOK'
  BY <1>5, <1>6, <1>7 DEF IInv, TypeOK, database, history, sent
<1>9. RunsInv'
  BY <1>3, <1>4, <1>5, <1>6, <1>7 DEF IInv, TypeOK, RunsInv, history, sent
<1>10. RequestsInv' /\ RowsInv' /\ OutcomeIsTrue'
  BY <1>5 DEF IInv, RequestsInv, RowsInv, OutcomeIsTrue, database, history, sent
<1> QED
  BY <1>8, <1>9, <1>10 DEF IInv

\* The count of sends goes up before the attempt is written.
LEMMA SendStep ==
  ASSUME IInv, NEW d \in Run, NEW x \in Delivery, NEW ok \in BOOLEAN,
         Send(d, x, ok)
  PROVE  IInv'
<1> DEFINE run == [runs[d] EXCEPT !.at = "saving", !.hand = x, !.ok = ok,
                             !.batch = runs[d].batch \ {x}]
<1>1. /\ run \in RunState /\ run.at = "saving" /\ run.hand = x /\ run.ok = ok
      /\ run.batch = runs[d].batch \ {x} /\ run.copy = runs[d].copy
  BY RunFields DEF IInv, RunState
<1>2. runs' = [runs EXCEPT ![d] = run]
  BY DEF Send, IInv, TypeOK
<1>3. /\ confirmed' = IF ok THEN confirmed \union {x} ELSE confirmed
      /\ sends' = [sends EXCEPT ![x] = IF @ < MaxAttempts THEN @ + 1 ELSE @]
      /\ UNCHANGED <<database, requests, alarm, faults, outdated, crossed, abandoned>>
  BY DEF Send
<1>4. /\ x \in runs[d].batch
      /\ runs[d].copy[x] \in 0..MaxAttempts /\ runs[d].copy[x] < MaxAttempts
      /\ runs[d].copy[x] <= sends[x]
  BY RunFields DEF Send, IInv, RunsInv
<1> HIDE DEF run
<1>5. /\ sends' \in [Delivery -> 0..MaxAttempts]
      /\ \A y \in Delivery : sends[y] <= sends'[y]
      /\ runs[d].copy[x] < sends'[x]
  BY <1>3, <1>4, EventAssumption DEF IInv, TypeOK
<1>6. TypeOK'
  BY <1>1, <1>2, <1>3, <1>5 DEF IInv, TypeOK, database
<1>7. RunsInv'
  <2> SUFFICES ASSUME NEW e \in Run
               PROVE  /\ \A y \in Delivery : runs'[e].copy[y] <= sends'[y]
                      /\ \A y \in runs'[e].batch : runs'[e].copy[y] < MaxAttempts
                      /\ runs'[e].at = "saving" =>
                           /\ runs'[e].hand \in Delivery
                           /\ runs'[e].copy[runs'[e].hand] < MaxAttempts
                           /\ runs'[e].copy[runs'[e].hand] < sends'[runs'[e].hand]
                           /\ runs'[e].ok => runs'[e].hand \in confirmed'
    BY DEF RunsInv
  <2>1. /\ runs'[e].copy = runs[e].copy /\ runs[e].copy \in [Delivery -> 0..MaxAttempts]
        /\ runs'[e].batch \subseteq runs[e].batch
    BY <1>1, <1>2, RunFields DEF IInv, TypeOK
  <2>2. \A y \in Delivery : runs'[e].copy[y] <= sends'[y]
    BY <2>1, <1>5 DEF IInv, TypeOK, RunsInv
  <2>3. \A y \in runs'[e].batch : runs'[e].copy[y] < MaxAttempts
    BY <2>1 DEF IInv, RunsInv
  <2>4. CASE e = d
    BY <2>2, <2>3, <2>4, <1>1, <1>2, <1>3, <1>4, <1>5 DEF IInv, TypeOK
  <2>5. CASE e # d
    <3>1. runs'[e] = runs[e]
      BY <2>5, <1>2 DEF IInv, TypeOK
    <3>2. runs[e].at = "saving" =>
            runs[e].hand \in Delivery /\ runs[e].copy[runs[e].hand] < sends'[runs[e].hand]
      BY <1>5, <2>1 DEF IInv, TypeOK, RunsInv
    <3> QED
      BY <2>2, <2>3, <3>1, <3>2, <1>3 DEF IInv, RunsInv
  <2> QED
    BY <2>4, <2>5
<1>8. RequestsInv'
  BY <1>3 DEF IInv, RequestsInv
<1>9. RowsInv' /\ OutcomeIsTrue'
  <2> SUFFICES ASSUME NEW y \in Delivery
               PROVE  /\ rows[y].attempts <= sends'[y]
                      /\ rows[y].status = "pending" => rows[y].attempts < MaxAttempts
                      /\ rows[y].status = "delivered" => y \in confirmed'
                      /\ rows[y].status = "failed" => sends'[y] = MaxAttempts
    BY <1>3 DEF RowsInv, OutcomeIsTrue, database
  <2>1. /\ sends[y] \in 0..MaxAttempts /\ sends'[y] \in 0..MaxAttempts /\ sends[y] <= sends'[y]
        /\ rows[y].attempts \in 0..MaxAttempts
    BY <1>5, RowFields DEF IInv, TypeOK
  <2>2. /\ rows[y].attempts <= sends[y]
        /\ rows[y].status = "pending" => rows[y].attempts < MaxAttempts
        /\ rows[y].status = "delivered" => y \in confirmed
        /\ rows[y].status = "failed" => sends[y] = MaxAttempts
    BY DEF IInv, RowsInv, OutcomeIsTrue
  <2> QED
    BY <1>3, <2>1, <2>2, EventAssumption
<1> QED
  BY <1>6, <1>7, <1>8, <1>9 DEF IInv

\* The row that is written counts one attempt more than the copy: no more than were sent.
LEMMA SaveDeliveryStep ==
  ASSUME IInv, NEW d \in Run, SaveDelivery(d)
  PROVE  IInv'
<1> DEFINE x == runs[d].hand
           attempts == runs[d].copy[x] + 1
           status == StatusAfter(runs[d].ok, attempts)
           row == [status |-> status, attempts |-> attempts]
           copy == [runs[d].copy EXCEPT ![x] = 0]
           run == [runs[d] EXCEPT !.at = "sending", !.hand = None, !.ok = FALSE, !.copy = copy]
<1>1. /\ x \in Delivery
      /\ runs[d].copy[x] \in 0..MaxAttempts /\ runs[d].copy[x] < MaxAttempts
      /\ runs[d].copy[x] < sends[x] /\ sends[x] \in 0..MaxAttempts
      /\ runs[d].ok => x \in confirmed
  BY RunFields DEF SaveDelivery, IInv, TypeOK, RunsInv
<1>2. attempts \in 0..MaxAttempts /\ attempts <= sends[x]
  BY <1>1, EventAssumption
<1>3. /\ status \in {"pending", "delivered", "failed"}
      /\ status = "delivered" => x \in confirmed
      /\ status = "pending" => attempts < MaxAttempts
      /\ status = "failed" => sends[x] = MaxAttempts
  BY <1>1, <1>2, EventAssumption DEF StatusAfter, GivesUp
<1>4. /\ run \in RunState /\ run.at = "sending"
      /\ run.batch = runs[d].batch /\ run.copy = copy
  <2>1. copy \in [Delivery -> 0..MaxAttempts]
    <3>1. runs[d].copy \in [Delivery -> 0..MaxAttempts] /\ 0 \in 0..MaxAttempts
      BY EventAssumption, RunFields DEF IInv
    <3> QED
      BY <3>1
  <2>2. runs[d] \in RunState
    BY RunFields DEF IInv
  <2> HIDE DEF copy
  <2>3. run \in RunState
    BY <2>1, <2>2 DEF RunState
  <2>4. run.at = "sending" /\ run.batch = runs[d].batch /\ run.copy = copy
    BY <2>2 DEF RunState
  <2> QED
    BY <2>3, <2>4
<1>5. /\ rows' = [rows EXCEPT ![x] = row]
      /\ due' = IF status = "pending" THEN due \ {x} ELSE due
      /\ runs' = [runs EXCEPT ![d] = run]
      /\ UNCHANGED <<revoked, events, subscribers, requests, alarm, faults, history>>
  BY DEF SaveDelivery, IInv, TypeOK
<1>6. row \in Row /\ row.status = status /\ row.attempts = attempts
  BY <1>2, <1>3 DEF Row, DeliveryStatus
<1>7. /\ \A y \in Delivery : copy[y] <= sends[y]
      /\ \A y \in runs[d].batch : copy[y] < MaxAttempts
  <2>1. \A y \in Delivery : copy[y] = IF y = x THEN 0 ELSE runs[d].copy[y]
    BY RunFields DEF IInv
  <2>2. \A y \in Delivery : runs[d].copy[y] <= sends[y] /\ 0 <= sends[y]
    BY DEF IInv, TypeOK, RunsInv
  <2>3. \A y \in runs[d].batch : y \in Delivery /\ runs[d].copy[y] < MaxAttempts
    BY RunFields DEF IInv, RunsInv
  <2> HIDE DEF x, copy
  <2> QED
    BY <2>1, <2>2, <2>3, EventAssumption
<1> HIDE DEF x, attempts, status, row, run, copy
<1>8. TypeOK'
  BY <1>1, <1>4, <1>5, <1>6 DEF IInv, TypeOK, history, sent
<1>9. RequestsInv'
  BY <1>5 DEF IInv, RequestsInv
<1>10. RowsInv' /\ OutcomeIsTrue'
  <2> SUFFICES ASSUME NEW y \in Delivery
               PROVE  /\ rows'[y].attempts <= sends[y]
                      /\ rows'[y].status = "pending" => rows'[y].attempts < MaxAttempts
                      /\ rows'[y].status = "delivered" => y \in confirmed
                      /\ rows'[y].status = "failed" => sends[y] = MaxAttempts
    BY <1>5 DEF RowsInv, OutcomeIsTrue, history, sent
  <2>1. CASE y = x
    BY <2>1, <1>1, <1>2, <1>3, <1>5, <1>6 DEF IInv, TypeOK
  <2>2. CASE y # x
    BY <2>2, <1>5 DEF IInv, TypeOK, RowsInv, OutcomeIsTrue
  <2> QED
    BY <2>1, <2>2
<1>11. RunsInv'
  BY <1>4, <1>5, <1>7 DEF IInv, TypeOK, RunsInv, history, sent
<1> QED
  BY <1>8, <1>9, <1>10, <1>11 DEF IInv

LEMMA NextPendingStep ==
  ASSUME IInv, NEW d \in Run, NextPending(d)
  PROVE  IInv'
<1>1. TypeOK'
  <2>1. PendingLeft \in BOOLEAN
    BY DEF PendingLeft
  <2>2. [runs[d] EXCEPT !.at = "arming", !.next = PendingLeft] \in RunState
    BY <2>1, RunFields DEF IInv, RunState
  <2> QED
    BY <2>2 DEF IInv, TypeOK, NextPending, database, history, sent
<1>2. RequestsInv'
  BY DEF IInv, NextPending, database, history, sent, RequestsInv, TypeOK
<1>3. RowsInv'
  BY DEF IInv, NextPending, database, history, sent, RowsInv, TypeOK
<1>4. RunsInv'
  BY RunFields DEF IInv, TypeOK, RunsInv, NextPending, RunState, history, sent
<1>5. OutcomeIsTrue'
  BY DEF IInv, NextPending, database, history, sent, OutcomeIsTrue, TypeOK
<1> QED
  BY <1>1, <1>2, <1>3, <1>4, <1>5 DEF IInv

LEMMA ArmStep ==
  ASSUME IInv, NEW d \in Run, Arm(d)
  PROVE  IInv'
<1>1. TypeOK'
  <2>1. runs[d].next \in BOOLEAN
    BY RunFields DEF IInv, RunState
  <2>2. outdated' \subseteq Run /\ crossed' \in BOOLEAN
    BY DEF IInv, TypeOK, Arm, Arming
  <2> QED
    BY <2>1, <2>2, IdleRunIsRun DEF IInv, TypeOK, Arm, database, sent
<1>2. RequestsInv'
  BY DEF IInv, Arm, database, history, sent, RequestsInv, TypeOK
<1>3. RowsInv'
  BY DEF IInv, Arm, database, history, sent, RowsInv, TypeOK
<1>4. RunsInv'
  <2>1. \A x \in Delivery : 0 <= sends[x]
    BY DEF IInv, TypeOK
  <2> QED
    BY <2>1 DEF IInv, TypeOK, RunsInv, Arm, IdleRun, history, sent
<1>5. OutcomeIsTrue'
  BY DEF IInv, Arm, database, history, sent, OutcomeIsTrue, TypeOK
<1> QED
  BY <1>1, <1>2, <1>3, <1>4, <1>5 DEF IInv

LEMMA RequestDiesStep ==
  ASSUME IInv, NEW q \in Request, RequestDies(q)
  PROVE  IInv'
<1>1. TypeOK'
  BY EventAssumption, IdleRequestIsRequest DEF IInv, TypeOK, RequestDies, database, history, sent
<1>2. RequestsInv'
  BY DEF IInv, TypeOK, RequestsInv, RequestDies, IdleRequest
<1>3. RowsInv'
  BY DEF IInv, RequestDies, database, history, sent, RowsInv, TypeOK
<1>4. RunsInv'
  BY DEF IInv, RequestDies, database, history, sent, RunsInv, TypeOK
<1>5. OutcomeIsTrue'
  BY DEF IInv, RequestDies, database, history, sent, OutcomeIsTrue, TypeOK
<1> QED
  BY <1>1, <1>2, <1>3, <1>4, <1>5 DEF IInv

LEMMA RunDiesStep ==
  ASSUME IInv, NEW d \in Run, RunDies(d)
  PROVE  IInv'
<1>1. TypeOK'
  <2>1. alarm' \in BOOLEAN /\ abandoned' \in BOOLEAN /\ outdated' \subseteq Run
    BY RunFields DEF IInv, TypeOK, RunDies, Arming, RunState
  <2>2. faults' \in 0..MaxFaults
    BY EventAssumption DEF IInv, TypeOK, RunDies
  <2> QED
    BY <2>1, <2>2, IdleRunIsRun DEF IInv, TypeOK, RunDies, database, sent
<1>2. RequestsInv'
  BY DEF IInv, RunDies, database, history, sent, RequestsInv, TypeOK
<1>3. RowsInv'
  BY DEF IInv, RunDies, database, history, sent, RowsInv, TypeOK
<1>4. RunsInv'
  <2>1. \A x \in Delivery : 0 <= sends[x]
    BY DEF IInv, TypeOK
  <2> QED
    BY <2>1 DEF IInv, TypeOK, RunsInv, RunDies, IdleRun, history, sent
<1>5. OutcomeIsTrue'
  BY DEF IInv, RunDies, database, history, sent, OutcomeIsTrue, TypeOK
<1> QED
  BY <1>1, <1>2, <1>3, <1>4, <1>5 DEF IInv

-----------------------------------------------------------------------------
(* The theorems *)

LEMMA InitHolds == Init => IInv
<1> SUFFICES ASSUME Init PROVE IInv
  OBVIOUS
<1>1. NoRow \in Row /\ NoRow.status = "none" /\ NoRow.attempts = 0
  BY EventAssumption DEF NoRow, Row, DeliveryStatus
<1>2. TypeOK
  <2>1. 0 \in 0..MaxAttempts /\ 0 \in 0..MaxFaults
    BY EventAssumption
  <2> QED
    BY <1>1, <2>1, IdleRunIsRun, IdleRequestIsRequest DEF Init, TypeOK
<1>3. RequestsInv
  BY DEF Init, RequestsInv, IdleRequest
<1>4. RowsInv /\ OutcomeIsTrue
  BY <1>1 DEF Init, RowsInv, OutcomeIsTrue
<1>5. RunsInv
  BY DEF Init, RunsInv, IdleRun
<1> QED
  BY <1>2, <1>3, <1>4, <1>5 DEF IInv

LEMMA NextKeeps == IInv /\ [Next]_vars => IInv'
<1> SUFFICES ASSUME IInv, [Next]_vars PROVE IInv'
  OBVIOUS
<1>1. CASE Next
  BY <1>1, SubscribeStep, RevokeTokenStep, CreateEventStep, ListSubscribersStep,
     CreateDeliveryStep, AnswerRevokeStep, ScheduleStep, FireAlarmStep, TimePassesStep,
     ListDueStep, SendStep, SaveDeliveryStep, NextPendingStep, ArmStep, RequestDiesStep,
     RunDiesStep DEF Next, Revoke, Proceed
<1>2. CASE UNCHANGED vars
  BY <1>2 DEF vars, database, history, sent, IInv, TypeOK, RequestsInv, RowsInv, RunsInv,
     OutcomeIsTrue
<1> QED
  BY <1>1, <1>2

LEMMA Invariance == Spec => []IInv
BY InitHolds, NextKeeps, PTL DEF Spec

\* Every reachable state of the event delivery is well typed; no row ever counts more than
\* MaxAttempts attempts, although runs write back copies.
THEOREM TypeCorrect == Spec => []TypeOK
BY Invariance, PTL DEF IInv

\* A row says that its delivery ended only when the subscriber confirmed it, or when it was
\* sent MaxAttempts times, whichever of any number of overlapping or dying runs wrote it last.
THEOREM OutcomesAreTrue == Spec => []OutcomeIsTrue
BY Invariance, PTL DEF IInv

-----------------------------------------------------------------------------
(* A delivery that waits is scheduled *)

\* The run will leave an alarm when a delivery waits.
Working(d) ==
  \/ runs[d].at \in {"listing", "sending", "saving"}
  \/ runs[d].at = "arming" /\ runs[d].next

Attended ==
  \/ \E d \in Run : Working(d)
  \/ \E q \in Request : requests[q].at \in Queueing

\* A run that will delete the alarm by an answer that is not outdated: no delivery waited when
\* it got that answer.
Deleting(d) == runs[d].at = "arming" /\ ~runs[d].next /\ d \notin outdated

\* That the alarm is set is not enough for a delivery that waits while some run will delete
\* the alarm: somebody else is on the way then.
ScheduleInv ==
  \/ crossed
  \/ abandoned
  \/ PendingLeft =>
       /\ alarm \/ Attended
       /\ \A d \in Run : Deleting(d) => Attended

LEMMA AttendedIsEnough == Attended => ScheduleInv
BY DEF ScheduleInv

LEMMA WorkingAttends ==
  ASSUME NEW d \in Run, runs'[d].at \in {"listing", "sending", "saving"}
  PROVE  ScheduleInv'
BY DEF ScheduleInv, Attended, Working

LEMMA QueueingAttends ==
  ASSUME NEW q \in Request, requests'[q].at \in Queueing
  PROVE  ScheduleInv'
BY DEF ScheduleInv, Attended

\* A step that disturbs neither the rows nor the alarm, and takes nobody away.
LEMMA QuietStep ==
  ASSUME ScheduleInv, UNCHANGED <<rows, runs, alarm, outdated, crossed, abandoned>>,
         \A q \in Request : requests[q].at \in Queueing => requests'[q].at \in Queueing
  PROVE  ScheduleInv'
<1>1. Attended => Attended'
  BY DEF Attended, Working
<1>2. PendingLeft' = PendingLeft
  BY DEF PendingLeft
<1>3. \A d \in Run : Deleting(d)' = Deleting(d)
  BY DEF Deleting
<1> QED
  BY <1>1, <1>2, <1>3 DEF ScheduleInv

LEMMA RequestKeepsSchedule ==
  ASSUME IInv, ScheduleInv, NEW q \in Request,
         \/ \E t \in Token : RevokeToken(q, t)
         \/ Revoke(q)
  PROVE  ScheduleInv'
<1>1. requests[q] \in RequestState /\ requests \in [Request -> RequestState]
  BY DEF IInv, TypeOK
<1>2. ASSUME NEW t \in Token, RevokeToken(q, t) PROVE ScheduleInv'
  BY <1>1, <1>2, QuietStep DEF RevokeToken, Queueing, history
<1>3. CASE CreateEvent(q)
  BY <1>1, <1>3, QuietStep DEF CreateEvent, Queueing, history
<1>4. CASE ListSubscribers(q)
  <2>1. requests'[q] = [requests[q] EXCEPT !.at = "queueing", !.todo = subscribers]
    BY <1>1, <1>4 DEF ListSubscribers
  <2>2. requests'[q].at = "queueing"
    BY <1>1, <2>1 DEF RequestState
  <2> QED
    BY <2>2, QueueingAttends DEF Queueing
<1>5. ASSUME NEW s \in Subscriber, CreateDelivery(q, s) PROVE ScheduleInv'
  <2>1. requests'[q].at = "queueing"
    BY <1>1, <1>5 DEF CreateDelivery, RequestState
  <2> QED
    BY <2>1, QueueingAttends DEF Queueing
<1>6. CASE AnswerRevoke(q)
  <2>1. requests'[q].at = "answered"
    BY <1>1, <1>6 DEF AnswerRevoke, RequestState
  <2> QED
    BY <2>1, QueueingAttends DEF Queueing
<1> QED
  BY <1>2, <1>3, <1>4, <1>5, <1>6 DEF Revoke

\* A run that saw a delivery wait will set the alarm; when none waits nothing is promised.
LEMMA NextPendingKeepsSchedule ==
  ASSUME IInv, ScheduleInv, NEW d \in Run, NextPending(d)
  PROVE  ScheduleInv'
<1>1. /\ runs'[d].at = "arming"
      /\ runs'[d].next = PendingLeft
      /\ rows' = rows
  BY RunFields DEF NextPending, IInv, TypeOK, RunState, database
<1>2. PendingLeft' = PendingLeft
  BY <1>1 DEF PendingLeft
<1>3. CASE PendingLeft
  BY <1>1, <1>3, AttendedIsEnough DEF Attended, Working, ScheduleInv
<1>4. CASE ~PendingLeft
  BY <1>2, <1>4 DEF ScheduleInv
<1> QED
  BY <1>3, <1>4

\* Setting the alarm outdates every other answer; deleting it by an answer that is not
\* outdated leaves the attendant it had.
LEMMA ArmKeepsSchedule ==
  ASSUME IInv, ScheduleInv, NEW d \in Run, Arm(d)
  PROVE  ScheduleInv'
<1>1. /\ runs[d].at = "arming"
      /\ runs'[d].at = "idle"
      /\ \A e \in Run : e # d => runs'[e] = runs[e]
      /\ alarm' = runs[d].next
      /\ UNCHANGED <<rows, requests, abandoned>>
  BY DEF Arm, IInv, TypeOK, IdleRun, database
<1>2. PendingLeft' = PendingLeft
  BY <1>1 DEF PendingLeft
<1>3. CASE runs[d].next
  <2>1. outdated' = Arming \ {d} /\ alarm'
    BY <1>1, <1>3 DEF Arm
  <2>2. \A e \in Run : ~Deleting(e)'
    BY <1>1, <2>1 DEF Deleting, Arming
  <2> QED
    BY <2>1, <2>2 DEF ScheduleInv
<1>4. CASE ~runs[d].next /\ d \in outdated
  BY <1>4 DEF Arm, ScheduleInv
<1>5. CASE ~runs[d].next /\ d \notin outdated
  <2>1. outdated' = outdated \ {d} /\ (crossed => crossed')
    BY <1>5 DEF Arm
  <2>2. Deleting(d) /\ ~Working(d)
    BY <1>1, <1>5 DEF Deleting, Working
  <2>3. Attended => Attended'
    BY <1>1, <2>2 DEF Attended, Working
  <2> QED
    BY <1>1, <1>2, <2>1, <2>2, <2>3 DEF ScheduleInv
<1> QED
  BY <1>3, <1>4, <1>5

LEMMA DeathKeepsSchedule ==
  ASSUME IInv, ScheduleInv,
         (\E q \in Request : RequestDies(q)) \/ (\E d \in Run : RunDies(d))
  PROVE  ScheduleInv'
<1>1. ASSUME NEW q \in Request, RequestDies(q) PROVE ScheduleInv'
  <2>1. CASE requests[q].at \in Queueing
    BY <1>1, <2>1 DEF RequestDies, ScheduleInv
  <2>2. CASE requests[q].at \notin Queueing
    BY <1>1, <2>2, QuietStep DEF RequestDies, IInv, TypeOK, database
  <2> QED
    BY <2>1, <2>2
<1>2. ASSUME NEW d \in Run, RunDies(d) PROVE ScheduleInv'
  <2>1. CASE ~runs[d].onAlarm
    BY <1>2, <2>1 DEF RunDies, ScheduleInv
  <2>2. CASE runs[d].onAlarm
    <3>1. outdated' = Arming \ {d} /\ alarm'
      BY <1>2, <2>2 DEF RunDies
    <3>2. runs'[d].at = "idle" /\ \A e \in Run : e # d => runs'[e] = runs[e]
      BY <1>2 DEF RunDies, IInv, TypeOK, IdleRun
    <3>3. \A e \in Run : ~Deleting(e)'
      BY <3>1, <3>2 DEF Deleting, Arming
    <3> QED
      BY <3>1, <3>3 DEF ScheduleInv
  <2> QED
    BY <2>1, <2>2
<1> QED
  BY <1>1, <1>2

LEMMA NextKeepsSchedule == IInv /\ ScheduleInv /\ [Next]_vars => ScheduleInv'
<1> SUFFICES ASSUME IInv, ScheduleInv, [Next]_vars PROVE ScheduleInv'
  OBVIOUS
<1>1. runs \in [Run -> RunState]
  BY DEF IInv, TypeOK
<1>2. ASSUME NEW s \in Subscriber, Subscribe(s) PROVE ScheduleInv'
  BY <1>2, QuietStep DEF Subscribe, history
<1>3. ASSUME NEW x \in Delivery, TimePasses(x) PROVE ScheduleInv'
  BY <1>3, QuietStep DEF TimePasses, history
<1>4. ASSUME NEW d \in Run, (\E q \in Request : Schedule(q, d)) \/ FireAlarm(d)
      PROVE  ScheduleInv'
  <2>1. runs'[d].at = "listing"
    BY <1>1, <1>4 DEF Schedule, FireAlarm, Begin, IdleRun
  <2> QED
    BY <2>1, WorkingAttends
<1>5. ASSUME NEW d \in Run, ListDue(d) PROVE ScheduleInv'
  <2>1. runs'[d].at = "sending"
    BY <1>1, <1>5 DEF ListDue, RunState
  <2> QED
    BY <2>1, WorkingAttends
<1>6. ASSUME NEW d \in Run, NEW x \in Delivery, NEW ok \in BOOLEAN, Send(d, x, ok)
      PROVE  ScheduleInv'
  <2>1. runs'[d].at = "saving"
    BY <1>1, <1>6 DEF Send, RunState
  <2> QED
    BY <2>1, WorkingAttends
<1>7. ASSUME NEW d \in Run, SaveDelivery(d) PROVE ScheduleInv'
  <2>1. runs'[d].at = "sending"
    BY <1>1, <1>7 DEF SaveDelivery, RunState
  <2> QED
    BY <2>1, WorkingAttends
<1>8. CASE Next
  BY <1>2, <1>3, <1>4, <1>5, <1>6, <1>7, <1>8, RequestKeepsSchedule,
     NextPendingKeepsSchedule, ArmKeepsSchedule, DeathKeepsSchedule DEF Next, Proceed
<1>9. CASE UNCHANGED vars
  BY <1>9, QuietStep DEF vars, database, history
<1> QED
  BY <1>8, <1>9

LEMMA ScheduleGivesPending == ScheduleInv => PendingIsScheduled
BY DEF ScheduleInv, Attended, Working, PendingLeft, PendingIsScheduled, RetryIsScheduled

\* Whatever runs and requests overlap, and whichever runs of the alarm die: as long as no run
\* deletes the alarm by an answer from before it was set, and no request or run of a request
\* dies with rows queued, a delivery that waits has an alarm or somebody who will see to it.
THEOREM PendingStaysScheduled == Spec => []PendingIsScheduled
<1>1. Init => ScheduleInv
  BY DEF Init, ScheduleInv, PendingLeft, NoRow
<1> QED
  BY <1>1, Invariance, NextKeepsSchedule, ScheduleGivesPending, PTL DEF Spec
=============================================================================
