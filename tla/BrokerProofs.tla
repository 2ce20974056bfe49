---------------------------- MODULE BrokerProofs ----------------------------
(***************************************************************************)
(* Proofs about Broker, for any number of calls, grants, tokens and keys.  *)
(***************************************************************************)
EXTENDS Broker, SequenceTheorems, TLAPS

-----------------------------------------------------------------------------
(* Types, and the discipline of the locks *)

\* A call that has read its grant's id names a grant that exists; a proposal names a token.
CallsInv ==
  \A r \in Request :
    /\ calls[r].at = "resolving" => calls[r].token \in SubjectToken
    /\ calls[r].at \notin {"idle", "resolving"} =>
         calls[r].grant \in Grant /\ Exists(calls[r].grant)
    /\ calls[r].at = "finalize" =>
         /\ calls[r].source \in CompletionSource /\ calls[r].final \in FinalStatus
         /\ calls[r].final = "expired" => calls[r].source = "ttl"

\* A call inside a lock is the first in the lock's chain.
LockInv ==
  \A r \in Request : calls[r].at \in Holding =>
    /\ queue[calls[r].grant] # <<>>
    /\ Head(queue[calls[r].grant]) = r

LEMMA IdleIsCall == Idle \in CallRecord
BY DEF Idle, CallRecord, CallState

LEMMA FirstEventsAreTyped == ASSUME NEW d PROVE FirstEvents(d) \in Seq(AuditType)
<1>1. CASE d = "allow"
  BY <1>1 DEF FirstEvents, AuditType
<1>2. CASE d # "allow" /\ d = "block"
  BY <1>2 DEF FirstEvents, AuditType
<1>3. CASE d # "allow" /\ d # "block"
  BY <1>3 DEF FirstEvents, AuditType
<1> QED
  BY <1>1, <1>2, <1>3

LEMMA GrantUpdate ==
  ASSUME NEW x \in GrantRecord, NEW s \in GrantStatus, NEW a \in {None, "policy", "approved"}
  PROVE  /\ [x EXCEPT !.status = s] \in GrantRecord
         /\ [x EXCEPT !.status = s].status = s
         /\ [x EXCEPT !.status = s, !.approver = a] \in GrantRecord
         /\ [x EXCEPT !.status = s, !.approver = a].status = s
BY DEF GrantRecord, GrantStatus

\* A call that joins the chain of a lock leaves the holder where it is.
LEMMA JoinStep ==
  ASSUME TypeOK, CallsInv, LockInv, NEW r \in Request, NEW g \in Grant,
         NEW p \in Queued, NEW s \in CompletionSource \union {None},
         NEW f \in FinalStatus \union {None},
         Exists(g), calls[r].at \notin Holding, JoinLock(r, g, p, s, f),
         p = "finalize" => s \in CompletionSource /\ f \in FinalStatus,
         p = "finalize" /\ f = "expired" => s = "ttl"
  PROVE  TypeOK' /\ CallsInv' /\ LockInv'
<1> DEFINE c == [Idle EXCEPT !.at = p, !.grant = g, !.source = s, !.final = f]
<1>1. c \in CallRecord /\ c.at = p /\ c.grant = g /\ c.source = s /\ c.final = f
  BY DEF Idle, CallRecord, CallState
<1>2. /\ calls' = [calls EXCEPT ![r] = c]
      /\ queue' = [queue EXCEPT ![g] = Append(@, r)]
      /\ UNCHANGED <<now, grants, tokenGrant, idempotency, audits, evidence, deliveries, minted, uses>>
  BY DEF JoinLock, Enqueue, store, history
<1> HIDE DEF c
<1>3. TypeOK'
  BY <1>1, <1>2 DEF TypeOK
<1>4. CallsInv'
  BY <1>1, <1>2 DEF CallsInv, TypeOK, Queued, Exists
<1>5. LockInv'
  <2> SUFFICES ASSUME NEW q \in Request, calls'[q].at \in Holding
               PROVE  queue'[calls'[q].grant] # <<>> /\ Head(queue'[calls'[q].grant]) = q
    BY DEF LockInv
  <2>1. q # r
    BY <1>1, <1>2 DEF TypeOK, Queued, Holding
  <2>2. calls'[q] = calls[q] /\ calls[q].grant \in Grant
    BY <2>1, <1>2 DEF TypeOK, CallsInv, Holding
  <2>3. queue[calls[q].grant] \in Seq(Request) /\ queue[calls[q].grant] # <<>>
        /\ Head(queue[calls[q].grant]) = q
    BY <2>2 DEF LockInv, TypeOK
  <2>4. CASE calls[q].grant = g
    <3>1. Append(queue[g], r) # <<>> /\ Head(Append(queue[g], r)) = q
      BY <2>3, <2>4, AppendProperties, HeadTailAppend
    <3> QED
      BY <2>2, <2>4, <3>1, <1>2 DEF TypeOK
  <2>5. CASE calls[q].grant # g
    BY <2>5, <1>2, <2>2, <2>3 DEF TypeOK
  <2> QED
    BY <2>4, <2>5
<1> QED
  BY <1>3, <1>4, <1>5

\* A call that goes on outside the locks, with what is left to deliver for g, or returns.
Leaves(r, g, c) ==
  /\ c \in CallRecord
  /\ calls' = [calls EXCEPT ![r] = c]
  /\ c.at \in {"idle", "delivering"}
  /\ c.at = "delivering" => c.grant = g

LEMMA ReturnLeaves == ASSUME NEW r, NEW g, Return(r) PROVE Leaves(r, g, Idle)
BY IdleIsCall DEF Return, Leaves, Idle

LEMMA DeliverLeaves ==
  ASSUME NEW r, NEW g \in Grant, NEW left \in SUBSET Target, GoDeliver(r, g, left)
  PROVE  \E c : Leaves(r, g, c)
<1>1. CASE left = {}
  BY <1>1, ReturnLeaves DEF GoDeliver, Return
<1>2. CASE left # {}
  <2> DEFINE c == [Idle EXCEPT !.at = "delivering", !.grant = g, !.left = left]
  <2>1. c \in CallRecord /\ c.at = "delivering" /\ c.grant = g
    BY DEF Idle, CallRecord, CallState
  <2>2. calls' = [calls EXCEPT ![r] = c]
    BY <1>2 DEF GoDeliver
  <2> HIDE DEF c
  <2>3. Leaves(r, g, c)
    BY <2>1, <2>2 DEF Leaves
  <2> QED
    BY <2>3
<1> QED
  BY <1>1, <1>2

\* The call that holds a lock leaves it: nobody else was inside.
LEMMA LeaveStep ==
  ASSUME TypeOK, CallsInv, LockInv, NEW r \in Request, NEW c, Exists(calls[r].grant),
         calls[r].grant \in Grant, queue[calls[r].grant] # <<>>,
         Head(queue[calls[r].grant]) = r, Release(r), Leaves(r, calls[r].grant, c),
         \A g \in Grant : Exists(g) => Exists(g)'
  PROVE  queue' \in [Grant -> Seq(Request)] /\ calls' \in [Request -> CallRecord]
         /\ CallsInv' /\ LockInv'
<1>1. /\ calls' = [calls EXCEPT ![r] = c] /\ c.at \in {"idle", "delivering"}
      /\ calls' \in [Request -> CallRecord]
      /\ c.at = "delivering" => c.grant = calls[r].grant
  BY DEF Leaves, TypeOK
<1>2. queue' = [queue EXCEPT ![calls[r].grant] = Tail(@)] /\ queue' \in [Grant -> Seq(Request)]
  BY DEF Release, TypeOK
<1>3. CallsInv'
  BY <1>1 DEF CallsInv, TypeOK
<1>4. LockInv'
  <2> SUFFICES ASSUME NEW q \in Request, calls'[q].at \in Holding
               PROVE  queue'[calls'[q].grant] # <<>> /\ Head(queue'[calls'[q].grant]) = q
    BY DEF LockInv
  <2>1. q # r /\ calls'[q] = calls[q]
    BY <1>1 DEF TypeOK, Holding
  <2>2. queue[calls[q].grant] # <<>> /\ Head(queue[calls[q].grant]) = q
        /\ calls[q].grant \in Grant
    BY <2>1 DEF LockInv, CallsInv, Holding
  <2>3. calls[q].grant # calls[r].grant
    BY <2>1, <2>2
  <2> QED
    BY <1>2, <2>1, <2>2, <2>3 DEF TypeOK
<1> QED
  BY <1>1, <1>2, <1>3, <1>4

\* A call that goes on without touching the queues; inside a lock it keeps its turn.
LEMMA GoStep ==
  ASSUME TypeOK, CallsInv, LockInv, NEW r \in Request, NEW c \in CallRecord,
         calls' = [calls EXCEPT ![r] = c], UNCHANGED queue,
         c.at = "resolving" => c.token \in SubjectToken,
         c.at \notin {"idle", "resolving"} => c.grant \in Grant /\ Exists(c.grant)',
         c.at = "finalize" => c.source \in CompletionSource /\ c.final \in FinalStatus,
         c.at = "finalize" /\ c.final = "expired" => c.source = "ttl",
         c.at \in Holding => queue[c.grant] # <<>> /\ Head(queue[c.grant]) = r,
         \A g \in Grant : Exists(g) => Exists(g)'
  PROVE  calls' \in [Request -> CallRecord] /\ CallsInv' /\ LockInv'
<1>1. calls' \in [Request -> CallRecord] /\ calls'[r] = c
      /\ \A q \in Request : q # r => calls'[q] = calls[q]
  BY DEF TypeOK
<1>2. CallsInv'
  BY <1>1 DEF CallsInv
<1>3. LockInv'
  BY <1>1 DEF LockInv
<1> QED
  BY <1>1, <1>2, <1>3

-----------------------------------------------------------------------------
(* The base invariant: types and locks *)

BaseInv == TypeOK /\ CallsInv /\ LockInv

LEMMA BaseInit == Init => BaseInv
<1> SUFFICES ASSUME Init PROVE BaseInv
  OBVIOUS
<1>1. TypeOK
  BY IdleIsCall, BrokerAssumption
  DEF Init, TypeOK, NoGrant, GrantRecord, GrantStatus, DeliveryStatus
<1>2. \A r \in Request : calls[r].at = "idle"
  BY DEF Init, Idle
<1> QED
  BY <1>1, <1>2 DEF BaseInv, CallsInv, LockInv, Holding

\* A call that leaves the lock it holds without writing.
LEMMA LeaveLockStep ==
  ASSUME BaseInv, NEW r \in Request, calls[r].grant \in Grant, Exists(calls[r].grant),
         queue[calls[r].grant] # <<>>, Head(queue[calls[r].grant]) = r, LeaveLock(r)
  PROVE  BaseInv'
<1>1. UNCHANGED <<now, grants, tokenGrant, idempotency, audits, evidence, deliveries, minted, uses>>
      /\ Release(r) /\ Return(r)
  BY DEF LeaveLock, store, history
<1>2. queue' \in [Grant -> Seq(Request)] /\ calls' \in [Request -> CallRecord]
      /\ CallsInv' /\ LockInv'
  BY <1>1, ReturnLeaves, LeaveStep DEF BaseInv, Exists
<1> QED
  BY <1>1, <1>2 DEF BaseInv, TypeOK

LEMMA BaseExchange ==
  ASSUME BaseInv, NEW r \in Request,
         \/ StartExchange(r)
         \/ ExchangeEndsEarly(r) \/ ExchangeMintFails(r)
         \/ \E g \in Grant, d \in Decision : CreateGrant(r, g, d)
         \/ ExchangeMints(r)
  PROVE  BaseInv'
<1>1. CASE StartExchange(r)
  <2>1. PICK t \in SubjectToken, k \in IdempotencyKey \union {None}, ttl \in Ttl :
          calls' = [calls EXCEPT ![r] =
            [Idle EXCEPT !.at = "resolving", !.token = t, !.key = k, !.ttl = ttl]]
    BY <1>1 DEF StartExchange
  <2> DEFINE c == [Idle EXCEPT !.at = "resolving", !.token = t, !.key = k, !.ttl = ttl]
  <2>2. c \in CallRecord /\ c.at = "resolving" /\ c.token \in SubjectToken
    BY BrokerAssumption DEF CallRecord, CallState, Idle
  <2>3. UNCHANGED <<now, grants, tokenGrant, idempotency, audits, evidence, deliveries, queue, minted, uses>>
    BY <1>1 DEF StartExchange, store, history
  <2> HIDE DEF c
  <2>4. calls' = [calls EXCEPT ![r] = c]
    BY <2>1 DEF c
  <2>5. calls' \in [Request -> CallRecord] /\ CallsInv' /\ LockInv'
    BY <2>2, <2>3, <2>4, GoStep DEF BaseInv, Exists, Holding
  <2> QED
    BY <2>3, <2>5 DEF BaseInv, TypeOK
<1>2. CASE ExchangeEndsEarly(r) \/ ExchangeMintFails(r)
  <2>1. UNCHANGED <<now, grants, tokenGrant, idempotency, audits, evidence, deliveries, queue, minted, uses>>
        /\ calls' = [calls EXCEPT ![r] = Idle]
    BY <1>2 DEF ExchangeEndsEarly, ExchangeMintFails, Return, store, history
  <2>2. calls' \in [Request -> CallRecord] /\ CallsInv' /\ LockInv'
    BY <2>1, IdleIsCall, GoStep DEF BaseInv, Exists, Holding, Idle
  <2> QED
    BY <2>1, <2>2 DEF BaseInv, TypeOK
<1>3. ASSUME NEW g \in Grant, NEW d \in Decision, CreateGrant(r, g, d) PROVE BaseInv'
  <2> DEFINE c == IF d = "allow" THEN [Idle EXCEPT !.at = "minting", !.grant = g] ELSE Idle
  <2>1. calls' = [calls EXCEPT ![r] = c] /\ UNCHANGED <<now, queue, evidence, deliveries, minted, uses>>
    BY <1>3 DEF CreateGrant, Return, history
  <2>2. calls[r].token \in SubjectToken /\ calls[r] \in CallRecord
    BY <1>3 DEF CreateGrant, BaseInv, CallsInv, TypeOK
  <2>3. grants' \in [Grant -> GrantRecord] /\ grants'[g].status # "absent"
        /\ \A h \in Grant : h # g => grants'[h] = grants[h]
    <3> DEFINE new == [status |-> FirstStatus(d), token |-> calls[r].token,
                       key |-> calls[r].key, expiresAt |-> now + calls[r].ttl,
                       approver |-> IF d = "allow" THEN "policy" ELSE None]
    <3>1. grants' = [grants EXCEPT ![g] = new]
      BY <1>3 DEF CreateGrant
    <3>2. FirstStatus(d) \in GrantStatus /\ now \in Nat /\ FirstStatus(d) # "absent"
      BY BrokerAssumption DEF FirstStatus, GrantStatus, BaseInv, TypeOK
    <3>3. new \in GrantRecord /\ new.status # "absent"
      BY <2>2, <3>2 DEF GrantRecord, CallRecord
    <3> HIDE DEF new
    <3> QED
      BY <3>1, <3>3 DEF BaseInv, TypeOK
  <2>4. tokenGrant' \in [SubjectToken -> Grant \union {None}]
        /\ idempotency' \in [IdempotencyKey -> Grant \union {None}]
    BY <1>3, <2>2 DEF CreateGrant, BaseInv, TypeOK, CallRecord
  <2>5. audits' \in [Grant -> Seq(AuditType)]
    <3>1. audits[g] \o FirstEvents(d) \in Seq(AuditType)
      BY FirstEventsAreTyped, ConcatProperties DEF BaseInv, TypeOK
    <3> QED
      BY <1>3, <3>1 DEF CreateGrant, BaseInv, TypeOK
  <2>6. c \in CallRecord /\ c.at \in {"idle", "minting"} /\ (c.at = "minting" => c.grant = g)
    BY IdleIsCall DEF CallRecord, CallState, Idle
  <2> HIDE DEF c
  <2>7. calls' \in [Request -> CallRecord] /\ CallsInv' /\ LockInv'
    BY <2>1, <2>3, <2>6, GoStep DEF BaseInv, Exists, Holding
  <2> QED
    BY <2>1, <2>3, <2>4, <2>5, <2>7 DEF BaseInv, TypeOK
<1>4. CASE ExchangeMints(r)
  <2>1. UNCHANGED <<now, grants, tokenGrant, idempotency, audits, evidence, deliveries, queue, uses>>
        /\ calls' = [calls EXCEPT ![r] = Idle]
        /\ minted' = [minted EXCEPT ![calls[r].grant] = @ + 1]
    BY <1>4 DEF ExchangeMints, Return, store
  <2>2. calls' \in [Request -> CallRecord] /\ CallsInv' /\ LockInv'
    BY <2>1, IdleIsCall, GoStep DEF BaseInv, Exists, Holding, Idle
  <2>3. minted' \in [Grant -> Nat]
    <3>1. calls[r].grant \in Grant
      BY <1>4 DEF ExchangeMints, BaseInv, CallsInv
    <3> QED
      BY <2>1, <3>1 DEF BaseInv, TypeOK
  <2> QED
    BY <2>1, <2>2, <2>3 DEF BaseInv, TypeOK
<1> QED
  BY <1>1, <1>2, <1>3, <1>4

\* A call that goes on inside the lock it has its turn in.
LEMMA KeepsTurn ==
  ASSUME BaseInv, NEW r \in Request, NEW p \in Queued, NEW q \in Holding, HasTurn(r, p),
         GoTo(r, q), UNCHANGED <<now, store, queue, history>>
  PROVE  BaseInv'
<1> DEFINE c == [calls[r] EXCEPT !.at = q]
<1>1. calls[r].grant \in Grant /\ queue[calls[r].grant] # <<>> /\ Head(queue[calls[r].grant]) = r
      /\ Exists(calls[r].grant)
  BY DEF HasTurn, Queued, BaseInv, CallsInv
<1>2. /\ calls' = [calls EXCEPT ![r] = c]
      /\ UNCHANGED <<now, grants, tokenGrant, idempotency, audits, evidence, deliveries, queue, minted, uses>>
  BY DEF GoTo, store, history, BaseInv, TypeOK
<1>3. c \in CallRecord /\ c.at = q /\ c.grant = calls[r].grant
  BY DEF BaseInv, TypeOK, CallRecord, CallState, Holding
<1> HIDE DEF c
<1>4. calls' \in [Request -> CallRecord] /\ CallsInv' /\ LockInv'
  BY <1>1, <1>2, <1>3, GoStep DEF BaseInv, Exists, Holding
<1> QED
  BY <1>2, <1>4 DEF BaseInv, TypeOK

\* The call that has its turn is the first in the chain of an existing grant's lock.
LEMMA TurnIsHead ==
  ASSUME BaseInv, NEW r \in Request, \/ \E p \in Queued : HasTurn(r, p)
                                     \/ calls[r].at \in Holding
  PROVE  /\ calls[r].grant \in Grant /\ Exists(calls[r].grant)
         /\ queue[calls[r].grant] # <<>> /\ Head(queue[calls[r].grant]) = r
BY DEF HasTurn, Queued, Holding, BaseInv, CallsInv, LockInv

\* The holder of a lock writes its grant's status and its trail, and leaves.
LEMMA WriteAndLeave ==
  ASSUME BaseInv, NEW r \in Request, NEW s \in GrantStatus, NEW a \in AuditType,
         NEW c, calls[r].grant \in Grant, Exists(calls[r].grant), queue[calls[r].grant] # <<>>,
         Head(queue[calls[r].grant]) = r, Release(r), Leaves(r, calls[r].grant, c),
         UNCHANGED now,
         grants' = [grants EXCEPT ![calls[r].grant].status = s],
         audits' = [audits EXCEPT ![calls[r].grant] = Append(@, a)]
  PROVE  /\ grants' \in [Grant -> GrantRecord] /\ audits' \in [Grant -> Seq(AuditType)]
         /\ queue' \in [Grant -> Seq(Request)] /\ calls' \in [Request -> CallRecord]
         /\ CallsInv' /\ LockInv'
<1> DEFINE g == calls[r].grant
           new == [grants[g] EXCEPT !.status = s]
<1>1. grants[g] \in GrantRecord
  BY DEF BaseInv, TypeOK
<1>2. new \in GrantRecord /\ new.status = s
  <2> HIDE DEF g
  <2> QED
    BY <1>1, GrantUpdate
<1>3. grants' = [grants EXCEPT ![g] = new]
  BY DEF BaseInv, TypeOK
<1> HIDE DEF new
<1>4. grants' \in [Grant -> GrantRecord] /\ \A h \in Grant : Exists(h) => Exists(h)'
  BY <1>2, <1>3 DEF BaseInv, TypeOK, Exists, GrantStatus
<1>5. audits' \in [Grant -> Seq(AuditType)]
  BY DEF BaseInv, TypeOK
<1>6. queue' \in [Grant -> Seq(Request)] /\ calls' \in [Request -> CallRecord]
      /\ CallsInv' /\ LockInv'
  BY <1>4, LeaveStep DEF BaseInv
<1> QED
  BY <1>4, <1>5, <1>6

\* The calls that take a grant's lock. A step that writes the grant holds it.
LEMMA BaseApprove ==
  ASSUME BaseInv, NEW r \in Request,
         \/ \E g \in Grant : StartApprove(r, g)
         \/ ApproveRefused(r)
         \/ ApproveChecked(r)
         \/ ApproveTokenTaken(r) \/ ApproveMintFails(r)
         \/ ApproveReserves(r)
         \/ ApproveMints(r)
  PROVE  BaseInv'
<1>1. ASSUME NEW g \in Grant, StartApprove(r, g) PROVE BaseInv'
  <2>1. "approve" \in Queued /\ "idle" \notin Holding
    BY DEF Queued, Holding
  <2> QED
    BY <1>1, <2>1, JoinStep DEF StartApprove, BaseInv
<1>2. CASE ApproveRefused(r)
  BY <1>2, TurnIsHead, LeaveLockStep DEF ApproveRefused, Queued
<1>3. CASE ApproveChecked(r)
  BY <1>3, KeepsTurn DEF ApproveChecked, Queued, Holding
<1>4. CASE ApproveTokenTaken(r) \/ ApproveMintFails(r)
  BY <1>4, TurnIsHead, LeaveLockStep DEF ApproveTokenTaken, ApproveMintFails, Holding
<1>5. CASE ApproveReserves(r)
  <2> DEFINE g == calls[r].grant
             t == grants[g].token
             c == [calls[r] EXCEPT !.at = "signing"]
  <2>1. g \in Grant /\ Exists(g) /\ queue[g] # <<>> /\ Head(queue[g]) = r
    BY <1>5 DEF ApproveReserves, Holding, BaseInv, CallsInv, LockInv
  <2>2. c \in CallRecord /\ c.at = "signing" /\ c.grant = g
    BY DEF BaseInv, TypeOK, CallRecord, CallState, Holding
  <2>3. /\ calls' = [calls EXCEPT ![r] = c]
        /\ grants' = [grants EXCEPT ![g] =
             [@ EXCEPT !.status = "approved", !.approver = "approved"]]
        /\ tokenGrant' = [tokenGrant EXCEPT ![t] = g]
        /\ audits' = [audits EXCEPT ![g] = Append(@, "grant_approved")]
        /\ UNCHANGED <<now, idempotency, evidence, deliveries, queue, minted, uses>>
    BY <1>5 DEF ApproveReserves, GoTo, history, BaseInv, TypeOK
  <2>4. grants' \in [Grant -> GrantRecord] /\ grants'[g].status = "approved"
        /\ \A h \in Grant : h # g => grants'[h] = grants[h]
    <3> DEFINE new == [grants[g] EXCEPT !.status = "approved", !.approver = "approved"]
    <3>0. grants[g] \in GrantRecord /\ "approved" \in GrantStatus
      BY <2>1 DEF BaseInv, TypeOK, GrantStatus
    <3>1. new \in GrantRecord /\ new.status = "approved"
      <4> HIDE DEF g
      <4> QED
        BY <3>0, GrantUpdate
    <3>2. grants' = [grants EXCEPT ![g] = new]
      BY <2>1, <2>3 DEF BaseInv, TypeOK
    <3> HIDE DEF new
    <3> QED
      BY <2>1, <3>1, <3>2 DEF BaseInv, TypeOK
  <2>5. tokenGrant' \in [SubjectToken -> Grant \union {None}]
    BY <2>1, <2>3 DEF BaseInv, TypeOK
  <2>6. audits' \in [Grant -> Seq(AuditType)]
    BY <2>1, <2>3 DEF BaseInv, TypeOK, AuditType
  <2> HIDE DEF c, g, t
  <2>7. calls' \in [Request -> CallRecord] /\ CallsInv' /\ LockInv'
    BY <2>1, <2>2, <2>3, <2>4, GoStep DEF BaseInv, Exists
  <2> QED
    BY <2>3, <2>4, <2>5, <2>6, <2>7 DEF BaseInv, TypeOK
<1>6. CASE ApproveMints(r)
  <2>1. calls[r].grant \in Grant /\ queue[calls[r].grant] # <<>> /\ Head(queue[calls[r].grant]) = r
        /\ Exists(calls[r].grant)
    BY <1>6 DEF ApproveMints, Holding, BaseInv, CallsInv, LockInv
  <2>2. /\ UNCHANGED <<now, grants, tokenGrant, idempotency, audits, evidence, deliveries, uses>>
        /\ Release(r) /\ Return(r)
        /\ minted' = [minted EXCEPT ![calls[r].grant] = @ + 1]
    BY <1>6 DEF ApproveMints, store
  <2>3. queue' \in [Grant -> Seq(Request)] /\ calls' \in [Request -> CallRecord]
        /\ CallsInv' /\ LockInv'
    BY <2>1, <2>2, ReturnLeaves, LeaveStep DEF BaseInv, Exists
  <2>4. minted' \in [Grant -> Nat]
    BY <2>1, <2>2 DEF BaseInv, TypeOK
  <2> QED
    BY <2>2, <2>3, <2>4 DEF BaseInv, TypeOK
<1> QED
  BY <1>1, <1>2, <1>3, <1>4, <1>5, <1>6

LEMMA BaseConsume ==
  ASSUME BaseInv, NEW r \in Request,
         \/ \E g \in Grant : StartConsume(r, g)
         \/ ConsumeRefused(r)
         \/ ConsumeChecked(r)
         \/ ConsumeProofInvalid(r)
         \/ ConsumeSucceeds(r),
         \A g \in Grant : minted[g] > 0 => Exists(g)
  PROVE  BaseInv'
<1>1. ASSUME NEW g \in Grant, StartConsume(r, g) PROVE BaseInv'
  <2>1. "consume" \in Queued /\ "idle" \notin Holding
    BY DEF Queued, Holding
  <2> QED
    BY <1>1, <2>1, JoinStep DEF StartConsume, BaseInv
<1>2. CASE ConsumeRefused(r)
  BY <1>2, TurnIsHead, LeaveLockStep DEF ConsumeRefused, Queued
<1>3. CASE ConsumeChecked(r)
  BY <1>3, KeepsTurn DEF ConsumeChecked, Queued, Holding
<1>4. CASE ConsumeProofInvalid(r)
  BY <1>4, TurnIsHead, LeaveLockStep DEF ConsumeProofInvalid, Holding
<1>5. CASE ConsumeSucceeds(r)
  <2>1. /\ calls[r].grant \in Grant /\ Exists(calls[r].grant)
        /\ queue[calls[r].grant] # <<>> /\ Head(queue[calls[r].grant]) = r
    BY <1>5, TurnIsHead DEF ConsumeSucceeds, Holding
  <2>2. /\ Release(r) /\ Return(r)
        /\ UNCHANGED <<now, tokenGrant, idempotency, evidence, deliveries, minted>>
        /\ grants' = [grants EXCEPT ![calls[r].grant].status = "consumed"]
        /\ audits' = [audits EXCEPT ![calls[r].grant] = Append(@, "grant_consumed")]
        /\ uses' = [uses EXCEPT ![calls[r].grant] = @ + 1]
    BY <1>5 DEF ConsumeSucceeds
  <2>3. "consumed" \in GrantStatus /\ "grant_consumed" \in AuditType
    BY DEF GrantStatus, AuditType
  <2>4. uses' \in [Grant -> Nat]
    BY <2>1, <2>2 DEF BaseInv, TypeOK
  <2> QED
    BY <2>1, <2>2, <2>3, <2>4, ReturnLeaves, WriteAndLeave DEF BaseInv, TypeOK
<1> QED
  BY <1>1, <1>2, <1>3, <1>4, <1>5

LEMMA BaseFinalize ==
  ASSUME BaseInv, NEW r \in Request,
         \/ \E g \in Grant : StartComplete(r, g) \/ StartRevoke(r, g) \/ StartExpire(r, g)
         \/ CompleteProofInvalid(r)
         \/ CompleteProved(r)
         \/ FinalizeRefused(r)
         \/ FinalizeRepeats(r)
         \/ Finalize(r),
         \A g \in Grant : minted[g] > 0 => Exists(g)
  PROVE  BaseInv'
<1>1. ASSUME NEW g \in Grant, StartComplete(r, g) PROVE BaseInv'
  <2> DEFINE c == [Idle EXCEPT !.at = "completing", !.grant = g]
  <2>1. c \in CallRecord /\ c.at = "completing" /\ c.grant = g
    BY DEF CallRecord, CallState, Idle
  <2>2. /\ UNCHANGED <<now, grants, tokenGrant, idempotency, audits, evidence, deliveries, queue, minted, uses>>
        /\ calls' = [calls EXCEPT ![r] = c] /\ Exists(g)
    BY <1>1 DEF StartComplete, store, history
  <2> HIDE DEF c
  <2>3. calls' \in [Request -> CallRecord] /\ CallsInv' /\ LockInv'
    BY <2>1, <2>2, GoStep DEF BaseInv, Exists, Holding
  <2> QED
    BY <2>2, <2>3 DEF BaseInv, TypeOK
<1>2. ASSUME NEW g \in Grant, StartRevoke(r, g) \/ StartExpire(r, g) PROVE BaseInv'
  <2>1. "finalize" \in Queued /\ "idle" \notin Holding /\ "ttl" \in CompletionSource
        /\ "revoked" \in FinalStatus /\ "expired" \in FinalStatus
        /\ \A source \in ApiSource : source \in CompletionSource
    BY ApiSourceAssumption DEF Queued, Holding, CompletionSource, FinalStatus
  <2>2. \E source \in CompletionSource, final \in FinalStatus :
          JoinLock(r, g, "finalize", source, final) /\ (final = "expired" => source = "ttl")
    BY <1>2, <2>1 DEF StartRevoke, StartExpire
  <2> QED
    BY <1>2, <2>1, <2>2, JoinStep DEF StartRevoke, StartExpire, BaseInv
<1>3. CASE CompleteProofInvalid(r)
  <2>1. UNCHANGED <<now, grants, tokenGrant, idempotency, audits, evidence, deliveries, queue, minted, uses>>
        /\ calls' = [calls EXCEPT ![r] = Idle]
    BY <1>3 DEF CompleteProofInvalid, Return, store, history
  <2>2. calls' \in [Request -> CallRecord] /\ CallsInv' /\ LockInv'
    BY <2>1, IdleIsCall, GoStep DEF BaseInv, Exists, Holding, Idle
  <2> QED
    BY <2>1, <2>2 DEF BaseInv, TypeOK
<1>4. CASE CompleteProved(r)
  <2>1. "finalize" \in Queued /\ "completing" \notin Holding /\ "agent" \in CompletionSource
        /\ "revoked" \in FinalStatus
    BY DEF Queued, Holding, CompletionSource, FinalStatus
  <2>2. calls[r].grant \in Grant /\ Exists(calls[r].grant)
    BY <1>4 DEF CompleteProved, BaseInv, CallsInv
  <2> QED
    BY <1>4, <2>1, <2>2, JoinStep DEF CompleteProved, BaseInv
<1>5. CASE FinalizeRefused(r)
  BY <1>5, TurnIsHead, LeaveLockStep DEF FinalizeRefused, Queued
<1>6. CASE Finalize(r)
  <2> DEFINE g == calls[r].grant
             ds == [x \in Target |-> "pending"]
             event == FinalEvent(calls[r].source, calls[r].final)
             ev == [source |-> calls[r].source, approver |-> grants[g].approver,
                    timeline |-> audits'[g], deliveries |-> ds]
  <2>1. g \in Grant /\ Exists(g) /\ queue[g] # <<>> /\ Head(queue[g]) = r
    BY <1>6, TurnIsHead DEF Finalize, Queued
  <2>2. /\ Release(r) /\ GoDeliver(r, g, Target)
        /\ UNCHANGED <<now, tokenGrant, idempotency, minted, uses>>
        /\ grants' = [grants EXCEPT ![g].status = calls[r].final]
        /\ audits' = [audits EXCEPT ![g] = Append(@, event)]
        /\ deliveries' = [deliveries EXCEPT ![g] = ds]
        /\ evidence' = [evidence EXCEPT ![g] = ev]
    BY <1>6 DEF Finalize, history
  <2>3. /\ calls[r].source \in CompletionSource /\ calls[r].final \in FinalStatus
        /\ calls[r].final \in GrantStatus /\ event \in AuditType
    BY <1>6 DEF Finalize, HasTurn, BaseInv, CallsInv, FinalStatus, FinalEvent, GrantStatus,
                AuditType
  <2>4. /\ grants' \in [Grant -> GrantRecord] /\ audits' \in [Grant -> Seq(AuditType)]
        /\ queue' \in [Grant -> Seq(Request)] /\ calls' \in [Request -> CallRecord]
        /\ CallsInv' /\ LockInv'
    <3>1. PICK c : Leaves(r, g, c)
      BY <2>1, <2>2, DeliverLeaves
    <3> HIDE DEF ev, ds, event
    <3> QED
      BY <2>1, <2>2, <2>3, <3>1, WriteAndLeave
  <2>5. ds \in [Target -> DeliveryStatus]
    BY DEF DeliveryStatus
  <2>6. ev \in EvidenceRecord
    <3> HIDE DEF ds
    <3> QED
      BY <2>1, <2>3, <2>4, <2>5 DEF EvidenceRecord, BaseInv, TypeOK, GrantRecord
  <2> HIDE DEF ev, ds
  <2> QED
    BY <2>1, <2>2, <2>4, <2>5, <2>6 DEF BaseInv, TypeOK
<1>7. CASE FinalizeRepeats(r)
  <2>1. /\ calls[r].grant \in Grant /\ Exists(calls[r].grant)
        /\ queue[calls[r].grant] # <<>> /\ Head(queue[calls[r].grant]) = r
    BY <1>7, TurnIsHead DEF FinalizeRepeats, Queued
  <2>2. /\ UNCHANGED <<now, grants, tokenGrant, idempotency, audits, evidence, deliveries,
                       minted, uses>>
        /\ Release(r) /\ GoDeliver(r, calls[r].grant, Undelivered(calls[r].grant))
    BY <1>7 DEF FinalizeRepeats, store, history
  <2>3. PICK c : Leaves(r, calls[r].grant, c)
    BY <2>1, <2>2, DeliverLeaves DEF Undelivered
  <2>4. queue' \in [Grant -> Seq(Request)] /\ calls' \in [Request -> CallRecord]
        /\ CallsInv' /\ LockInv'
    BY <2>1, <2>2, <2>3, LeaveStep DEF BaseInv, Exists
  <2> QED
    BY <2>2, <2>4 DEF BaseInv, TypeOK
<1> QED
  BY <1>1, <1>2, <1>3, <1>4, <1>5, <1>6, <1>7

\* Evidence with another delivery snapshot.
LEMMA Refreshed ==
  ASSUME NEW e \in EvidenceRecord, NEW ds \in [Target -> DeliveryStatus]
  PROVE  /\ [e EXCEPT !.deliveries = ds] \in EvidenceRecord
         /\ [e EXCEPT !.deliveries = ds] # None
         /\ [e EXCEPT !.deliveries = ds].deliveries = ds
         /\ [e EXCEPT !.deliveries = ds].source = e.source
         /\ [e EXCEPT !.deliveries = ds].approver = e.approver
         /\ [e EXCEPT !.deliveries = ds].timeline = e.timeline
<1>1. [e EXCEPT !.deliveries = ds] \in EvidenceRecord
  BY DEF EvidenceRecord
<1> QED
  BY <1>1, NoneIsNoEvidence DEF EvidenceRecord

\* What an attempt to deliver writes.
Attempted(r, x, o, g, ds) ==
  /\ g = calls[r].grant /\ Exists(g)
  /\ ds = [deliveries[g] EXCEPT ![x] = o]
  /\ evidence[g] \in EvidenceRecord
  /\ evidence' = [evidence EXCEPT ![g] = [evidence[g] EXCEPT !.deliveries = ds]]
  /\ deliveries' = [deliveries EXCEPT ![g] = ds]
  /\ audits' = [audits EXCEPT ![g] = Append(audits[g], "revocation_delivery")]

LEMMA DeliverWrites ==
  ASSUME BaseInv, NEW r \in Request, NEW x \in Target, NEW o \in {"delivered", "failed"},
         Deliver(r, x, o), evidence[calls[r].grant] # None
  PROVE  \E g \in Grant, ds \in [Target -> DeliveryStatus] : Attempted(r, x, o, g, ds)
<1>1. PICK g \in Grant : g = calls[r].grant /\ Exists(g)
  BY DEF Deliver, BaseInv, CallsInv
<1>2. PICK ds : ds = [deliveries[g] EXCEPT ![x] = o]
  OBVIOUS
<1>3. ds \in [Target -> DeliveryStatus]
  BY <1>2 DEF BaseInv, TypeOK, DeliveryStatus
<1>4. evidence[g] \in EvidenceRecord
  BY <1>1 DEF BaseInv, TypeOK
<1>5. /\ evidence' = [evidence EXCEPT ![g] = [evidence[g] EXCEPT !.deliveries = ds]]
      /\ deliveries' = [deliveries EXCEPT ![g] = ds]
      /\ audits' = [audits EXCEPT ![g] = Append(audits[g], "revocation_delivery")]
  BY <1>1, <1>2 DEF Deliver, RefreshEvidence, BaseInv, TypeOK
<1> QED
  BY <1>1, <1>2, <1>3, <1>4, <1>5 DEF Attempted

\* The calls that deliver: a retry starts, or an attempt ends.
LEMMA BaseDeliver ==
  ASSUME BaseInv, NEW r \in Request,
         \/ \E g \in Grant : StartRetry(r, g)
         \/ \E x \in Target, o \in {"delivered", "failed"} : Deliver(r, x, o),
         calls[r].at = "delivering" => evidence[calls[r].grant] # None,
         \A g \in Grant : Undelivered(g) # {} => Exists(g)
  PROVE  BaseInv'
<1>1. ASSUME NEW g \in Grant, StartRetry(r, g) PROVE BaseInv'
  <2>1. PICK due \in SUBSET Undelivered(g) : due # {} /\ GoDeliver(r, g, due)
    BY <1>1 DEF StartRetry
  <2>2. Exists(g) /\ due \in SUBSET Target
    BY <2>1 DEF Undelivered
  <2>3. PICK c : Leaves(r, g, c)
    BY <2>1, <2>2, DeliverLeaves
  <2>4. UNCHANGED <<now, grants, tokenGrant, idempotency, audits, evidence, deliveries, queue,
                   minted, uses>>
    BY <1>1 DEF StartRetry, store, history
  <2>5. calls' \in [Request -> CallRecord] /\ CallsInv' /\ LockInv'
    BY <2>2, <2>3, <2>4, GoStep DEF Leaves, BaseInv, Exists, Holding
  <2> QED
    BY <2>4, <2>5 DEF BaseInv, TypeOK
<1>2. ASSUME NEW x \in Target, NEW o \in {"delivered", "failed"}, Deliver(r, x, o)
      PROVE  BaseInv'
  <2>1. evidence[calls[r].grant] # None
    BY <1>2 DEF Deliver
  <2>2. PICK g \in Grant, ds \in [Target -> DeliveryStatus] : Attempted(r, x, o, g, ds)
    BY <1>2, <2>1, DeliverWrites
  <2>3. /\ UNCHANGED <<now, grants, tokenGrant, idempotency, queue, minted, uses>>
        /\ GoDeliver(r, g, calls[r].left \ {x})
    BY <1>2, <2>2 DEF Deliver, Attempted, history
  <2>4. calls[r].left \ {x} \in SUBSET Target
    BY DEF BaseInv, TypeOK, CallRecord
  <2>5. PICK c : Leaves(r, g, c)
    BY <2>3, <2>4, DeliverLeaves
  <2>6. calls' \in [Request -> CallRecord] /\ CallsInv' /\ LockInv'
    BY <2>2, <2>3, <2>5, GoStep DEF Attempted, Leaves, BaseInv, Exists, Holding
  <2>7. evidence' \in [Grant -> EvidenceRecord \union {None}]
    BY <2>2, Refreshed DEF Attempted, BaseInv, TypeOK
  <2>8. deliveries' \in [Grant -> [Target -> DeliveryStatus]]
    BY <2>2 DEF Attempted, BaseInv, TypeOK
  <2>9. audits' \in [Grant -> Seq(AuditType)]
    <3>1. "revocation_delivery" \in AuditType
      BY DEF AuditType
    <3> QED
      BY <2>2, <3>1, AppendProperties DEF Attempted, BaseInv, TypeOK
  <2> QED
    BY <2>3, <2>6, <2>7, <2>8, <2>9 DEF BaseInv, TypeOK
<1> QED
  BY <1>1, <1>2

-----------------------------------------------------------------------------
(* The inductive invariant *)


Signing(r) == calls[r].at \in {"minting", "signing"}

\* What a call inside the lock found when it checked is still so.
HolderInv ==
  \A r \in Request :
    LET g == calls[r].grant IN
    /\ calls[r].at = "reserving" => grants[g].status = "proposed"
    /\ calls[r].at = "proving" => grants[g].status = "approved"
    /\ calls[r].at \in {"consume", "proving", "completing"} => minted[g] > 0
    /\ calls[r].at = "delivering" => evidence[g] # None

\* A credential is signed by one call, for a grant that holds its subject token.
MintInv ==
  /\ \A g \in Grant : minted[g] <= 1
  /\ \A g \in Grant : minted[g] > 0 => grants[g].token \in SubjectToken /\ Exists(g)
                                       /\ tokenGrant[grants[g].token] = g
  /\ \A r \in Request : Signing(r) =>
       /\ minted[calls[r].grant] = 0 /\ Exists(calls[r].grant)
       /\ tokenGrant[grants[calls[r].grant].token] = calls[r].grant
  /\ \A r, q \in Request :
       (Signing(r) /\ Signing(q) /\ calls[r].grant = calls[q].grant) => r = q

\* The two directions of the subject token reservation.
TokenInv ==
  /\ \A g \in Grant : Exists(g) => grants[g].token \in SubjectToken
  /\ \A t \in SubjectToken : tokenGrant[t] # None =>
       /\ grants[tokenGrant[t]].token = t
       /\ grants[tokenGrant[t]].status \notin {"absent", "proposed", "denied"}

UseInv ==
  \A g \in Grant :
    /\ uses[g] <= minted[g]
    /\ uses[g] > 0 => grants[g].status \in {"consumed", "revoked", "expired"}

KeyInv == \A g \in Grant : (Exists(g) /\ grants[g].key # None) => idempotency[grants[g].key] = g

\* Evidence and deliveries come with the end of a grant.
EvidenceInv ==
  \A g \in Grant :
    /\ evidence[g] # None <=> grants[g].status \in {"revoked", "expired"}
    /\ evidence[g] = None => Undelivered(g) = {}

GrantInv == HolderInv /\ MintInv /\ TokenInv /\ UseInv /\ KeyInv /\ EvidenceInv

IInv == BaseInv /\ GrantInv

LEMMA GrantInit == Init => GrantInv
<1> SUFFICES ASSUME Init PROVE GrantInv
  OBVIOUS
<1>1. /\ \A r \in Request : calls[r].at = "idle"
      /\ \A g \in Grant : grants[g].status = "absent" /\ minted[g] = 0 /\ uses[g] = 0
                           /\ evidence[g] = None /\ Undelivered(g) = {}
      /\ \A t \in SubjectToken : tokenGrant[t] = None
  BY DEF Init, Idle, NoGrant, Undelivered
<1> QED
  BY <1>1 DEF GrantInv, HolderInv, MintInv, TokenInv, UseInv, KeyInv, EvidenceInv, Signing, Exists

\* A step that writes no grant and takes its call to c.
LEMMA QuietStep ==
  ASSUME IInv, NEW r \in Request, NEW c \in CallRecord, calls' = [calls EXCEPT ![r] = c],
         UNCHANGED <<grants, tokenGrant, idempotency, evidence, deliveries, minted, uses>>,
         c.at \notin {"minting", "signing"},
         c.at = "reserving" => grants[c.grant].status = "proposed",
         c.at = "proving" => grants[c.grant].status = "approved",
         c.at \in {"consume", "proving", "completing"} => minted[c.grant] > 0,
         c.at = "delivering" => evidence[c.grant] # None
  PROVE  GrantInv'
<1>1. calls'[r] = c /\ \A q \in Request : q # r => calls'[q] = calls[q]
  BY DEF IInv, BaseInv, TypeOK
<1>2. HolderInv'
  BY <1>1 DEF IInv, GrantInv, HolderInv
<1>3. MintInv'
  BY <1>1 DEF IInv, GrantInv, MintInv, Signing, Exists
<1>4. TokenInv' /\ UseInv' /\ KeyInv' /\ EvidenceInv'
  BY DEF IInv, GrantInv, TokenInv, UseInv, KeyInv, EvidenceInv, Exists, Undelivered
<1> QED
  BY <1>2, <1>3, <1>4 DEF GrantInv

LEMMA QuietLeave ==
  ASSUME IInv, NEW r \in Request, LeaveLock(r)
  PROVE  GrantInv'
<1>1. Idle.at = "idle" /\ calls' = [calls EXCEPT ![r] = Idle]
      /\ UNCHANGED <<grants, tokenGrant, idempotency, evidence, deliveries, minted, uses>>
  BY DEF LeaveLock, Return, Idle, store, history
<1> QED
  BY <1>1, IdleIsCall, QuietStep

LEMMA QuietJoin ==
  ASSUME IInv, NEW r \in Request, NEW g \in Grant, NEW p \in Queued,
         NEW s \in CompletionSource \union {None}, NEW f \in FinalStatus \union {None},
         JoinLock(r, g, p, s, f),
         p = "consume" => minted[g] > 0
  PROVE  GrantInv'
<1> DEFINE c == [Idle EXCEPT !.at = p, !.grant = g, !.source = s, !.final = f]
<1>1. c \in CallRecord /\ c.at = p /\ c.grant = g
  BY DEF Idle, CallRecord, CallState
<1>2. calls' = [calls EXCEPT ![r] = c]
      /\ UNCHANGED <<grants, tokenGrant, idempotency, evidence, deliveries, minted, uses>>
  BY DEF JoinLock, store, history
<1> HIDE DEF c
<1> QED
  BY <1>1, <1>2, QuietStep DEF Queued

LEMMA QuietGo ==
  ASSUME IInv, NEW r \in Request, NEW q \in Holding, GoTo(r, q),
         UNCHANGED <<now, store, queue, history>>, q # "signing",
         q = "reserving" => grants[calls[r].grant].status = "proposed",
         q = "proving" => grants[calls[r].grant].status = "approved" /\ minted[calls[r].grant] > 0
  PROVE  GrantInv'
<1> DEFINE c == [calls[r] EXCEPT !.at = q]
<1>1. c \in CallRecord /\ c.at = q /\ c.grant = calls[r].grant
  BY DEF IInv, BaseInv, TypeOK, CallRecord, CallState, Holding
<1>2. calls' = [calls EXCEPT ![r] = c]
      /\ UNCHANGED <<grants, tokenGrant, idempotency, evidence, deliveries, minted, uses>>
  BY DEF GoTo, store, history, IInv, BaseInv, TypeOK
<1> HIDE DEF c
<1> QED
  BY <1>1, <1>2, QuietStep DEF Holding

\* A call that goes on to deliver what is left of an ended grant, or returns.
LEMMA QuietDeliver ==
  ASSUME IInv, NEW r \in Request, NEW g \in Grant, NEW left \in SUBSET Target,
         GoDeliver(r, g, left), evidence[g] # None,
         UNCHANGED <<grants, tokenGrant, idempotency, evidence, deliveries, minted, uses>>
  PROVE  GrantInv'
<1>1. PICK c : Leaves(r, g, c)
  BY DeliverLeaves
<1> QED
  BY <1>1, QuietStep DEF Leaves

\* Two calls inside locks of the same grant are the same call.
LEMMA OneHolder ==
  ASSUME BaseInv, NEW r \in Request, NEW q \in Request,
         queue[calls[r].grant] # <<>>, Head(queue[calls[r].grant]) = r,
         calls[q].at \in Holding, calls[q].grant = calls[r].grant
  PROVE  q = r
BY DEF BaseInv, LockInv

LEMMA CreateStep ==
  ASSUME IInv, NEW r \in Request, NEW g \in Grant, NEW d \in Decision, CreateGrant(r, g, d)
  PROVE  GrantInv'
<1> DEFINE k == calls[r].key
           t == calls[r].token
           c == IF d = "allow" THEN [Idle EXCEPT !.at = "minting", !.grant = g] ELSE Idle
           new == [status |-> FirstStatus(d), token |-> t, key |-> k,
                   expiresAt |-> now + calls[r].ttl,
                   approver |-> IF d = "allow" THEN "policy" ELSE None]
<1>1. /\ calls' = [calls EXCEPT ![r] = c] /\ UNCHANGED <<evidence, deliveries, minted, uses>>
      /\ grants' = [grants EXCEPT ![g] = new]
      /\ tokenGrant' = IF d = "allow" THEN [tokenGrant EXCEPT ![t] = g] ELSE tokenGrant
      /\ idempotency' = IF k # None THEN [idempotency EXCEPT ![k] = g] ELSE idempotency
      /\ ~Exists(g) /\ ~KnownKey(k) /\ (d = "allow" => Reservable(t, g))
  BY DEF CreateGrant, Return, history
<1>2. t \in SubjectToken /\ k \in IdempotencyKey \union {None}
  BY DEF CreateGrant, IInv, BaseInv, CallsInv, TypeOK, CallRecord
<1>3. /\ new.token = t /\ new.key = k /\ new.status = FirstStatus(d)
      /\ new.status \in {"approved", "denied", "proposed"}
      /\ (new.status = "approved" <=> d = "allow")
  BY DEF FirstStatus
<1>4. /\ c.at \in {"idle", "minting"}
      /\ c.at = "minting" <=> d = "allow"
      /\ c.at = "minting" => c.grant = g
  BY DEF Idle
<1> HIDE DEF c, new, k, t
<1>5. /\ calls'[r] = c /\ \A q \in Request : q # r => calls'[q] = calls[q]
      /\ grants'[g] = new /\ \A h \in Grant : h # g => grants'[h] = grants[h]
  BY <1>1 DEF IInv, BaseInv, TypeOK
<1>6. minted[g] = 0 /\ uses[g] = 0 /\ evidence[g] = None
  <2>1. minted[g] = 0 /\ uses[g] = 0
    BY <1>1 DEF IInv, BaseInv, TypeOK, GrantInv, MintInv, UseInv, Exists
  <2>2. evidence[g] = None
    BY <1>1 DEF IInv, GrantInv, EvidenceInv, Exists
  <2> QED
    BY <2>1, <2>2
<1>7. \A q \in Request : calls[q].at \notin {"idle", "resolving"} =>
        calls[q].grant \in Grant /\ calls[q].grant # g
  BY <1>1 DEF IInv, BaseInv, CallsInv
<1>8. HolderInv'
  <2> SUFFICES ASSUME NEW q \in Request
               PROVE  LET h == calls'[q].grant IN
                      /\ calls'[q].at = "reserving" => grants'[h].status = "proposed"
                      /\ calls'[q].at = "proving" => grants'[h].status = "approved"
                      /\ calls'[q].at \in {"consume", "proving", "completing"} => minted'[h] > 0
                      /\ calls'[q].at = "delivering" => evidence'[h] # None
    BY DEF HolderInv
  <2>1. CASE q = r
    BY <2>1, <1>4, <1>5
  <2>2. CASE q # r
    BY <2>2, <1>1, <1>5, <1>7 DEF IInv, GrantInv, HolderInv
  <2> QED
    BY <2>1, <2>2
<1>9. \A u \in SubjectToken : (tokenGrant[u] # None => tokenGrant'[u] = tokenGrant[u])
  BY <1>1, <1>2 DEF Reservable, IInv, BaseInv, TypeOK, GrantInv, TokenInv, Exists
<1>10. d = "allow" => tokenGrant'[t] = g /\ \A u \in SubjectToken : u # t => tokenGrant'[u] = tokenGrant[u]
  BY <1>1, <1>2 DEF IInv, BaseInv, TypeOK
<1>11. MintInv'
  <2>1. \A h \in Grant : minted'[h] <= 1
    BY <1>1 DEF IInv, GrantInv, MintInv
  <2>2. ASSUME NEW h \in Grant, minted'[h] > 0
        PROVE  grants'[h].token \in SubjectToken /\ Exists(h)' /\ tokenGrant'[grants'[h].token] = h
    <3>1. h # g /\ minted[h] > 0 /\ h # None
      BY <2>2, <1>1, <1>6, BrokerAssumption
    <3> QED
      BY <3>1, <1>5, <1>9 DEF IInv, GrantInv, MintInv, Exists
  <2>3. ASSUME NEW q \in Request, Signing(q)'
        PROVE  /\ minted'[calls'[q].grant] = 0 /\ grants'[calls'[q].grant].status # "absent"
               /\ tokenGrant'[grants'[calls'[q].grant].token] = calls'[q].grant
    <3>1. CASE q = r
      <4>1. calls'[q].grant = g /\ d = "allow"
        BY <2>3, <3>1, <1>4, <1>5 DEF Signing
      <4>2. minted'[g] = 0 /\ grants'[g].status # "absent" /\ tokenGrant'[grants'[g].token] = g
        BY <4>1, <1>1, <1>3, <1>5, <1>6, <1>10
      <4> QED
        BY <4>1, <4>2 DEF Exists
    <3>2. CASE q # r
      <4>1. Signing(q) /\ calls[q].grant \in Grant /\ calls[q].grant # g /\ calls'[q] = calls[q]
        BY <2>3, <3>2, <1>5, <1>7 DEF Signing
      <4>2. calls[q].grant # None /\ grants[calls[q].grant].token \in SubjectToken
            /\ tokenGrant[grants[calls[q].grant].token] = calls[q].grant
            /\ minted[calls[q].grant] = 0 /\ Exists(calls[q].grant)
        BY <4>1, BrokerAssumption DEF IInv, GrantInv, MintInv, TokenInv
      <4>3. grants'[calls[q].grant] = grants[calls[q].grant]
            /\ tokenGrant'[grants[calls[q].grant].token] = calls[q].grant
            /\ minted'[calls[q].grant] = 0
        BY <4>1, <4>2, <1>1, <1>5, <1>9
      <4> QED
        BY <4>1, <4>2, <4>3 DEF Exists
    <3> QED
      BY <3>1, <3>2
  <2>4. ASSUME NEW q \in Request, NEW p \in Request, Signing(q)', Signing(p)',
               calls'[q].grant = calls'[p].grant
        PROVE  q = p
    BY <2>4, <1>4, <1>5, <1>7 DEF Signing, IInv, GrantInv, MintInv
  <2> QED
    BY <2>1, <2>2, <2>3, <2>4 DEF MintInv, Exists
<1>12. TokenInv'
  <2>1. ASSUME NEW h \in Grant, Exists(h)' PROVE grants'[h].token \in SubjectToken
    BY <2>1, <1>2, <1>3, <1>5 DEF IInv, GrantInv, TokenInv, Exists
  <2>2. ASSUME NEW u \in SubjectToken, tokenGrant'[u] # None
        PROVE  /\ grants'[tokenGrant'[u]].token = u
               /\ grants'[tokenGrant'[u]].status \notin {"absent", "proposed", "denied"}
    <3>1. CASE d = "allow" /\ u = t
      BY <3>1, <1>3, <1>5, <1>10
    <3>2. CASE ~(d = "allow" /\ u = t)
      <4>1. tokenGrant'[u] = tokenGrant[u] /\ tokenGrant[u] \in Grant
        BY <3>2, <2>2, <1>1, <1>10 DEF IInv, BaseInv, TypeOK
      <4>2. tokenGrant[u] # g
        BY <4>1, <2>2, <1>1 DEF IInv, GrantInv, TokenInv, Exists
      <4> QED
        BY <4>1, <4>2, <2>2, <1>5 DEF IInv, GrantInv, TokenInv
    <3> QED
      BY <3>1, <3>2
  <2> QED
    BY <2>1, <2>2 DEF TokenInv
<1>13. UseInv' /\ EvidenceInv'
  BY <1>1, <1>3, <1>5, <1>6 DEF IInv, GrantInv, UseInv, EvidenceInv, BaseInv, TypeOK, Undelivered
<1>14. KeyInv'
  <2> SUFFICES ASSUME NEW h \in Grant, Exists(h)', grants'[h].key # None
               PROVE  idempotency'[grants'[h].key] = h
    BY DEF KeyInv
  <2>1. CASE h = g
    BY <2>1, <1>1, <1>2, <1>3, <1>5 DEF IInv, BaseInv, TypeOK
  <2>2. CASE h # g
    <3>1. idempotency[grants[h].key] = h /\ grants[h].key \in IdempotencyKey /\ h # None
      BY <2>2, <1>5, BrokerAssumption DEF IInv, GrantInv, KeyInv, Exists, BaseInv, TypeOK, GrantRecord
    <3>2. k # None => grants[h].key # k
      BY <3>1, <1>1 DEF KnownKey
    <3> QED
      BY <2>2, <3>1, <3>2, <1>1, <1>2, <1>5 DEF IInv, BaseInv, TypeOK
  <2> QED
    BY <2>1, <2>2
<1> QED
  BY <1>8, <1>11, <1>12, <1>13, <1>14 DEF GrantInv

\* The call that signed a credential hands it out; nobody else signs for that grant.
LEMMA MintStep ==
  ASSUME IInv, NEW r \in Request, Signing(r), calls' = [calls EXCEPT ![r] = Idle],
         minted' = [minted EXCEPT ![calls[r].grant] = @ + 1],
         UNCHANGED <<grants, tokenGrant, idempotency, evidence, deliveries, uses>>
  PROVE  GrantInv'
<1> DEFINE g == calls[r].grant
<1>1. g \in Grant /\ Exists(g) /\ minted[g] = 0 /\ tokenGrant[grants[g].token] = g
  BY DEF Signing, IInv, BaseInv, CallsInv, GrantInv, MintInv
<1>2. /\ calls'[r].at = "idle" /\ \A q \in Request : q # r => calls'[q] = calls[q]
      /\ minted'[g] = 1 /\ \A h \in Grant : h # g => minted'[h] = minted[h]
  BY <1>1 DEF IInv, BaseInv, TypeOK, Idle
<1> HIDE DEF g
<1>3. HolderInv'
  <2> SUFFICES ASSUME NEW q \in Request, q # r,
                      calls[q].at \in {"consume", "proving", "completing"}
               PROVE  minted'[calls[q].grant] > 0
    BY <1>2 DEF HolderInv, IInv, GrantInv
  <2>1. calls[q].grant \in Grant /\ minted[calls[q].grant] > 0
    BY DEF IInv, BaseInv, CallsInv, GrantInv, HolderInv
  <2> QED
    BY <2>1, <1>2
<1>4. MintInv'
  <2>1. \A h \in Grant : minted'[h] <= 1
    BY <1>2 DEF IInv, GrantInv, MintInv
  <2>2. \A h \in Grant : minted'[h] > 0 =>
          grants[h].token \in SubjectToken /\ Exists(h) /\ tokenGrant[grants[h].token] = h
    BY <1>1, <1>2 DEF IInv, GrantInv, MintInv, TokenInv
  <2>3. ASSUME NEW q \in Request, Signing(q)'
        PROVE  q # r /\ Signing(q) /\ calls'[q] = calls[q] /\ minted'[calls[q].grant] = 0
    <3>1. q # r /\ Signing(q) /\ calls'[q] = calls[q]
      BY <2>3, <1>2 DEF Signing
    <3>2. calls[q].grant # g /\ calls[q].grant \in Grant /\ minted[calls[q].grant] = 0
      BY <3>1 DEF g, Signing, IInv, BaseInv, CallsInv, GrantInv, MintInv
    <3> QED
      BY <3>1, <3>2, <1>2
  <2> QED
    BY <2>1, <2>2, <2>3 DEF MintInv, Exists, IInv, GrantInv
<1>5. TokenInv' /\ KeyInv' /\ EvidenceInv'
  BY DEF IInv, GrantInv, TokenInv, KeyInv, EvidenceInv, Exists, Undelivered
<1>6. UseInv'
  <2> SUFFICES ASSUME NEW h \in Grant PROVE uses[h] <= minted'[h]
    BY DEF UseInv, IInv, GrantInv
  <2>1. minted[h] \in Nat /\ uses[h] \in Nat /\ uses[h] <= minted[h]
    BY DEF IInv, BaseInv, TypeOK, GrantInv, UseInv
  <2>2. CASE h = g
    BY <2>1, <2>2, <1>1, <1>2
  <2>3. CASE h # g
    BY <2>1, <2>3, <1>2
  <2> QED
    BY <2>2, <2>3
<1> QED
  BY <1>3, <1>4, <1>5, <1>6 DEF GrantInv

LEMMA ReserveStep ==
  ASSUME IInv, NEW r \in Request, ApproveReserves(r)
  PROVE  GrantInv'
<1> DEFINE g == calls[r].grant
           t == grants[g].token
           c == [calls[r] EXCEPT !.at = "signing"]
           new == [grants[g] EXCEPT !.status = "approved", !.approver = "approved"]
<1>1. g \in Grant /\ Exists(g) /\ queue[g] # <<>> /\ Head(queue[g]) = r
      /\ grants[g].status = "proposed" /\ t \in SubjectToken
  BY TurnIsHead DEF ApproveReserves, Holding, IInv, GrantInv, HolderInv, TokenInv
<1>2. /\ calls' = [calls EXCEPT ![r] = c]
      /\ grants' = [grants EXCEPT ![g] = new]
      /\ tokenGrant' = [tokenGrant EXCEPT ![t] = g]
      /\ UNCHANGED <<idempotency, evidence, deliveries, minted, uses>>
      /\ Reservable(t, g)
  BY DEF ApproveReserves, GoTo, history, IInv, BaseInv, TypeOK
<1>3. c.at = "signing" /\ c.grant = g
  BY DEF IInv, BaseInv, TypeOK, CallRecord
<1>4. new.status = "approved" /\ new.token = t /\ new.key = grants[g].key
  BY <1>1 DEF IInv, BaseInv, TypeOK, GrantRecord
<1>5. /\ calls'[r] = c /\ \A q \in Request : q # r => calls'[q] = calls[q]
      /\ grants'[g] = new /\ \A h \in Grant : h # g => grants'[h] = grants[h]
      /\ tokenGrant'[t] = g /\ \A u \in SubjectToken : u # t => tokenGrant'[u] = tokenGrant[u]
  BY <1>1, <1>2 DEF IInv, BaseInv, TypeOK
<1> HIDE DEF c, new, g, t
<1>6. /\ minted[g] = 0 /\ uses[g] = 0 /\ evidence[g] = None
      /\ \A q \in Request : Signing(q) => calls[q].grant # g
      /\ tokenGrant[t] = None
  <2>1. tokenGrant[t] = None
    BY <1>1, <1>2 DEF Reservable, IInv, GrantInv, TokenInv
  <2>2. g # None
    BY <1>1, BrokerAssumption
  <2>3. minted[g] = 0
    BY <1>1, <2>1, <2>2 DEF t, IInv, GrantInv, MintInv, BaseInv, TypeOK
  <2>4. uses[g] = 0
    BY <1>1, <2>3 DEF IInv, GrantInv, UseInv, BaseInv, TypeOK
  <2>6. evidence[g] = None
    BY <1>1 DEF IInv, GrantInv, EvidenceInv
  <2>5. \A q \in Request : Signing(q) => calls[q].grant # g
    BY <2>1, <2>2 DEF t, IInv, GrantInv, MintInv
  <2> QED
    BY <2>1, <2>3, <2>4, <2>5, <2>6
<1>7. \A q \in Request : q # r /\ calls[q].at \in Holding =>
        calls[q].grant # g /\ calls[q].grant \in Grant
  BY <1>1 DEF g, IInv, BaseInv, LockInv, CallsInv, Holding
<1>8. HolderInv'
  <2> SUFFICES ASSUME NEW q \in Request
               PROVE  LET h == calls'[q].grant IN
                      /\ calls'[q].at = "reserving" => grants'[h].status = "proposed"
                      /\ calls'[q].at = "proving" => grants'[h].status = "approved"
                      /\ calls'[q].at \in {"consume", "proving", "completing"} => minted'[h] > 0
                      /\ calls'[q].at = "delivering" => evidence'[h] # None
    BY DEF HolderInv
  <2>1. CASE q = r
    BY <2>1, <1>3, <1>5
  <2>2. CASE q # r
    BY <2>2, <1>2, <1>5, <1>7 DEF Holding, IInv, GrantInv, HolderInv
  <2> QED
    BY <2>1, <2>2
<1>9. ASSUME NEW u \in SubjectToken, tokenGrant[u] # None PROVE tokenGrant'[u] = tokenGrant[u]
  <2>1. u # t
    BY <1>6, <1>9
  <2> QED
    BY <2>1, <1>5
<1>10. MintInv'
  <2>1. \A h \in Grant : minted'[h] <= 1
    BY <1>2 DEF IInv, GrantInv, MintInv
  <2>2. ASSUME NEW h \in Grant, minted'[h] > 0
        PROVE  grants'[h].token \in SubjectToken /\ Exists(h)' /\ tokenGrant'[grants'[h].token] = h
    <3>1. h # g /\ minted[h] > 0 /\ h # None
      BY <2>2, <1>2, <1>6, BrokerAssumption
    <3> QED
      BY <3>1, <1>5, <1>9 DEF IInv, GrantInv, MintInv, Exists
  <2>3. ASSUME NEW q \in Request, Signing(q)'
        PROVE  /\ minted'[calls'[q].grant] = 0 /\ grants'[calls'[q].grant].status # "absent"
               /\ tokenGrant'[grants'[calls'[q].grant].token] = calls'[q].grant
    <3>1. CASE q = r
      BY <3>1, <1>2, <1>3, <1>4, <1>5, <1>6
    <3>2. CASE q # r
      <4>1. Signing(q) /\ calls[q].grant \in Grant /\ calls[q].grant # g /\ calls'[q] = calls[q]
        BY <2>3, <3>2, <1>5, <1>6 DEF Signing, IInv, BaseInv, CallsInv
      <4>2. calls[q].grant # None /\ grants[calls[q].grant].token \in SubjectToken
            /\ tokenGrant[grants[calls[q].grant].token] = calls[q].grant
            /\ minted[calls[q].grant] = 0 /\ grants[calls[q].grant].status # "absent"
        BY <4>1, BrokerAssumption DEF IInv, GrantInv, MintInv, TokenInv, Exists
      <4> QED
        BY <4>1, <4>2, <1>2, <1>5, <1>9
    <3> QED
      BY <3>1, <3>2
  <2>4. ASSUME NEW q \in Request, NEW p \in Request, Signing(q)', Signing(p)',
               calls'[q].grant = calls'[p].grant
        PROVE  q = p
    BY <2>4, <1>3, <1>5, <1>6 DEF Signing, IInv, GrantInv, MintInv
  <2> QED
    BY <2>1, <2>2, <2>3, <2>4 DEF MintInv, Exists
<1>11. TokenInv'
  <2>1. ASSUME NEW h \in Grant, Exists(h)' PROVE grants'[h].token \in SubjectToken
    BY <2>1, <1>1, <1>4, <1>5 DEF IInv, GrantInv, TokenInv, Exists
  <2>2. ASSUME NEW u \in SubjectToken, tokenGrant'[u] # None
        PROVE  /\ grants'[tokenGrant'[u]].token = u
               /\ grants'[tokenGrant'[u]].status \notin {"absent", "proposed", "denied"}
    <3>1. CASE u = t
      BY <3>1, <1>4, <1>5
    <3>2. CASE u # t
      <4>1. tokenGrant'[u] = tokenGrant[u] /\ tokenGrant[u] \in Grant /\ tokenGrant[u] # g
        BY <3>2, <2>2, <1>1, <1>5 DEF IInv, BaseInv, TypeOK, GrantInv, TokenInv
      <4> QED
        BY <4>1, <2>2, <1>5 DEF IInv, GrantInv, TokenInv
    <3> QED
      BY <3>1, <3>2
  <2> QED
    BY <2>1, <2>2 DEF TokenInv
<1>12. UseInv' /\ EvidenceInv'
  BY <1>2, <1>4, <1>5, <1>6 DEF IInv, GrantInv, UseInv, EvidenceInv, BaseInv, TypeOK, Undelivered
<1>13. KeyInv'
  BY <1>1, <1>2, <1>4, <1>5 DEF IInv, GrantInv, KeyInv, Exists
<1> QED
  BY <1>8, <1>10, <1>11, <1>12, <1>13 DEF GrantInv

\* The holder of a lock ends in status s: consumed from approved, or final.
LEMMA WriteStep ==
  ASSUME IInv, NEW r \in Request, NEW s \in {"consumed", "revoked", "expired"},
         calls[r].grant \in Grant, Exists(calls[r].grant), queue[calls[r].grant] # <<>>,
         Head(queue[calls[r].grant]) = r, ~Signing(r), NEW c, Leaves(r, calls[r].grant, c),
         c.at = "delivering" => evidence'[calls[r].grant] # None,
         \A h \in Grant : evidence[h] # None => evidence'[h] # None,
         grants' = [grants EXCEPT ![calls[r].grant].status = s],
         UNCHANGED <<tokenGrant, idempotency, minted>>,
         UseInv', EvidenceInv'
  PROVE  GrantInv'
<1> DEFINE g == calls[r].grant
           new == [grants[g] EXCEPT !.status = s]
<1>1. new.status = s /\ new.token = grants[g].token /\ new.key = grants[g].key
  BY DEF IInv, BaseInv, TypeOK, GrantRecord
<1>2. /\ calls'[r].at \in {"idle", "delivering"}
      /\ calls'[r].at = "delivering" => evidence'[calls'[r].grant] # None
      /\ \A q \in Request : q # r => calls'[q] = calls[q]
      /\ grants'[g] = new /\ \A h \in Grant : h # g => grants'[h] = grants[h]
  BY DEF Leaves, IInv, BaseInv, TypeOK
<1>3. \A q \in Request : q # r /\ calls[q].at \in Holding =>
        calls[q].grant # g /\ calls[q].grant \in Grant
  BY DEF IInv, BaseInv, LockInv, CallsInv, Holding
<1> HIDE DEF new, g
<1>4. HolderInv'
  <2> SUFFICES ASSUME NEW q \in Request
               PROVE  LET h == calls'[q].grant IN
                      /\ calls'[q].at = "reserving" => grants'[h].status = "proposed"
                      /\ calls'[q].at = "proving" => grants'[h].status = "approved"
                      /\ calls'[q].at \in {"consume", "proving", "completing"} => minted'[h] > 0
                      /\ calls'[q].at = "delivering" => evidence'[h] # None
    BY DEF HolderInv
  <2>1. CASE q = r
    BY <2>1, <1>2
  <2>2. CASE q # r
    <3>1. calls'[q] = calls[q]
      BY <2>2, <1>2
    <3>2. calls[q].at \in {"reserving", "proving"} =>
            grants'[calls[q].grant] = grants[calls[q].grant]
      BY <2>2, <1>2, <1>3 DEF Holding
    <3>3. calls[q].at = "delivering" => evidence'[calls[q].grant] # None
      BY DEF IInv, BaseInv, CallsInv, GrantInv, HolderInv
    <3> QED
      BY <3>1, <3>2, <3>3 DEF IInv, GrantInv, HolderInv
  <2> QED
    BY <2>1, <2>2
<1>5. \A h \in Grant : /\ grants'[h].token = grants[h].token
                       /\ grants'[h].key = grants[h].key
                       /\ Exists(h) <=> grants'[h].status # "absent"
                       /\ grants'[h].status \in {"proposed", "denied"} => grants'[h] = grants[h]
  BY <1>1, <1>2 DEF g, Exists
<1>6. MintInv'
  <2>1. ASSUME NEW q \in Request, Signing(q)'
        PROVE  q # r /\ Signing(q) /\ calls'[q] = calls[q] /\ calls[q].grant \in Grant
    BY <2>1, <1>2 DEF Signing, IInv, BaseInv, CallsInv
  <2> QED
    BY <2>1, <1>5 DEF MintInv, IInv, GrantInv, Exists
<1>7. TokenInv'
  <2>1. \A u \in SubjectToken : tokenGrant[u] # None => tokenGrant[u] \in Grant
    BY DEF IInv, BaseInv, TypeOK
  <2> QED
    BY <2>1, <1>1, <1>2, <1>5 DEF IInv, GrantInv, TokenInv, Exists
<1>8. KeyInv'
  BY <1>5 DEF IInv, GrantInv, KeyInv, Exists
<1> QED
  BY <1>4, <1>6, <1>7, <1>8 DEF GrantInv

LEMMA ConsumeStep ==
  ASSUME IInv, NEW r \in Request, ConsumeSucceeds(r)
  PROVE  GrantInv'
<1> DEFINE g == calls[r].grant
<1>1. g \in Grant /\ Exists(g) /\ queue[g] # <<>> /\ Head(queue[g]) = r
  BY TurnIsHead DEF ConsumeSucceeds, Holding, IInv
<1>2. /\ Return(r) /\ grants' = [grants EXCEPT ![g].status = "consumed"]
      /\ uses' = [uses EXCEPT ![g] = @ + 1]
      /\ UNCHANGED <<tokenGrant, idempotency, evidence, deliveries, minted>>
      /\ grants[g].status = "approved" /\ minted[g] > 0 /\ ~Signing(r)
  BY DEF ConsumeSucceeds, Signing, IInv, GrantInv, HolderInv
<1> HIDE DEF g
<1>3. /\ grants'[g].status = "consumed" /\ uses'[g] = uses[g] + 1
      /\ \A h \in Grant : h # g => grants'[h] = grants[h] /\ uses'[h] = uses[h]
  BY <1>1, <1>2 DEF IInv, BaseInv, TypeOK, GrantRecord
<1>4. UseInv'
  <2> SUFFICES ASSUME NEW h \in Grant
               PROVE  /\ uses'[h] <= minted[h]
                      /\ uses'[h] > 0 => grants'[h].status \in {"consumed", "revoked", "expired"}
    BY <1>2 DEF UseInv
  <2>1. CASE h # g
    BY <2>1, <1>3 DEF IInv, GrantInv, UseInv
  <2>2. CASE h = g
    <3>1. uses[g] \in Nat /\ minted[g] \in Nat
      BY <1>1 DEF IInv, BaseInv, TypeOK
    <3>2. ~(uses[g] > 0)
      BY <1>1, <1>2 DEF IInv, GrantInv, UseInv
    <3> QED
      BY <2>2, <3>1, <3>2, <1>2, <1>3
  <2> QED
    BY <2>1, <2>2
<1>5. EvidenceInv'
  BY <1>1, <1>2, <1>3 DEF IInv, GrantInv, EvidenceInv, Undelivered
<1>6. Leaves(r, g, Idle) /\ Idle.at = "idle"
  BY <1>2, ReturnLeaves DEF Idle
<1> QED
  BY <1>1, <1>2, <1>4, <1>5, <1>6, WriteStep DEF g

LEMMA FinalizeStep ==
  ASSUME IInv, NEW r \in Request, Finalize(r), TypeOK'
  PROVE  GrantInv'
<1> DEFINE g == calls[r].grant
           s == calls[r].final
           ds == [x \in Target |-> "pending"]
           ev == [source |-> calls[r].source, approver |-> grants[g].approver,
                  timeline |-> audits'[g], deliveries |-> ds]
<1>1. /\ g \in Grant /\ Exists(g) /\ queue[g] # <<>> /\ Head(queue[g]) = r
      /\ calls[r].at = "finalize" /\ s \in {"revoked", "expired"}
  BY TurnIsHead DEF Finalize, HasTurn, Queued, IInv, BaseInv, CallsInv, FinalStatus
<1>2. /\ GoDeliver(r, g, Target) /\ grants' = [grants EXCEPT ![g].status = s]
      /\ evidence' = [evidence EXCEPT ![g] = ev]
      /\ deliveries' = [deliveries EXCEPT ![g] = ds]
      /\ UNCHANGED <<tokenGrant, idempotency, minted, uses>> /\ ~Signing(r)
  BY <1>1 DEF Finalize, Signing, history
<1>3. ev # None
  <2>1. calls[r].source \in CompletionSource /\ grants[g] \in GrantRecord
    BY <1>1 DEF IInv, BaseInv, CallsInv, TypeOK
  <2>2. audits'[g] \in Seq(AuditType)
    BY <1>1 DEF TypeOK
  <2>3. grants[g].approver \in {None, "policy", "approved"}
    BY <2>1 DEF GrantRecord
  <2>4. ds \in [Target -> DeliveryStatus]
    BY DEF DeliveryStatus
  <2>5. ev \in EvidenceRecord
    <3> HIDE DEF ds
    <3> QED
      BY <2>1, <2>2, <2>3, <2>4 DEF EvidenceRecord
  <2> QED
    BY <2>5, NoneIsNoEvidence
<1>7. PICK c : Leaves(r, g, c)
  BY <1>1, <1>2, DeliverLeaves
<1> HIDE DEF g, ev, s, ds
<1>4. /\ grants'[g].status = s /\ evidence'[g] = ev
      /\ \A h \in Grant : h # g =>
           grants'[h] = grants[h] /\ evidence'[h] = evidence[h] /\ deliveries'[h] = deliveries[h]
  BY <1>1, <1>2 DEF IInv, BaseInv, TypeOK, GrantRecord
<1>5. UseInv'
  BY <1>1, <1>2, <1>4 DEF IInv, GrantInv, UseInv
<1>6. EvidenceInv' /\ \A h \in Grant : evidence[h] # None => evidence'[h] # None
  BY <1>1, <1>3, <1>4 DEF IInv, GrantInv, EvidenceInv, Undelivered
<1>8. evidence'[g] # None
  BY <1>3, <1>4
<1> QED
  BY <1>1, <1>2, <1>5, <1>6, <1>7, <1>8, WriteStep DEF g

\* An attempt to deliver writes the evidence of an ended grant, and leaves it there.
LEMMA DeliverStep ==
  ASSUME IInv, NEW r \in Request, NEW x \in Target, NEW o \in {"delivered", "failed"},
         Deliver(r, x, o)
  PROVE  GrantInv'
<1>1. evidence[calls[r].grant] # None /\ calls[r].at = "delivering"
  BY DEF Deliver, IInv, GrantInv, HolderInv
<1>2. PICK g \in Grant, ds \in [Target -> DeliveryStatus] : Attempted(r, x, o, g, ds)
  BY <1>1, DeliverWrites DEF IInv
<1>3. PICK c : Leaves(r, g, c)
  <2>1. calls[r].left \ {x} \in SUBSET Target
    BY DEF IInv, BaseInv, TypeOK, CallRecord
  <2>2. GoDeliver(r, g, calls[r].left \ {x})
    BY <1>2 DEF Deliver, Attempted
  <2> QED
    BY <2>1, <2>2, DeliverLeaves
<1>4. /\ UNCHANGED <<grants, tokenGrant, idempotency, minted, uses>>
      /\ calls'[r] = c /\ \A q \in Request : q # r => calls'[q] = calls[q]
      /\ c.at \in {"idle", "delivering"} /\ (c.at = "delivering" => c.grant = g)
  BY <1>3 DEF Deliver, Leaves, history, IInv, BaseInv, TypeOK
<1>5. /\ evidence[g] # None /\ evidence'[g] # None
      /\ \A h \in Grant : h # g => evidence'[h] = evidence[h] /\ deliveries'[h] = deliveries[h]
  <2>1. evidence'[g] = [evidence[g] EXCEPT !.deliveries = ds]
        /\ \A h \in Grant : h # g => evidence'[h] = evidence[h] /\ deliveries'[h] = deliveries[h]
    BY <1>2 DEF Attempted, IInv, BaseInv, TypeOK
  <2>2. evidence[g] \in EvidenceRecord
    BY <1>2 DEF Attempted
  <2> QED
    BY <2>1, <2>2, Refreshed, NoneIsNoEvidence
<1>6. HolderInv'
  <2>1. \A h \in Grant : evidence[h] # None => evidence'[h] # None
    BY <1>5
  <2> SUFFICES ASSUME NEW q \in Request
               PROVE  LET h == calls'[q].grant IN
                      /\ calls'[q].at = "reserving" => grants'[h].status = "proposed"
                      /\ calls'[q].at = "proving" => grants'[h].status = "approved"
                      /\ calls'[q].at \in {"consume", "proving", "completing"} => minted'[h] > 0
                      /\ calls'[q].at = "delivering" => evidence'[h] # None
    BY DEF HolderInv
  <2>2. CASE q = r
    BY <2>2, <1>4, <1>5
  <2>3. CASE q # r
    <3>1. calls[q].at = "delivering" => evidence'[calls[q].grant] # None
      BY <2>1 DEF IInv, BaseInv, CallsInv, GrantInv, HolderInv
    <3> QED
      BY <2>3, <3>1, <1>4 DEF IInv, GrantInv, HolderInv
  <2> QED
    BY <2>2, <2>3
<1>7. MintInv'
  BY <1>4 DEF IInv, GrantInv, MintInv, Signing, Exists
<1>8. TokenInv' /\ UseInv' /\ KeyInv'
  BY <1>4 DEF IInv, GrantInv, TokenInv, UseInv, KeyInv, Exists
<1>9. EvidenceInv'
  BY <1>4, <1>5 DEF IInv, GrantInv, EvidenceInv, Undelivered
<1> QED
  BY <1>6, <1>7, <1>8, <1>9 DEF GrantInv

LEMMA InvInit == Init => IInv
BY BaseInit, GrantInit DEF IInv

\* Actions that start a call or end it without writing a grant.
LEMMA QuietActions ==
  ASSUME IInv, NEW r \in Request,
         \/ StartExchange(r)
         \/ ExchangeEndsEarly(r) \/ ExchangeMintFails(r)
         \/ \E g \in Grant : \/ StartApprove(r, g) \/ StartConsume(r, g)
                            \/ StartComplete(r, g)
                            \/ StartRevoke(r, g) \/ StartExpire(r, g)
                            \/ StartRetry(r, g)
         \/ ApproveRefused(r) \/ ApproveTokenTaken(r) \/ ApproveMintFails(r)
         \/ ConsumeRefused(r) \/ ConsumeProofInvalid(r)
         \/ CompleteProofInvalid(r) \/ CompleteProved(r)
         \/ FinalizeRefused(r) \/ FinalizeRepeats(r)
         \/ ApproveChecked(r) \/ ConsumeChecked(r)
  PROVE  GrantInv'
<1>1. CASE StartExchange(r)
  <2>1. PICK t \in SubjectToken, k \in IdempotencyKey \union {None}, ttl \in Ttl :
          calls' = [calls EXCEPT ![r] =
            [Idle EXCEPT !.at = "resolving", !.token = t, !.key = k, !.ttl = ttl]]
    BY <1>1 DEF StartExchange
  <2> DEFINE c == [Idle EXCEPT !.at = "resolving", !.token = t, !.key = k, !.ttl = ttl]
  <2>2. c \in CallRecord /\ c.at = "resolving"
    BY BrokerAssumption DEF CallRecord, CallState, Idle
  <2>3. UNCHANGED <<grants, tokenGrant, idempotency, evidence, deliveries, minted, uses>>
    BY <1>1 DEF StartExchange, store, history
  <2> HIDE DEF c
  <2>4. calls' = [calls EXCEPT ![r] = c]
    BY <2>1 DEF c
  <2> QED
    BY <2>2, <2>3, <2>4, QuietStep
<1>2. CASE ExchangeEndsEarly(r) \/ ExchangeMintFails(r) \/ CompleteProofInvalid(r)
  <2>1. UNCHANGED <<grants, tokenGrant, idempotency, evidence, deliveries, minted, uses>>
        /\ calls' = [calls EXCEPT ![r] = Idle] /\ Idle.at = "idle"
    BY <1>2 DEF ExchangeEndsEarly, ExchangeMintFails, CompleteProofInvalid, Return, Idle,
                store, history
  <2> QED
    BY <2>1, IdleIsCall, QuietStep
<1>3. ASSUME NEW g \in Grant,
             StartApprove(r, g) \/ StartConsume(r, g) \/ StartRevoke(r, g) \/ StartExpire(r, g)
      PROVE  GrantInv'
  <2>1. {"approve", "consume", "finalize"} \subseteq Queued
        /\ "ttl" \in CompletionSource /\ {"revoked", "expired"} \subseteq FinalStatus
        /\ \A source \in ApiSource : source \in CompletionSource
    BY ApiSourceAssumption DEF Queued, CompletionSource, FinalStatus
  <2>2. \/ JoinLock(r, g, "approve", None, None)
        \/ JoinLock(r, g, "consume", None, None) /\ minted[g] > 0
        \/ \E source \in CompletionSource, final \in FinalStatus :
             JoinLock(r, g, "finalize", source, final)
    BY <1>3, <2>1 DEF StartApprove, StartConsume, StartRevoke, StartExpire
  <2> QED
    BY <2>1, <2>2, QuietJoin
<1>4. ASSUME NEW g \in Grant, StartComplete(r, g) PROVE GrantInv'
  <2> DEFINE c == [Idle EXCEPT !.at = "completing", !.grant = g]
  <2>1. c \in CallRecord /\ c.at = "completing" /\ c.grant = g
    BY DEF CallRecord, CallState, Idle
  <2>2. calls' = [calls EXCEPT ![r] = c] /\ minted[g] > 0
        /\ UNCHANGED <<grants, tokenGrant, idempotency, evidence, deliveries, minted, uses>>
    BY <1>4 DEF StartComplete, store, history
  <2> HIDE DEF c
  <2> QED
    BY <2>1, <2>2, QuietStep
<1>5. CASE CompleteProved(r)
  <2>1. "finalize" \in Queued /\ "agent" \in CompletionSource /\ "revoked" \in FinalStatus
    BY DEF Queued, CompletionSource, FinalStatus
  <2>2. calls[r].grant \in Grant
    BY <1>5 DEF CompleteProved, IInv, BaseInv, CallsInv
  <2> QED
    BY <1>5, <2>1, <2>2, QuietJoin DEF CompleteProved
<1>6. CASE \/ ApproveRefused(r) \/ ApproveTokenTaken(r) \/ ConsumeRefused(r)
           \/ ConsumeProofInvalid(r) \/ FinalizeRefused(r) \/ ApproveMintFails(r)
  BY <1>6, QuietLeave
  DEF ApproveRefused, ApproveTokenTaken, ApproveMintFails, ConsumeRefused,
      ConsumeProofInvalid, FinalizeRefused
<1>7. CASE ApproveChecked(r)
  BY <1>7, QuietGo DEF ApproveChecked, Approvable, Holding
<1>8. CASE ConsumeChecked(r)
  BY <1>8, QuietGo DEF ConsumeChecked, Consumable, HasTurn, Holding, IInv, GrantInv, HolderInv
<1>9. ASSUME NEW g \in Grant, StartRetry(r, g) PROVE GrantInv'
  <2>1. PICK due \in SUBSET Undelivered(g) : due # {} /\ GoDeliver(r, g, due)
    BY <1>9 DEF StartRetry
  <2>2. evidence[g] # None /\ due \in SUBSET Target
    BY <2>1 DEF IInv, GrantInv, EvidenceInv, Undelivered
  <2>3. UNCHANGED <<grants, tokenGrant, idempotency, evidence, deliveries, minted, uses>>
    BY <1>9 DEF StartRetry, store, history
  <2> QED
    BY <2>1, <2>2, <2>3, QuietDeliver
<1>10. CASE FinalizeRepeats(r)
  <2>1. /\ GoDeliver(r, calls[r].grant, Undelivered(calls[r].grant))
        /\ evidence[calls[r].grant] # None /\ calls[r].grant \in Grant
        /\ UNCHANGED <<grants, tokenGrant, idempotency, evidence, deliveries, minted, uses>>
    BY <1>10, TurnIsHead DEF FinalizeRepeats, Queued, IInv, store, history
  <2>2. Undelivered(calls[r].grant) \in SUBSET Target
    BY DEF Undelivered
  <2> QED
    BY <2>1, <2>2, QuietDeliver
<1> QED
  BY <1>1, <1>2, <1>3, <1>4, <1>5, <1>6, <1>7, <1>8, <1>9, <1>10

LEMMA InvStep ==
  ASSUME IInv, [Next]_vars
  PROVE  IInv'
<1>1. /\ BaseInv
      /\ \A g \in Grant : minted[g] > 0 => Exists(g)
      /\ \A g \in Grant : Undelivered(g) # {} => Exists(g)
      /\ \A r \in Request : calls[r].at = "delivering" => evidence[calls[r].grant] # None
  BY DEF IInv, GrantInv, MintInv, HolderInv, EvidenceInv, Exists
<1>2. CASE UNCHANGED vars \/ Tick
  <2>1. UNCHANGED <<grants, tokenGrant, idempotency, audits, evidence, deliveries, queue, calls, minted, uses>>
    BY <1>2 DEF vars, Tick, store, history
  <2>2. now' \in 0..MaxTime
    BY <1>2, BrokerAssumption DEF vars, Tick, IInv, BaseInv, TypeOK
  <2>3. BaseInv'
    BY <2>1, <2>2 DEF IInv, BaseInv, TypeOK, CallsInv, LockInv, Exists
  <2>4. GrantInv'
    BY <2>1 DEF IInv, GrantInv, HolderInv, MintInv, TokenInv, UseInv, KeyInv, EvidenceInv,
                Signing, Exists, Undelivered
  <2> QED
    BY <2>3, <2>4 DEF IInv
<1>3. ASSUME NEW r \in Request, Start(r) \/ Advance(r) PROVE IInv'
  <2>1. BaseInv'
    <3>1. CASE \/ \E g \in Grant : StartRetry(r, g)
               \/ \E x \in Target, o \in {"delivered", "failed"} : Deliver(r, x, o)
      BY <1>1, <3>1, BaseDeliver
    <3> QED
      BY <1>1, <1>3, <3>1, BaseExchange, BaseApprove, BaseConsume, BaseFinalize
      DEF Start, Advance
  <2>2. CASE Start(r)
    BY <2>1, <2>2, QuietActions DEF Start, IInv
  <2>3. CASE \E g \in Grant, d \in Decision : CreateGrant(r, g, d)
    BY <2>1, <2>3, CreateStep DEF IInv
  <2>4. CASE ExchangeMints(r) \/ ApproveMints(r)
    <3>1. GrantInv'
      BY <2>4, MintStep DEF ExchangeMints, ApproveMints, Signing, Return, store
    <3> QED
      BY <2>1, <3>1 DEF IInv
  <2>5. CASE ApproveReserves(r)
    BY <2>1, <2>5, ReserveStep DEF IInv
  <2>6. CASE ConsumeSucceeds(r)
    BY <2>1, <2>6, ConsumeStep DEF IInv
  <2>7. CASE Finalize(r)
    BY <2>1, <2>7, FinalizeStep DEF IInv, BaseInv
  <2>8. CASE \/ ExchangeEndsEarly(r) \/ ApproveRefused(r) \/ ApproveTokenTaken(r)
             \/ ConsumeRefused(r) \/ ConsumeProofInvalid(r) \/ CompleteProofInvalid(r)
             \/ CompleteProved(r) \/ FinalizeRefused(r) \/ FinalizeRepeats(r)
             \/ ApproveChecked(r)
             \/ ConsumeChecked(r) \/ ExchangeMintFails(r) \/ ApproveMintFails(r)
    <3>1. GrantInv'
      BY <2>8, QuietActions
    <3> QED
      BY <2>1, <3>1 DEF IInv
  <2>9. ASSUME NEW x \in Target, NEW o \in {"delivered", "failed"}, Deliver(r, x, o)
        PROVE  IInv'
    BY <2>1, <2>9, DeliverStep DEF IInv
  <2> QED
    BY <1>3, <2>2, <2>3, <2>4, <2>5, <2>6, <2>7, <2>8, <2>9 DEF Advance
<1> QED
  BY <1>2, <1>3 DEF Next

-----------------------------------------------------------------------------
(* The theorems *)

LEMMA Invariance == Spec => []IInv
BY InvInit, InvStep, PTL DEF Spec

\* Every state the broker reaches is well typed: in particular a call never ends a grant
\* in a status, or records a source or an audit event, that types.ts does not know.
THEOREM TypeCorrect == Spec => []TypeOK
<1>1. IInv => TypeOK
  BY DEF IInv, BaseInv
<1> QED
  BY <1>1, Invariance, PTL

\* However exchanges and approvals interleave, a grant gets one credential at most, and
\* two grants with credentials were never proposed with the same subject token.
THEOREM CredentialUniqueness == Spec => []CredentialsAreUnique
<1>1. IInv => CredentialsAreUnique
  BY DEF IInv, GrantInv, MintInv, CredentialsAreUnique
<1> QED
  BY <1>1, Invariance, PTL

\* However many calls present a credential at once, one of them consumes it at most.
THEOREM SingleUse == Spec => []UsedAtMostOnce
<1>1. IInv => UsedAtMostOnce
  <2> SUFFICES ASSUME IInv, NEW g \in Grant
               PROVE  /\ uses[g] <= minted[g] /\ uses[g] <= 1
                      /\ uses[g] = 1 => grants[g].status \in {"consumed", "revoked", "expired"}
    BY DEF UsedAtMostOnce
  <2>1. uses[g] \in Nat /\ minted[g] \in Nat /\ uses[g] <= minted[g] /\ minted[g] <= 1
    BY DEF IInv, BaseInv, TypeOK, GrantInv, MintInv, UseInv
  <2>2. uses[g] > 0 => grants[g].status \in {"consumed", "revoked", "expired"}
    BY DEF IInv, GrantInv, UseInv
  <2> QED
    BY <2>1, <2>2
<1> QED
  BY <1>1, Invariance, PTL

\* Exchanges with the same idempotency key, however many wait for the authority resolver
\* at once, leave one grant.
THEOREM Idempotency == Spec => []OneGrantPerKey
<1>1. IInv => OneGrantPerKey
  BY DEF IInv, GrantInv, KeyInv, OneGrantPerKey
<1> QED
  BY <1>1, Invariance, PTL

-----------------------------------------------------------------------------
(* The audit trail and the evidence *)

\* The part of the trail that tells the life of the grant: all of it until the grant ends.
Life(g) == IF evidence[g] = None THEN audits[g] ELSE evidence[g].timeline

\* A grant that has not ended has the trail of its status. The evidence of one that ended
\* repeats its approver and its deliveries, and its timeline is an opening with the event of
\* its end, which the trail continues. An approval is in the trail when somebody approved.
GoodTrail(g) ==
  /\ evidence[g] = None => audits[g] \in LegalTrail(grants[g].status)
  /\ evidence[g] # None =>
       /\ \E o \in Opening :
            evidence[g].timeline = Append(o, FinalEvent(evidence[g].source, grants[g].status))
       /\ Continues(evidence[g].timeline, audits[g])
       /\ grants[g].status = "expired" => evidence[g].source = "ttl"
       /\ evidence[g].approver = grants[g].approver
       /\ evidence[g].deliveries = deliveries[g]
  /\ (grants[g].approver # None) <=> (Len(Life(g)) > 1 /\ Life(g)[2] = "grant_approved")

TrailInv == \A g \in Grant : GoodTrail(g)

\* The trails of a grant that has not ended, written out.
LEMMA OpenTrails ==
  /\ LegalTrail("absent") = {<<>>}
  /\ LegalTrail("proposed") = {<<"grant_proposed">>}
  /\ LegalTrail("denied") = {<<"grant_proposed", "grant_denied">>}
  /\ LegalTrail("approved") = {<<"grant_proposed", "grant_approved">>}
  /\ LegalTrail("consumed") = {<<"grant_proposed", "grant_approved", "grant_consumed">>}
  /\ LegalTrail("expired") = {Append(o, "grant_expired") : o \in Opening}
  /\ LegalTrail("revoked") =
       {Append(o, e) : o \in Opening, e \in {"grant_completed", "grant_revoked"}}
BY DEF LegalTrail

\* An opening grows by one event; what is in it stays.
LEMMA GrownTrail ==
  ASSUME NEW o \in Opening, NEW e
  PROVE  /\ Len(Append(o, e)) = Len(o) + 1 /\ Len(o) \in 1..3
         /\ Len(o) > 1 => Append(o, e)[2] = o[2] /\ o[2] = "grant_approved"
         /\ Len(o) = 1 => Append(o, e)[2] = e
<1>1. CASE o = <<"grant_proposed">>
  BY <1>1
<1>2. CASE o = <<"grant_proposed", "grant_approved">>
  BY <1>2
<1>3. CASE o = <<"grant_proposed", "grant_approved", "grant_consumed">>
  BY <1>3
<1> QED
  BY <1>1, <1>2, <1>3 DEF Opening

\* A trail is what one event makes of another when they agree up to the event.
LEMMA NextTrail ==
  ASSUME NEW s \in Seq(AuditType), NEW e \in AuditType, NEW t \in Seq(AuditType),
         Len(t) = Len(s) + 1, t[Len(s) + 1] = e, \A i \in 1..Len(s) : s[i] = t[i]
  PROVE  Append(s, e) = t
<1>1. Append(s, e) \in Seq(AuditType)
  BY AppendProperties
<1>2. Len(Append(s, e)) = Len(s) + 1
  BY AppendProperties
<1>3. Append(s, e)[Len(s) + 1] = e
  BY AppendProperties
<1>4. \A i \in 1..Len(s) : Append(s, e)[i] = s[i]
  BY AppendProperties
<1>5. \A i \in 1..Len(t) : Append(s, e)[i] = t[i]
  BY <1>3, <1>4, LenProperties
<1> QED
  BY <1>1, <1>2, <1>5, SeqEqual

LEMMA ApprovedTrail ==
  Append(<<"grant_proposed">>, "grant_approved") = <<"grant_proposed", "grant_approved">>
<1> DEFINE s == <<"grant_proposed">>
           t == <<"grant_proposed", "grant_approved">>
<1>1. /\ s \in Seq(AuditType) /\ t \in Seq(AuditType) /\ "grant_approved" \in AuditType
      /\ Len(t) = Len(s) + 1 /\ t[Len(s) + 1] = "grant_approved"
      /\ \A i \in 1..Len(s) : s[i] = t[i]
  BY DEF AuditType
<1> QED
  BY <1>1, NextTrail

LEMMA ConsumedTrail ==
  Append(<<"grant_proposed", "grant_approved">>, "grant_consumed")
    = <<"grant_proposed", "grant_approved", "grant_consumed">>
<1> DEFINE s == <<"grant_proposed", "grant_approved">>
           t == <<"grant_proposed", "grant_approved", "grant_consumed">>
<1>1. /\ s \in Seq(AuditType) /\ t \in Seq(AuditType) /\ "grant_consumed" \in AuditType
      /\ Len(t) = Len(s) + 1 /\ t[Len(s) + 1] = "grant_consumed"
      /\ \A i \in 1..Len(s) : s[i] = t[i]
  BY DEF AuditType
<1> QED
  BY <1>1, NextTrail

\* The trails of a revoked grant.
LEMMA RevokedTrail ==
  ASSUME NEW o \in Opening, NEW e \in {"grant_completed", "grant_revoked"}
  PROVE  Append(o, e) \in LegalTrail("revoked")
BY DEF LegalTrail

\* A trail continues itself, and goes on doing so after an attempt to deliver.
LEMMA SameTrail == ASSUME NEW s \in Seq(AuditType) PROVE Continues(s, s)
BY DEF Continues

LEMMA LongerTrail ==
  ASSUME NEW s \in Seq(AuditType), NEW t \in Seq(AuditType), Continues(s, t)
  PROVE  Continues(s, Append(t, "revocation_delivery"))
<1> DEFINE e == "revocation_delivery"
<1>1. /\ Len(Append(t, e)) = Len(t) + 1 /\ Append(t, e)[Len(t) + 1] = e
      /\ \A i \in 1..Len(t) : Append(t, e)[i] = t[i]
  BY AppendProperties
<1>2. Len(s) \in Nat /\ Len(t) \in Nat
  BY LenProperties
<1> HIDE DEF e
<1>3. Append(t, e)[Len(t) + 1] = "revocation_delivery"
  BY <1>1 DEF e
<1> QED
  BY <1>1, <1>2, <1>3 DEF Continues, e

\* How a grant of a final status ended is one of the trails of that status.
LEMMA EndedTrail ==
  ASSUME NEW o \in Opening, NEW source \in CompletionSource, NEW final \in FinalStatus
  PROVE  /\ Append(o, FinalEvent(source, final)) \in LegalTrail(final)
         /\ Append(o, FinalEvent(source, final)) \in Seq(AuditType)
         /\ FinalEvent(source, final) # "grant_approved"
<1>1. FinalEvent(source, final) \in AuditType /\ FinalEvent(source, final) # "grant_approved"
  BY DEF FinalEvent, AuditType
<1>2. o \in Seq(AuditType)
  <2>1. /\ <<"grant_proposed">> \in Seq(AuditType)
        /\ <<"grant_proposed", "grant_approved">> \in Seq(AuditType)
        /\ <<"grant_proposed", "grant_approved", "grant_consumed">> \in Seq(AuditType)
    BY DEF AuditType
  <2> QED
    BY <2>1 DEF Opening
<1>3. Append(o, FinalEvent(source, final)) \in LegalTrail(final)
  <2>1. CASE final = "expired"
    BY <2>1, OpenTrails DEF FinalEvent
  <2>2. CASE final = "revoked"
    <3>1. FinalEvent(source, final) \in {"grant_completed", "grant_revoked"}
      BY <2>2 DEF FinalEvent
    <3> QED
      BY <2>2, <3>1, RevokedTrail
  <2> QED
    BY <2>1, <2>2 DEF FinalStatus
<1> QED
  BY <1>1, <1>2, <1>3, AppendProperties

\* A step leaves the grants alone whose records, trails, evidence and deliveries it keeps.
LEMMA TrailKept ==
  ASSUME NEW h \in Grant, GoodTrail(h), grants'[h] = grants[h], audits'[h] = audits[h],
         evidence'[h] = evidence[h], deliveries'[h] = deliveries[h]
  PROVE  GoodTrail(h)'
BY DEF GoodTrail, Life

\* The step that creates a grant opens its trail.
LEMMA TrailCreate ==
  ASSUME IInv, TrailInv, NEW r \in Request, NEW g \in Grant, NEW d \in Decision,
         CreateGrant(r, g, d)
  PROVE  TrailInv'
<1>1. /\ grants[g].status = "absent" /\ UNCHANGED <<evidence, deliveries>>
      /\ grants' = [grants EXCEPT ![g] =
           [status |-> FirstStatus(d), token |-> calls[r].token, key |-> calls[r].key,
            expiresAt |-> now + calls[r].ttl,
            approver |-> IF d = "allow" THEN "policy" ELSE None]]
      /\ audits' = [audits EXCEPT ![g] = @ \o FirstEvents(d)]
  BY DEF CreateGrant, Exists
<1>2. audits[g] = <<>> /\ evidence[g] = None
  BY <1>1, OpenTrails DEF TrailInv, GoodTrail, IInv, GrantInv, EvidenceInv
<1>3. grants'[g].status = FirstStatus(d) /\ audits'[g] = FirstEvents(d)
      /\ grants'[g].approver = IF d = "allow" THEN "policy" ELSE None
  <2>1. FirstEvents(d) \in Seq(AuditType) /\ <<>> \o FirstEvents(d) = FirstEvents(d)
    BY FirstEventsAreTyped, ConcatEmptySeq
  <2> QED
    BY <1>1, <1>2, <2>1 DEF IInv, BaseInv, TypeOK
<1>4. /\ FirstEvents(d) \in LegalTrail(FirstStatus(d))
      /\ d = "allow" <=> (Len(FirstEvents(d)) > 1 /\ FirstEvents(d)[2] = "grant_approved")
  BY OpenTrails DEF FirstEvents, FirstStatus
<1>5. GoodTrail(g)'
  BY <1>1, <1>2, <1>3, <1>4, NoneIsNobody DEF GoodTrail, Life
<1>6. ASSUME NEW h \in Grant, h # g PROVE GoodTrail(h)'
  BY <1>1, <1>6, TrailKept DEF TrailInv, IInv, BaseInv, TypeOK
<1> QED
  BY <1>5, <1>6 DEF TrailInv

\* Approval and use append their event to the one trail their grant can have.
LEMMA TrailGrows ==
  ASSUME IInv, TrailInv, NEW r \in Request, NEW g \in Grant, g = calls[r].grant,
         ApproveReserves(r) \/ ConsumeSucceeds(r)
  PROVE  TrailInv'
<1>1. evidence' = evidence /\ deliveries' = deliveries /\ grants[g] \in GrantRecord
  BY DEF ApproveReserves, ConsumeSucceeds, IInv, BaseInv, TypeOK
<1>2. CASE ApproveReserves(r)
  <2>1. /\ grants' = [grants EXCEPT ![g] =
             [@ EXCEPT !.status = "approved", !.approver = "approved"]]
        /\ audits' = [audits EXCEPT ![g] = Append(@, "grant_approved")]
        /\ grants[g].status = "proposed"
    BY <1>2 DEF ApproveReserves, IInv, GrantInv, HolderInv
  <2>2. audits[g] = <<"grant_proposed">> /\ evidence[g] = None
    BY <1>1, <2>1, OpenTrails DEF TrailInv, GoodTrail, IInv, GrantInv, EvidenceInv
  <2>3. audits'[g] = <<"grant_proposed", "grant_approved">>
    BY <1>1, <2>1, <2>2, ApprovedTrail DEF IInv, BaseInv, TypeOK
  <2>4. grants'[g].status = "approved" /\ grants'[g].approver = "approved"
    BY <1>1, <2>1 DEF IInv, BaseInv, TypeOK, GrantRecord
  <2>5. GoodTrail(g)'
    BY <1>1, <2>2, <2>3, <2>4, OpenTrails, NoneIsNobody DEF GoodTrail, Life
  <2>6. ASSUME NEW h \in Grant, h # g PROVE GoodTrail(h)'
    BY <1>1, <2>1, <2>6, TrailKept DEF TrailInv, IInv, BaseInv, TypeOK
  <2> QED
    BY <2>5, <2>6 DEF TrailInv
<1>3. CASE ConsumeSucceeds(r)
  <2>1. /\ grants' = [grants EXCEPT ![g].status = "consumed"]
        /\ audits' = [audits EXCEPT ![g] = Append(@, "grant_consumed")]
        /\ grants[g].status = "approved"
    BY <1>3 DEF ConsumeSucceeds, IInv, GrantInv, HolderInv
  <2>2. audits[g] = <<"grant_proposed", "grant_approved">> /\ evidence[g] = None
        /\ grants[g].approver # None
    <3>1. evidence[g] = None
      BY <1>1, <2>1 DEF IInv, GrantInv, EvidenceInv
    <3>2. audits[g] = <<"grant_proposed", "grant_approved">>
      BY <1>1, <2>1, <3>1, OpenTrails DEF TrailInv, GoodTrail
    <3>3. Len(audits[g]) > 1 /\ audits[g][2] = "grant_approved"
      BY <3>2
    <3> QED
      BY <1>1, <3>1, <3>2, <3>3 DEF TrailInv, GoodTrail, Life
  <2>3. audits'[g] = <<"grant_proposed", "grant_approved", "grant_consumed">>
    BY <1>1, <2>1, <2>2, ConsumedTrail DEF IInv, BaseInv, TypeOK
  <2>4. grants'[g].status = "consumed" /\ grants'[g].approver = grants[g].approver
    BY <1>1, <2>1 DEF IInv, BaseInv, TypeOK, GrantRecord
  <2>5. GoodTrail(g)'
    BY <1>1, <2>2, <2>3, <2>4, OpenTrails DEF GoodTrail, Life
  <2>6. ASSUME NEW h \in Grant, h # g PROVE GoodTrail(h)'
    BY <1>1, <2>1, <2>6, TrailKept DEF TrailInv, IInv, BaseInv, TypeOK
  <2> QED
    BY <2>5, <2>6 DEF TrailInv
<1> QED
  BY <1>2, <1>3

\* The step that ends a grant closes its trail and copies it.
LEMMA TrailEnds ==
  ASSUME IInv, TrailInv, NEW r \in Request, NEW g \in Grant, NEW source, NEW final, NEW o,
         g = calls[r].grant, source = calls[r].source, final = calls[r].final, o = audits[g],
         Finalize(r), TypeOK'
  PROVE  TrailInv'
<1>1. /\ grants[g] \in GrantRecord /\ Exists(g)
      /\ source \in CompletionSource /\ final \in FinalStatus
      /\ final = "expired" => source = "ttl"
      /\ evidence[g] = None /\ grants[g].status # "denied"
  BY TurnIsHead DEF Finalize, Finalizable, HasTurn, Queued, IInv, BaseInv, CallsInv, TypeOK
<1>2. PICK ds : ds = [x \in Target |-> "pending"]
  OBVIOUS
<1>3. /\ grants' = [grants EXCEPT ![g].status = final]
      /\ audits' = [audits EXCEPT ![g] = Append(@, FinalEvent(source, final))]
      /\ deliveries' = [deliveries EXCEPT ![g] = ds]
      /\ evidence' = [evidence EXCEPT ![g] =
           [source |-> source, approver |-> grants[g].approver, timeline |-> audits'[g],
            deliveries |-> ds]]
  BY <1>2 DEF Finalize
<1>4. o \in Opening /\ GoodTrail(g)
  <2>1. grants[g].status \in {"proposed", "approved", "consumed"}
    BY <1>1 DEF Exists, IInv, GrantInv, EvidenceInv, GrantRecord, GrantStatus
  <2> QED
    BY <1>1, <2>1, OpenTrails DEF TrailInv, GoodTrail, Opening
<1>5. /\ audits'[g] = Append(o, FinalEvent(source, final))
      /\ grants'[g].status = final /\ grants'[g].approver = grants[g].approver
      /\ evidence'[g].source = source /\ evidence'[g].timeline = audits'[g]
      /\ evidence'[g].approver = grants[g].approver
      /\ evidence'[g].deliveries = ds /\ deliveries'[g] = ds
  BY <1>1, <1>3 DEF IInv, BaseInv, TypeOK, GrantRecord
<1>6. evidence'[g] # None
  <2>1. EvidenceInv'
    BY FinalizeStep DEF GrantInv
  <2> QED
    BY <1>1, <1>5, <2>1 DEF EvidenceInv, FinalStatus
<1>7. GoodTrail(g)'
  <2>1. /\ Append(o, FinalEvent(source, final)) \in Seq(AuditType)
        /\ FinalEvent(source, final) # "grant_approved"
    BY <1>1, <1>4, EndedTrail
  <2>2. Continues(evidence'[g].timeline, audits'[g])
    BY <1>5, <2>1, SameTrail
  <2>3. /\ Len(Append(o, FinalEvent(source, final))) = Len(o) + 1 /\ Len(o) \in 1..3
        /\ Len(o) > 1 =>
             Append(o, FinalEvent(source, final))[2] = o[2] /\ o[2] = "grant_approved"
        /\ Len(o) = 1 =>
             Append(o, FinalEvent(source, final))[2] = FinalEvent(source, final)
    BY <1>4, GrownTrail
  <2>4. grants[g].approver # None <=> (Len(o) > 1 /\ o[2] = "grant_approved")
    BY <1>1, <1>4 DEF GoodTrail, Life
  <2>5. (grants[g].approver # None)
          <=> (Len(audits'[g]) > 1 /\ audits'[g][2] = "grant_approved")
    BY <1>5, <2>1, <2>3, <2>4
  <2> QED
    BY <1>1, <1>4, <1>5, <1>6, <2>2, <2>5 DEF GoodTrail, Life
<1>8. ASSUME NEW h \in Grant, h # g PROVE GoodTrail(h)'
  BY <1>3, <1>8, TrailKept DEF TrailInv, IInv, BaseInv, TypeOK
<1> QED
  BY <1>7, <1>8 DEF TrailInv

\* An attempt to deliver continues the trail and takes the evidence along.
LEMMA TrailDelivers ==
  ASSUME IInv, TrailInv, NEW r \in Request, NEW x \in Target,
         NEW outcome \in {"delivered", "failed"}, Deliver(r, x, outcome)
  PROVE  TrailInv'
<1>1. evidence[calls[r].grant] # None
  BY DEF Deliver, IInv, GrantInv, HolderInv
<1>2. PICK g \in Grant, ds \in [Target -> DeliveryStatus] : Attempted(r, x, outcome, g, ds)
  BY <1>1, DeliverWrites DEF IInv
<1>3. /\ evidence'[g] = [evidence[g] EXCEPT !.deliveries = ds] /\ deliveries'[g] = ds
      /\ audits'[g] = Append(audits[g], "revocation_delivery") /\ grants' = grants
      /\ \A h \in Grant : h # g => /\ evidence'[h] = evidence[h] /\ audits'[h] = audits[h]
                                   /\ deliveries'[h] = deliveries[h]
  BY <1>2 DEF Attempted, Deliver, IInv, BaseInv, TypeOK
<1>4. evidence[g] # None /\ evidence[g] \in EvidenceRecord /\ GoodTrail(g)
  BY <1>1, <1>2 DEF Attempted, TrailInv
<1>5. /\ evidence'[g] # None /\ evidence'[g].deliveries = ds
      /\ evidence'[g].source = evidence[g].source
      /\ evidence'[g].approver = evidence[g].approver
      /\ evidence'[g].timeline = evidence[g].timeline
  BY <1>3, <1>4, Refreshed
<1>6. Continues(evidence[g].timeline, audits'[g])
  <2>1. evidence[g].timeline \in Seq(AuditType) /\ audits[g] \in Seq(AuditType)
    BY <1>4 DEF EvidenceRecord, IInv, BaseInv, TypeOK
  <2> QED
    BY <1>3, <1>4, <2>1, LongerTrail DEF GoodTrail
<1>7. GoodTrail(g)'
  BY <1>3, <1>4, <1>5, <1>6 DEF GoodTrail, Life
<1>8. ASSUME NEW h \in Grant, h # g PROVE GoodTrail(h)'
  BY <1>3, <1>8, TrailKept DEF TrailInv
<1> QED
  BY <1>7, <1>8 DEF TrailInv

LEMMA TrailStep ==
  ASSUME IInv, TrailInv, [Next]_vars
  PROVE  TrailInv'
<1>1. CASE UNCHANGED <<grants, audits, evidence, deliveries>>
  BY <1>1 DEF TrailInv, GoodTrail, Life
<1>2. TypeOK' /\ \A r \in Request : ApproveReserves(r) \/ ConsumeSucceeds(r) \/ Finalize(r) =>
        calls[r].grant \in Grant
  BY InvStep, TurnIsHead
  DEF ApproveReserves, ConsumeSucceeds, Finalize, Holding, Queued, IInv, BaseInv
<1> QED
  BY <1>1, <1>2, TrailCreate, TrailGrows, TrailEnds, TrailDelivers
  DEF Next, Start, Advance, Tick, vars, store, history, JoinLock, LeaveLock,
      StartExchange, ExchangeEndsEarly, ExchangeMints, ExchangeMintFails, ApproveMintFails,
      StartApprove, ApproveRefused,
      ApproveChecked, ApproveTokenTaken, ApproveMints, StartConsume, ConsumeRefused,
      ConsumeChecked, ConsumeProofInvalid, StartComplete, CompleteProofInvalid,
      CompleteProved, StartRevoke, StartExpire, StartRetry, FinalizeRefused, FinalizeRepeats

LEMMA TrailHolds == Spec => [](IInv /\ TrailInv)
<1>1. Init => TrailInv
  <2> SUFFICES ASSUME Init, NEW g \in Grant PROVE GoodTrail(g)
    BY DEF TrailInv
  <2>1. grants[g].status = "absent" /\ grants[g].approver = None
        /\ audits[g] = <<>> /\ evidence[g] = None
    BY DEF Init, NoGrant
  <2> QED
    BY <2>1, OpenTrails DEF GoodTrail, Life
<1> QED
  BY <1>1, TrailStep, Invariance, InvStep, PTL DEF Spec

\* However calls overlap, the trail of every grant is one its status can have, with nothing
\* but attempts to deliver after it: no event is missing, repeated or out of order.
THEOREM AuditIsTrue == Spec => []AuditTellsStatus
<1>1. ASSUME IInv, TrailInv PROVE AuditTellsStatus
  <2> SUFFICES ASSUME NEW g \in Grant
               PROVE  \E life \in LegalTrail(grants[g].status) :
                        /\ Continues(life, audits[g])
                        /\ grants[g].status \notin FinalStatus => audits[g] = life
    BY DEF AuditTellsStatus
  <2>1. GoodTrail(g) /\ (evidence[g] # None <=> grants[g].status \in FinalStatus)
        /\ audits[g] \in Seq(AuditType)
    BY <1>1 DEF TrailInv, IInv, GrantInv, EvidenceInv, BaseInv, TypeOK, FinalStatus
  <2>2. CASE evidence[g] = None
    BY <2>1, <2>2, SameTrail DEF GoodTrail
  <2>3. CASE evidence[g] # None
    <3>1. PICK o \in Opening :
            evidence[g].timeline = Append(o, FinalEvent(evidence[g].source, grants[g].status))
      BY <2>1, <2>3 DEF GoodTrail
    <3>2. evidence[g].source \in CompletionSource
      BY <1>1, <2>3 DEF IInv, BaseInv, TypeOK, EvidenceRecord
    <3>3. evidence[g].timeline \in LegalTrail(grants[g].status)
      BY <2>1, <2>3, <3>1, <3>2, EndedTrail
    <3> QED
      BY <2>1, <2>3, <3>3 DEF GoodTrail
  <2> QED
    BY <2>2, <2>3
<1> QED
  BY <1>1, TrailHolds, PTL

\* Whichever call ends a grant, its evidence tells how: its timeline is the trail up to the
\* event of its source and status, it has an approver exactly when the timeline shows an
\* approval, and whatever calls deliver at once, its deliveries are the store's.
THEOREM EvidenceIsTrue == Spec => []EvidenceMatchesGrant
<1>1. ASSUME IInv, TrailInv PROVE EvidenceMatchesGrant
  <2>1. ASSUME NEW g \in Grant
        PROVE  /\ GoodTrail(g)
               /\ evidence[g] # None <=> grants[g].status \in FinalStatus
    BY <1>1 DEF TrailInv, IInv, GrantInv, EvidenceInv, FinalStatus
  <2>2. ASSUME NEW g \in Grant, evidence[g] # None
        PROVE  (evidence[g].approver # None) <=> (Len(evidence[g].timeline) > 2)
    <3> DEFINE e == FinalEvent(evidence[g].source, grants[g].status)
    <3>1. PICK o \in Opening : evidence[g].timeline = Append(o, e)
      BY <2>1, <2>2 DEF GoodTrail
    <3>2. e # "grant_approved"
      BY DEF FinalEvent
    <3> HIDE DEF e
    <3>3. /\ Len(Append(o, e)) = Len(o) + 1 /\ Len(o) \in 1..3
          /\ Len(o) > 1 => Append(o, e)[2] = o[2] /\ o[2] = "grant_approved"
          /\ Len(o) = 1 => Append(o, e)[2] = e
      BY GrownTrail
    <3>4. (evidence[g].approver # None)
            <=> (Len(Append(o, e)) > 1 /\ Append(o, e)[2] = "grant_approved")
      BY <2>1, <2>2, <3>1 DEF GoodTrail, Life
    <3> QED
      BY <3>1, <3>2, <3>3, <3>4
  <2> QED
    BY <2>1, <2>2 DEF EvidenceMatchesGrant, GoodTrail
<1> QED
  BY <1>1, TrailHolds, PTL

\* A step of any call leaves the record, the uses and the evidence of an ended grant as they
\* are, but for the delivery snapshot; the trail only grows, by attempts to deliver.
THEOREM FinalIsFinal == Spec => FinalizedIsFrozen
<1>1. ASSUME IInv, TrailInv, [Next]_vars PROVE KeepsFinalized
  <2> SUFFICES ASSUME NEW g \in Grant, evidence[g] # None
               PROVE  /\ evidence'[g] = [evidence[g] EXCEPT !.deliveries = deliveries'[g]]
                      /\ \A x \in Target :
                           deliveries'[g][x] = "pending" => deliveries[g][x] = "pending"
                      /\ grants'[g] = grants[g]
                      /\ Continues(audits[g], audits'[g])
                      /\ uses'[g] = uses[g]
    BY DEF KeepsFinalized
  <2>1. /\ grants[g].status \in {"revoked", "expired"}
        /\ evidence[g].deliveries = deliveries[g]
        /\ evidence[g] \in EvidenceRecord /\ audits[g] \in Seq(AuditType)
        /\ deliveries[g] \in [Target -> DeliveryStatus]
    BY <1>1 DEF IInv, GrantInv, EvidenceInv, TrailInv, GoodTrail, BaseInv, TypeOK
  <2>2. CASE /\ grants'[g] = grants[g] /\ audits'[g] = audits[g] /\ evidence'[g] = evidence[g]
             /\ deliveries'[g] = deliveries[g] /\ uses'[g] = uses[g]
    <3>1. evidence[g] = [evidence[g] EXCEPT !.deliveries = evidence[g].deliveries]
      BY <2>1 DEF EvidenceRecord
    <3>2. Continues(audits[g], audits[g])
      BY <2>1, SameTrail
    <3> QED
      BY <2>1, <2>2, <3>1, <3>2
  <2>3. ASSUME NEW r \in Request, NEW h \in Grant, NEW d \in Decision, CreateGrant(r, h, d)
        PROVE  /\ grants'[g] = grants[g] /\ audits'[g] = audits[g]
               /\ UNCHANGED <<evidence, deliveries, uses>>
    BY <1>1, <2>1, <2>3 DEF CreateGrant, Exists, history, IInv, BaseInv, TypeOK
  <2>4. ASSUME NEW r \in Request, ApproveReserves(r)
        PROVE  /\ grants'[g] = grants[g] /\ audits'[g] = audits[g]
               /\ UNCHANGED <<evidence, deliveries, uses>>
    <3>1. calls[r].grant # g
      BY <1>1, <2>1, <2>4 DEF ApproveReserves, IInv, GrantInv, HolderInv
    <3> QED
      BY <1>1, <2>4, <3>1 DEF ApproveReserves, history, IInv, BaseInv, TypeOK
  <2>5. ASSUME NEW r \in Request, ConsumeSucceeds(r)
        PROVE  /\ grants'[g] = grants[g] /\ audits'[g] = audits[g] /\ uses'[g] = uses[g]
               /\ UNCHANGED <<evidence, deliveries>>
    <3>1. calls[r].grant # g
      BY <1>1, <2>1, <2>5 DEF ConsumeSucceeds, IInv, GrantInv, HolderInv
    <3> QED
      BY <1>1, <2>5, <3>1 DEF ConsumeSucceeds, IInv, BaseInv, TypeOK
  <2>6. ASSUME NEW r \in Request, Finalize(r)
        PROVE  /\ grants'[g] = grants[g] /\ audits'[g] = audits[g] /\ evidence'[g] = evidence[g]
               /\ deliveries'[g] = deliveries[g] /\ UNCHANGED uses
    <3>1. calls[r].grant # g
      BY <2>6 DEF Finalize, Finalizable
    <3> QED
      BY <1>1, <2>6, <3>1 DEF Finalize, history, IInv, BaseInv, TypeOK
  <2>7. ASSUME NEW r \in Request, NEW x \in Target, NEW outcome \in {"delivered", "failed"},
               Deliver(r, x, outcome)
        PROVE  /\ evidence'[g] = [evidence[g] EXCEPT !.deliveries = deliveries'[g]]
               /\ \A y \in Target : deliveries'[g][y] = "pending" => deliveries[g][y] = "pending"
               /\ grants'[g] = grants[g] /\ Continues(audits[g], audits'[g])
               /\ uses'[g] = uses[g]
    <3>1. evidence[calls[r].grant] # None
      BY <1>1, <2>7 DEF Deliver, IInv, GrantInv, HolderInv
    <3>2. PICK h \in Grant, ds \in [Target -> DeliveryStatus] : Attempted(r, x, outcome, h, ds)
      BY <1>1, <2>7, <3>1, DeliverWrites DEF IInv
    <3>3. grants' = grants /\ uses' = uses
      BY <2>7 DEF Deliver, history
    <3>4. CASE h # g
      <4>1. audits'[g] = audits[g] /\ evidence'[g] = evidence[g] /\ deliveries'[g] = deliveries[g]
        BY <1>1, <3>2, <3>4 DEF Attempted, IInv, BaseInv, TypeOK
      <4> QED
        BY <2>2, <3>3, <4>1
    <3>5. CASE h = g
      <4>1. /\ evidence'[g] = [evidence[g] EXCEPT !.deliveries = ds] /\ deliveries'[g] = ds
            /\ audits'[g] = Append(audits[g], "revocation_delivery")
        BY <1>1, <3>2, <3>5 DEF Attempted, IInv, BaseInv, TypeOK
      <4>2. ds = [deliveries[g] EXCEPT ![x] = outcome]
        BY <3>2, <3>5 DEF Attempted
      <4>3. \A y \in Target : ds[y] = "pending" => deliveries[g][y] = "pending"
        BY <2>1, <4>2
      <4>4. Continues(audits[g], audits'[g])
        BY <2>1, <4>1, SameTrail, LongerTrail
      <4> QED
        BY <3>3, <4>1, <4>3, <4>4
    <3> QED
      BY <3>4, <3>5
  <2> QED
    BY <1>1, <2>2, <2>3, <2>4, <2>5, <2>6, <2>7
    DEF Next, Start, Advance, Tick, vars, store, history, JoinLock, LeaveLock,
        StartExchange, ExchangeEndsEarly, ExchangeMints, ExchangeMintFails, ApproveMintFails,
        StartApprove, ApproveRefused,
        ApproveChecked, ApproveTokenTaken, ApproveMints, StartConsume, ConsumeRefused,
        ConsumeChecked, ConsumeProofInvalid, StartComplete, CompleteProofInvalid,
        CompleteProved, StartRevoke, StartExpire, StartRetry, FinalizeRefused, FinalizeRepeats
<1>2. IInv /\ TrailInv /\ [Next]_vars => [KeepsFinalized]_vars
  BY <1>1
<1> QED
  BY <1>2, TrailHolds, PTL DEF Spec, FinalizedIsFrozen

-----------------------------------------------------------------------------
(* The refinement: every step is a step of GrantLifecycle or a stutter *)

\* The refinement mapping of Broker's Lifecycle instance, as named functions.
StatusMap == [g \in Grant |-> grants[g].status]
TokenMap == [g \in Grant |-> grants[g].token]
Issued == {g \in Grant : minted[g] > 0}

LEMMA MapInit == Init => Lifecycle!Init
<1> SUFFICES ASSUME Init PROVE Lifecycle!Init
  OBVIOUS
<1>1. \A g \in Grant : grants[g].status = "absent" /\ grants[g].token = None /\ minted[g] = 0
  BY DEF Init, NoGrant
<1>2. Authorized = {} /\ {g \in Grant : minted[g] > 0} = {}
  BY <1>1 DEF Authorized, Exists
<1> QED
  BY <1>1, <1>2 DEF Lifecycle!Init

\* Steps that touch neither a grant, nor a reservation, nor a credential.
LEMMA MapQuiet ==
  ASSUME UNCHANGED <<grants, tokenGrant, minted>>
  PROVE  UNCHANGED Lifecycle!vars
<1>1. UNCHANGED Authorized
  BY DEF Authorized, Exists
<1> QED
  BY <1>1 DEF Lifecycle!vars

\* A grant is authorized exactly when its token is reserved for it.
LEMMA MapExclusive ==
  ASSUME IInv, NEW g \in Grant, NEW t \in SubjectToken, Reservable(t, g)
  PROVE  Lifecycle!Exclusive(g, t)
BY BrokerAssumption DEF Lifecycle!Exclusive, Authorized, Reservable

\* The step that takes grant g to status s and changes nothing else of the lifecycle.
LEMMA MapWrite ==
  ASSUME NEW g \in Grant, NEW s, Exists(g), s # "absent",
         grants'[g].status = s, grants'[g].token = grants[g].token,
         \A h \in Grant : h # g => grants'[h] = grants[h],
         UNCHANGED <<tokenGrant, minted>>
  PROVE  /\ StatusMap' = [StatusMap EXCEPT ![g] = s]
         /\ UNCHANGED <<TokenMap, Authorized, Issued>>
<1>1. StatusMap' = [StatusMap EXCEPT ![g] = s]
  <2>1. StatusMap' = [h \in Grant |-> IF h = g THEN s ELSE grants[h].status]
    BY DEF StatusMap
  <2> QED
    BY <2>1 DEF StatusMap
<1>2. TokenMap' = TokenMap
  BY DEF TokenMap
<1>3. Authorized' = Authorized
  BY DEF Authorized, Exists
<1> QED
  BY <1>1, <1>2, <1>3 DEF Issued

LEMMA MapCreate ==
  ASSUME IInv, NEW r \in Request, NEW g \in Grant, NEW d \in Decision, CreateGrant(r, g, d)
  PROVE  Lifecycle!Next
<1>0. PICK t : t = calls[r].token
  OBVIOUS
<1> DEFINE new == [status |-> FirstStatus(d), token |-> t, key |-> calls[r].key,
                   expiresAt |-> now + calls[r].ttl,
                   approver |-> IF d = "allow" THEN "policy" ELSE None]
<1>1. /\ grants' = [grants EXCEPT ![g] = new]
      /\ tokenGrant' = IF d = "allow" THEN [tokenGrant EXCEPT ![t] = g] ELSE tokenGrant
      /\ UNCHANGED minted
      /\ ~Exists(g) /\ (d = "allow" => Reservable(t, g))
  BY <1>0 DEF CreateGrant, Return, history
<1>2. t \in SubjectToken /\ g # None
  BY <1>0, BrokerAssumption DEF CreateGrant, IInv, BaseInv, CallsInv
<1>3. new.token = t /\ new.status = FirstStatus(d) /\ new.status # "absent"
  BY DEF FirstStatus
<1> HIDE DEF new
<1>4. grants'[g] = new /\ \A h \in Grant : h # g => grants'[h] = grants[h]
  BY <1>1 DEF IInv, BaseInv, TypeOK
<1>5. StatusMap[g] = "absent" /\ StatusMap' = [StatusMap EXCEPT ![g] = FirstStatus(d)]
  <2>1. StatusMap' = [h \in Grant |-> IF h = g THEN FirstStatus(d) ELSE grants[h].status]
    BY <1>3, <1>4 DEF StatusMap
  <2> QED
    BY <2>1, <1>1 DEF StatusMap, Exists
<1>6. TokenMap' = [TokenMap EXCEPT ![g] = t]
  BY <1>3, <1>4 DEF TokenMap
<1>7. \A u \in SubjectToken : tokenGrant[u] # g
  BY <1>1, <1>2 DEF Exists, IInv, GrantInv, TokenInv
<1>8. CASE d = "allow"
  <2>1. Exists(g)' /\ tokenGrant'[grants'[g].token] = g
    BY <1>1, <1>2, <1>3, <1>4, <1>8 DEF Exists, IInv, BaseInv, TypeOK
  <2>2. ASSUME NEW h \in Grant, h # g
        PROVE  (h \in Authorized') <=> (h \in Authorized)
    <3>1. CASE ~Exists(h)
      BY <2>2, <3>1, <1>4 DEF Authorized, Exists
    <3>2. CASE Exists(h) /\ grants[h].token # t
      <4>1. grants[h].token \in SubjectToken
        BY <3>2 DEF IInv, GrantInv, TokenInv
      <4>2. tokenGrant'[grants[h].token] = tokenGrant[grants[h].token]
        BY <3>2, <4>1, <1>1, <1>2, <1>8 DEF IInv, BaseInv, TypeOK
      <4> QED
        BY <2>2, <3>2, <4>2, <1>4 DEF Authorized, Exists
    <3>3. CASE Exists(h) /\ grants[h].token = t
      <4>1. tokenGrant[t] # h
        BY <2>2, <1>1, <1>2, <1>8, BrokerAssumption DEF Reservable
      <4>2. tokenGrant'[t] = g
        BY <1>1, <1>2, <1>8 DEF IInv, BaseInv, TypeOK
      <4> QED
        BY <2>2, <3>3, <4>1, <4>2, <1>4 DEF Authorized, Exists
    <3> QED
      BY <3>1, <3>2, <3>3
  <2>3. Authorized' = Authorized \union {g}
    BY <2>1, <2>2 DEF Authorized
  <2>4. Lifecycle!Exclusive(g, t)
    BY <1>1, <1>2, <1>8, MapExclusive
  <2>5. FirstStatus(d) = "approved" /\ Issued' = Issued
    BY <1>1, <1>8 DEF FirstStatus, Issued
  <2>6. Lifecycle!ProposeAllowed(g, t)
    BY <1>5, <1>6, <2>3, <2>4, <2>5 DEF Lifecycle!ProposeAllowed, StatusMap, TokenMap, Issued
  <2> QED
    BY <1>2, <2>6 DEF Lifecycle!Next
<1>9. CASE d # "allow"
  <2>1. FirstStatus(d) \in {"proposed", "denied"} /\ Issued' = Issued
    BY <1>1, <1>9 DEF FirstStatus, Issued
  <2>2. g \notin Authorized /\ g \notin Authorized'
    <3>1. tokenGrant'[grants'[g].token] # g
      BY <1>1, <1>2, <1>3, <1>4, <1>7, <1>9
    <3> QED
      BY <1>1, <3>1 DEF Authorized
  <2>3. \A h \in Grant : h # g => ((h \in Authorized') <=> (h \in Authorized))
    BY <1>1, <1>4, <1>9 DEF Authorized, Exists
  <2>4. Authorized' = Authorized
    BY <2>2, <2>3 DEF Authorized
  <2>5. Lifecycle!Propose(g, t, FirstStatus(d))
    BY <1>5, <1>6, <2>1, <2>4 DEF Lifecycle!Propose, StatusMap, TokenMap, Issued
  <2> QED
    BY <1>2, <2>1, <2>5 DEF Lifecycle!Next, Lifecycle!Status, Lifecycle!Active
<1> QED
  BY <1>8, <1>9

LEMMA MapMint ==
  ASSUME IInv, NEW r \in Request, Signing(r),
         minted' = [minted EXCEPT ![calls[r].grant] = @ + 1], UNCHANGED <<grants, tokenGrant>>
  PROVE  Lifecycle!Next
<1>1. PICK g \in Grant : g = calls[r].grant /\ g \in Authorized /\ minted[g] = 0
  BY DEF Signing, Authorized, IInv, BaseInv, CallsInv, GrantInv, MintInv
<1>2. minted'[g] = 1 /\ \A h \in Grant : h # g => minted'[h] = minted[h]
  BY <1>1 DEF IInv, BaseInv, TypeOK
<1>3. g \notin Issued /\ Issued' = Issued \union {g}
  BY <1>1, <1>2 DEF Issued
<1>4. UNCHANGED <<StatusMap, TokenMap, Authorized>>
  BY DEF StatusMap, TokenMap, Authorized, Exists
<1>5. Lifecycle!Issue(g)
  BY <1>1, <1>3, <1>4 DEF Lifecycle!Issue, StatusMap, TokenMap, Issued
<1> QED
  BY <1>1, <1>5 DEF Lifecycle!Next

LEMMA MapReserve ==
  ASSUME IInv, NEW r \in Request, ApproveReserves(r)
  PROVE  Lifecycle!Next
<1>1. PICK g \in Grant, t \in SubjectToken :
        g = calls[r].grant /\ Exists(g) /\ grants[g].status = "proposed" /\ t = grants[g].token
  BY TurnIsHead DEF ApproveReserves, Holding, IInv, GrantInv, HolderInv, TokenInv
<1> DEFINE new == [grants[g] EXCEPT !.status = "approved", !.approver = "approved"]
<1>2. /\ grants' = [grants EXCEPT ![g] = new]
      /\ tokenGrant' = [tokenGrant EXCEPT ![t] = g]
      /\ UNCHANGED minted /\ Reservable(t, g)
  BY <1>1 DEF ApproveReserves, history
<1>3. new.status = "approved" /\ new.token = t
  BY <1>1 DEF IInv, BaseInv, TypeOK, GrantRecord
<1> HIDE DEF new
<1>5. grants'[g] = new /\ \A h \in Grant : h # g => grants'[h] = grants[h]
  BY <1>1, <1>2 DEF IInv, BaseInv, TypeOK
<1>6. StatusMap[g] = "proposed" /\ StatusMap' = [StatusMap EXCEPT ![g] = "approved"]
  <2>1. StatusMap' = [h \in Grant |-> IF h = g THEN "approved" ELSE grants[h].status]
    BY <1>3, <1>5 DEF StatusMap
  <2> QED
    BY <2>1, <1>1 DEF StatusMap
<1>7. TokenMap' = TokenMap /\ TokenMap[g] = t
  BY <1>1, <1>3, <1>5 DEF TokenMap
<1>8. tokenGrant'[t] = g /\ \A u \in SubjectToken : u # t => tokenGrant'[u] = tokenGrant[u]
  BY <1>1, <1>2 DEF IInv, BaseInv, TypeOK
<1>9. ASSUME NEW h \in Grant, h # g
      PROVE  (h \in Authorized') <=> (h \in Authorized)
  <2>1. CASE ~Exists(h)
    BY <2>1, <1>5, <1>9 DEF Authorized, Exists
  <2>2. CASE Exists(h)
    <3>1. grants[h].token \in SubjectToken
      BY <2>2 DEF IInv, GrantInv, TokenInv
    <3>2. tokenGrant[t] # h
      BY <1>1, <1>2, <1>9, BrokerAssumption DEF Reservable
    <3>3. tokenGrant'[grants[h].token] = h <=> tokenGrant[grants[h].token] = h
      BY <3>1, <3>2, <1>8, <1>9
    <3> QED
      BY <2>2, <3>3, <1>5, <1>9 DEF Authorized, Exists
  <2> QED
    BY <2>1, <2>2
<1>10. g \in Authorized'
  BY <1>1, <1>3, <1>5, <1>8 DEF Authorized, Exists
<1>11. Authorized' = Authorized \union {g}
  BY <1>9, <1>10 DEF Authorized
<1>12. Lifecycle!Exclusive(g, TokenMap[g]) /\ Issued' = Issued
  BY <1>1, <1>2, <1>7, MapExclusive DEF Issued
<1>13. Lifecycle!Approve(g)
  BY <1>6, <1>7, <1>11, <1>12 DEF Lifecycle!Approve, StatusMap, TokenMap, Issued
<1> QED
  BY <1>1, <1>13 DEF Lifecycle!Next

LEMMA MapConsume ==
  ASSUME IInv, NEW r \in Request, ConsumeSucceeds(r)
  PROVE  Lifecycle!Next
<1>1. PICK g \in Grant :
        g = calls[r].grant /\ Exists(g) /\ grants[g].status = "approved" /\ minted[g] > 0
  BY TurnIsHead DEF ConsumeSucceeds, Holding, IInv, GrantInv, HolderInv
<1> DEFINE new == [grants[g] EXCEPT !.status = "consumed"]
<1>2. grants' = [grants EXCEPT ![g] = new] /\ UNCHANGED <<tokenGrant, minted>>
  BY <1>1 DEF ConsumeSucceeds
<1>3. /\ grants'[g].status = "consumed" /\ grants'[g].token = grants[g].token
      /\ \A h \in Grant : h # g => grants'[h] = grants[h]
  BY <1>1, <1>2 DEF IInv, BaseInv, TypeOK, GrantRecord
<1> HIDE DEF new
<1>4. /\ StatusMap' = [StatusMap EXCEPT ![g] = "consumed"]
      /\ UNCHANGED <<TokenMap, Authorized, Issued>>
  BY <1>1, <1>2, <1>3, MapWrite
<1>5. StatusMap[g] = "approved" /\ g \in Issued
  BY <1>1 DEF StatusMap, Issued
<1>6. Lifecycle!Consume(g)
  BY <1>4, <1>5 DEF Lifecycle!Consume, StatusMap, TokenMap, Issued
<1> QED
  BY <1>1, <1>6 DEF Lifecycle!Next

LEMMA MapFinalize ==
  ASSUME IInv, NEW r \in Request, Finalize(r)
  PROVE  Lifecycle!Next
<1>1. PICK g \in Grant, s \in {"revoked", "expired"} :
        g = calls[r].grant /\ s = calls[r].final /\ Exists(g) /\ Finalizable(g)
  BY TurnIsHead DEF Finalize, HasTurn, Queued, IInv, BaseInv, CallsInv, FinalStatus
<1> DEFINE new == [grants[g] EXCEPT !.status = s]
<1>2. grants' = [grants EXCEPT ![g] = new] /\ UNCHANGED <<tokenGrant, minted>>
  BY <1>1 DEF Finalize, history
<1>3. /\ grants'[g].status = s /\ grants'[g].token = grants[g].token
      /\ \A h \in Grant : h # g => grants'[h] = grants[h]
  BY <1>1, <1>2 DEF IInv, BaseInv, TypeOK, GrantRecord
<1> HIDE DEF new
<1>4. grants[g].status \in {"proposed", "approved", "consumed"}
  <2>1. grants[g].status \in GrantStatus \union {"absent"}
    BY <1>1 DEF IInv, BaseInv, TypeOK, GrantRecord
  <2>2. grants[g].status \notin {"absent", "denied", "revoked", "expired"}
    BY <1>1 DEF Finalizable, Exists, IInv, GrantInv, EvidenceInv
  <2> QED
    BY <2>1, <2>2 DEF GrantStatus
<1>5. /\ StatusMap' = [StatusMap EXCEPT ![g] = s]
      /\ UNCHANGED <<TokenMap, Authorized, Issued>>
  BY <1>1, <1>2, <1>3, MapWrite
<1>6. StatusMap[g] \in {"proposed", "approved", "consumed"}
  BY <1>1, <1>4 DEF StatusMap
<1>7. Lifecycle!Finish(g, s)
  BY <1>1, <1>5, <1>6
  DEF Lifecycle!Finish, Lifecycle!Active, Lifecycle!Final, StatusMap, TokenMap, Issued
<1> QED
  BY <1>1, <1>7 DEF Lifecycle!Next, Lifecycle!Status, Lifecycle!Final

LEMMA MapStep ==
  ASSUME IInv, [Next]_vars
  PROVE  [Lifecycle!Next]_(Lifecycle!vars)
<1>1. CASE UNCHANGED <<grants, tokenGrant, minted>>
  BY <1>1, MapQuiet
<1>2. ASSUME NEW r \in Request, NEW g \in Grant, NEW d \in Decision, CreateGrant(r, g, d)
      PROVE  Lifecycle!Next
  BY <1>2, MapCreate
<1>3. ASSUME NEW r \in Request, ExchangeMints(r) \/ ApproveMints(r)
      PROVE  Lifecycle!Next
  BY <1>3, MapMint DEF ExchangeMints, ApproveMints, Signing, store
<1>4. ASSUME NEW r \in Request, ApproveReserves(r) \/ ConsumeSucceeds(r) \/ Finalize(r)
      PROVE  Lifecycle!Next
  BY <1>4, MapReserve, MapConsume, MapFinalize
<1>5. ASSUME NEW r \in Request,
             \/ \E g \in Grant : StartRetry(r, g)
             \/ FinalizeRepeats(r)
             \/ \E x \in Target, o \in {"delivered", "failed"} : Deliver(r, x, o)
      PROVE  UNCHANGED <<grants, tokenGrant, minted>>
  BY <1>5 DEF StartRetry, FinalizeRepeats, Deliver, store, history
<1> QED
  BY <1>1, <1>2, <1>3, <1>4, <1>5
  DEF Next, Start, Advance, Tick, vars, store, history, JoinLock, LeaveLock,
      StartExchange, ExchangeEndsEarly, ExchangeMintFails, ApproveMintFails,
      StartApprove, ApproveRefused,
      ApproveChecked, ApproveTokenTaken, StartConsume, ConsumeRefused,
      ConsumeChecked, ConsumeProofInvalid, StartComplete, CompleteProofInvalid,
      CompleteProved, StartRevoke, StartExpire, FinalizeRefused

\* The broker under any interleaving of calls keeps every promise of the lifecycle: one
\* approval per subject token, one credential per grant, one use of it, and an end that
\* is final.
THEOREM Refinement == Spec => ImplementsLifecycle
<1>1. IInv /\ [Next]_vars => [Lifecycle!Next]_(Lifecycle!vars)
  BY MapStep
<1> QED
  BY <1>1, MapInit, Invariance, PTL DEF Spec, ImplementsLifecycle, Lifecycle!Spec
=============================================================================
