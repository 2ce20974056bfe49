------------------------- MODULE CoordinatorProofs -------------------------
(***************************************************************************)
(* Proofs about Coordinator, for any number of requests, grants, Broker    *)
(* objects and failures. The types hold whatever fails; the promises about *)
(* the stored snapshot hold when a failure meets no other request in       *)
(* flight (AloneSpec), which one request at a time, or none that fails,    *)
(* always satisfies.                                                       *)
(***************************************************************************)
EXTENDS Coordinator, FiniteSetTheorems, TLAPS

-----------------------------------------------------------------------------
(* Types *)

Started(r) == flights[r].at \notin {"idle", "opening"}

\* What a request in flight refers to is there.
FlightOK(f) ==
  /\ f.at = "idle" => f = Idle
  /\ f.at # "idle" =>
       /\ f.op \in Operation
       /\ f.op = "exchange" => f.token \in SubjectToken
       /\ f.op # "exchange" => f.grant \in Grant
       /\ f.broker \in Instance
  /\ f.at \notin {"idle", "opening"} => f.via \in Instance
  /\ f.gives # "nothing" => f.grant \in Grant

FlightsInv == \A r \in Request : FlightOK(flights[r])

TypeInv == TypeOK /\ FlightsInv

-----------------------------------------------------------------------------
(* Snapshots *)

\* Status b comes at or after status a in the life of a grant.
Onward(a, b) ==
  \/ a \in {b, "absent"}
  \/ a = "proposed" /\ b \in {"approved", "consumed"} \union Final
  \/ a = "approved" /\ b \in {"consumed"} \union Final
  \/ a = "consumed" /\ b \in Final

\* Snapshot s has forgotten nothing of snapshot d.
Extends(s, d) ==
  /\ \A g \in Grant :
       /\ Onward(d.status[g], s.status[g])
       /\ d.status[g] # "absent" => s.token[g] = d.token[g]
       /\ d.evidence[g] # 0 => s.evidence[g] = d.evidence[g]
  /\ \A t \in SubjectToken : d.holder[t] # None => s.holder[t] = d.holder[t]

Granted(s, g) == s.status[g] \in {"approved", "consumed"} \union Final /\ s.holder[s.token[g]] = g

\* The evidence of exactly the grants that ended, and a reservation for each approved one.
WellFormed(s) ==
  /\ \A g \in Grant :
       /\ s.status[g] \in Final <=> s.evidence[g] # 0
       /\ s.status[g] # "absent" => s.token[g] \in SubjectToken
       /\ s.status[g] \in {"approved", "consumed"} => s.holder[s.token[g]] = g
  /\ \A t \in SubjectToken :
       s.holder[t] # None => s.status[s.holder[t]] \notin {"absent", "proposed", "denied"}

\* Snapshot s holds what flight f hands out.
Backed(s, f) ==
  /\ f.gives = "credential" => Granted(s, f.grant)
  /\ f.gives = "use" => s.status[f.grant] \in {"consumed"} \union Final
  /\ f.gives = "evidence" => s.evidence[f.grant] # 0

-----------------------------------------------------------------------------
(* The inductive invariant *)

\* Everyone in flight uses the Broker that the next request will use.
OneBroker ==
  /\ router \in {None, current}
  /\ \A r \in Request :
       /\ flights[r].at # "idle" => flights[r].broker = current
       /\ Started(r) => flights[r].via = current
       /\ flights[r].at # "idle" => (current \in ready <=> Started(r))

SnapshotInv ==
  /\ WellFormed(durable)
  /\ \A g \in Grant : durable.status[g] # "absent" => g \in drawn
  /\ current # None =>
       /\ WellFormed(stores[current])
       /\ Extends(stores[current], durable)
       /\ \A g \in Grant : stores[current].status[g] # "absent" => g \in drawn

\* What a request will hand out is in its Broker, and in the snapshot when the answer leaves.
FlightsBacked ==
  \A r \in Request :
    /\ flights[r].at \in {"idle", "opening", "waiting"} => flights[r].gives = "nothing"
    /\ Started(r) => Backed(stores[current], flights[r])
    /\ flights[r].at = "answering" => Backed(durable, flights[r])

\* What was handed out is in the snapshot, and no use is handed out twice.
HistoryInv ==
  /\ \A g \in issued : Granted(durable, g)
  /\ \A g \in Grant : \A e \in shown[g] : e # 0 /\ durable.evidence[g] = e
  /\ UsedAtMostOnce
  /\ \A r \in Request : flights[r].gives = "use" =>
       /\ uses[flights[r].grant] = 0
       /\ \A q \in Request \ {r} : flights[q].gives = "use" => flights[q].grant # flights[r].grant

IInv == TypeInv /\ OneBroker /\ SnapshotInv /\ FlightsBacked /\ HistoryInv
-----------------------------------------------------------------------------
(* Preservation of the types *)

LEMMA IdleIsOK == Idle \in Flight /\ FlightOK(Idle)
BY DEF Idle, Flight, FlightOK, FlightState

\* A request goes on to p, once its Broker is there.
LEMMA AdvanceIsOK ==
  ASSUME NEW f \in Flight, FlightOK(f), f.at \notin {"idle", "opening"},
         NEW p \in FlightState \ {"idle", "opening"}, NEW g \in Grant \union {None},
         NEW gives \in {"nothing", "credential", "use", "evidence"},
         gives # "nothing" => g \in Grant, f.op # "exchange" => g \in Grant
  PROVE  /\ [f EXCEPT !.at = p, !.grant = g, !.gives = gives] \in Flight
         /\ FlightOK([f EXCEPT !.at = p, !.grant = g, !.gives = gives])
BY DEF Flight, FlightOK

LEMMA FlightMove ==
  ASSUME TypeInv, NEW r \in Request, NEW new \in Flight, FlightOK(new),
         flights' = [flights EXCEPT ![r] = new]
  PROVE  flights' \in [Request -> Flight] /\ FlightsInv'
BY DEF TypeInv, TypeOK, FlightsInv

\* Counting: two images of a set, and one element more.
LEMMA ImagesBound ==
  ASSUME NEW S, IsFiniteSet(S), NEW F, NEW f \in Surjection(S, F),
         NEW H, NEW h \in Surjection(S, H), NEW x
  PROVE  /\ IsFiniteSet((F \union H) \union {x})
         /\ Cardinality((F \union H) \union {x}) <= 2 * Cardinality(S) + 1
<1>1. IsFiniteSet(F) /\ Cardinality(F) <= Cardinality(S)
  BY FS_Surjection
<1>2. IsFiniteSet(H) /\ Cardinality(H) <= Cardinality(S)
  BY FS_Surjection
<1>3. IsFiniteSet(F \cap H)
  BY <1>1, FS_Intersection
<1>4. /\ Cardinality(S) \in Nat /\ Cardinality(F) \in Nat /\ Cardinality(H) \in Nat
      /\ Cardinality(F \cap H) \in Nat
  BY <1>1, <1>2, <1>3, FS_CardinalityType
<1>5. /\ IsFiniteSet(F \union H)
      /\ Cardinality(F \union H) = Cardinality(F) + Cardinality(H) - Cardinality(F \cap H)
  BY <1>1, <1>2, FS_Union
<1> DEFINE U == F \union H
<1> HIDE DEF U
<1>6. IsFiniteSet(U) /\ Cardinality(U) \in Nat /\ Cardinality(U) <= 2 * Cardinality(S)
  <2>1. IsFiniteSet(U) /\ Cardinality(U) \in Nat
    BY <1>5, FS_CardinalityType DEF U
  <2> QED
    BY <1>1, <1>2, <1>4, <1>5, <2>1 DEF U
<1>7. /\ IsFiniteSet(U \union {x})
      /\ Cardinality(U \union {x}) = IF x \in U THEN Cardinality(U) ELSE Cardinality(U) + 1
  BY <1>6, FS_AddElement
<1> QED
  BY <1>4, <1>6, <1>7 DEF U

\* When a request arrives after a reset, there is a slot for another Broker.
LEMMA FreeSlot ==
  ASSUME TypeInv, NEW r \in Request, flights[r].at = "idle", current = None
  PROVE  \E j \in Instance : ~Referenced(j)
<1> DEFINE others == Request \ {r}
           brokers == [q \in others |-> flights[q].broker]
           vias == [q \in others |-> flights[q].via]
           inUse == (Range(brokers) \union Range(vias)) \union {router}
<1>1. IsFiniteSet(others) /\ Cardinality(others) = Cardinality(Request) - 1
  BY FS_RemoveElement, InstanceAssumption
<1>2. brokers \in Surjection(others, Range(brokers)) /\ vias \in Surjection(others, Range(vias))
  BY DEF Range, Surjection
<1>3. IsFiniteSet(inUse) /\ Cardinality(inUse) <= 2 * Cardinality(others) + 1
  <2> HIDE DEF others, brokers, vias
  <2> QED
    BY <1>1, <1>2, ImagesBound
<1>4. Cardinality(inUse) < Cardinality(Instance)
  <2> HIDE DEF inUse, others
  <2> QED
    BY <1>1, <1>3, FS_CardinalityType, InstanceAssumption
<1>5. PICK j \in Instance : j \notin inUse
  <2> HIDE DEF inUse
  <2>1. Instance \in SUBSET inUse => Cardinality(Instance) <= Cardinality(inUse)
    BY <1>3, FS_Subset
  <2>2. ~(Instance \in SUBSET inUse)
    BY <1>3, <1>4, <2>1, FS_CardinalityType, InstanceAssumption
  <2> QED
    BY <2>2
<1>6. ~Referenced(j)
  <2>1. flights[r].broker = None /\ flights[r].via = None
    BY DEF TypeInv, FlightsInv, FlightOK, Idle
  <2>2. j # router /\ \A q \in others : j # flights[q].broker /\ j # flights[q].via
    BY <1>5 DEF Range
  <2> QED
    BY <2>1, <2>2, CoordinatorAssumption DEF Referenced
<1> QED
  BY <1>6

\* A request that arrives, for operation f, on the Broker there is or on a new one.
LEMMA TypesArrive ==
  ASSUME TypeInv, NEW r \in Request, NEW f \in Flight, Arrive(r, f),
         f.op \in Operation, f.op = "exchange" => f.token \in SubjectToken,
         f.op # "exchange" => f.grant \in Grant, f.gives = "nothing"
  PROVE  /\ stores' \in [Instance -> Snapshot] /\ current' \in Instance \union {None}
         /\ ready' \subseteq Instance /\ router' \in Instance \union {None}
         /\ flights' \in [Request -> Flight] /\ FlightsInv'
<1>1. CASE current \in ready /\ router' = RouterAfter({f.op}, current)
           /\ flights' = [flights EXCEPT ![r] = Opened(f, current, router')]
           /\ UNCHANGED <<stores, current, ready>>
  <2>1. router' \in Instance \union {None} /\ (f.op # "expire" => router' \in Instance)
    BY <1>1 DEF TypeInv, TypeOK, RouterAfter
  <2>2. Opened(f, current, router') \in Flight /\ FlightOK(Opened(f, current, router'))
    BY <1>1, <2>1 DEF TypeInv, TypeOK, Opened, Flight, FlightOK, FlightState
  <2> QED
    BY <1>1, <2>1, <2>2, FlightMove DEF TypeInv, TypeOK
<1>2. CASE /\ SharesPending /\ UNCHANGED memory
           /\ flights' = [flights EXCEPT ![r] = [f EXCEPT !.at = "opening", !.broker = current]]
  <2>1. [f EXCEPT !.at = "opening", !.broker = current] \in Flight
    BY DEF TypeInv, TypeOK, Flight, FlightState
  <2>2. FlightOK([f EXCEPT !.at = "opening", !.broker = current])
    BY <1>2 DEF TypeInv, TypeOK, Flight, FlightOK, SharesPending
  <2> QED
    BY <1>2, <2>1, <2>2, FlightMove DEF TypeInv, TypeOK, memory
<1>3. CASE ~SharesPending
  <2>1. PICK i \in Instance :
          /\ current' = i
          /\ stores' = [j \in Instance |-> IF j = i THEN durable
                                           ELSE IF Referenced(j) THEN stores[j] ELSE EmptyStore]
          /\ ready' = {j \in ready : j # i /\ Referenced(j)}
          /\ flights' = [flights EXCEPT ![r] = [f EXCEPT !.at = "opening", !.broker = i]]
          /\ UNCHANGED router
    <3>1. flights[r].at = "idle" /\ current = None /\ current \notin ready
      BY <1>3, CoordinatorAssumption DEF Arrive, SharesPending, TypeInv, TypeOK
    <3>2. (CHOOSE j \in Instance : ~Referenced(j)) \in Instance
      BY <3>1, FreeSlot
    <3> QED
      BY <1>3, <3>1, <3>2 DEF Arrive
  <2>2. stores' \in [Instance -> Snapshot]
    <3>1. EmptyStore \in Snapshot
      BY DEF EmptyStore, Snapshot, GrantStatus
    <3> QED
      BY <2>1, <3>1 DEF TypeInv, TypeOK
  <2>3. [f EXCEPT !.at = "opening", !.broker = i] \in Flight
    BY DEF Flight, FlightState
  <2>4. FlightOK([f EXCEPT !.at = "opening", !.broker = i])
    BY DEF Flight, FlightOK
  <2> QED
    BY <2>1, <2>2, <2>3, <2>4, FlightMove DEF TypeInv, TypeOK
<1> QED
  BY <1>1, <1>2, <1>3 DEF Arrive
LEMMA TypesOpen ==
  ASSUME TypeInv, NEW r \in Request, Open(r)
  PROVE  TypeInv'
<1> DEFINE b == flights[r].broker
           opening == {q \in Request : flights[q].at = "opening" /\ flights[q].broker = b}
<1>1. b \in Instance
  BY DEF Open, TypeInv, FlightsInv, FlightOK
<1>2. /\ router' \in Instance \union {None}
      /\ \A q \in opening : flights[q].op # "expire" => router' \in Instance
  <2>1. router' = RouterAfter({flights[q].op : q \in opening}, b)
    BY DEF Open
  <2> QED
    BY <1>1, <2>1 DEF RouterAfter, TypeInv, TypeOK
<1>3. ASSUME NEW q \in Request
      PROVE  flights'[q] \in Flight /\ FlightOK(flights'[q])
  <2>1. flights'[q] = IF q \in opening THEN Opened(flights[q], b, router') ELSE flights[q]
    BY DEF Open
  <2>2. flights[q] \in Flight /\ FlightOK(flights[q])
    BY DEF TypeInv, TypeOK, FlightsInv
  <2>3. CASE q \in opening
    <3>1. Opened(flights[q], b, router') \in Flight
      BY <1>1, <1>2, <2>2, <2>3 DEF Opened, Flight, FlightState
    <3>2. FlightOK(Opened(flights[q], b, router'))
      BY <1>1, <1>2, <2>2, <2>3 DEF Opened, Flight, FlightOK
    <3> QED
      BY <2>1, <2>3, <3>1, <3>2
  <2> QED
    BY <2>1, <2>2, <2>3
<1>4. flights' \in [Request -> Flight] /\ FlightsInv'
  <2>1. flights' = [q \in Request |-> flights'[q]]
    BY DEF Open
  <2> QED
    BY <1>3, <2>1 DEF FlightsInv
<1>5. ready' \subseteq Instance
  BY <1>1 DEF Open, TypeInv, TypeOK
<1> QED
  BY <1>2, <1>4, <1>5 DEF Open, TypeInv, TypeOK, history

\* Every request that has its Broker has a store, and a grant unless it exchanges.
LEMMA StoreType ==
  ASSUME TypeInv, NEW r \in Request, Started(r)
  PROVE  /\ Store(r) \in Snapshot
         /\ flights[r] \in Flight /\ FlightOK(flights[r])
         /\ flights[r].broker \in Instance /\ flights[r].via \in Instance
         /\ flights[r].op \in Operation
         /\ flights[r].op = "exchange" => flights[r].token \in SubjectToken
         /\ flights[r].op # "exchange" => flights[r].grant \in Grant
         /\ flights[r].grant \in Grant \union {None}
BY DEF TypeInv, TypeOK, FlightsInv, FlightOK, Started, Store, Flight

\* A request carries out a transition that leaves a snapshot.
LEMMA TypesMove ==
  ASSUME TypeInv, NEW r \in Request, Started(r), NEW s \in Snapshot,
         NEW p \in FlightState \ {"idle", "opening"}, NEW g \in Grant \union {None},
         NEW gives \in {"nothing", "credential", "use", "evidence"},
         gives # "nothing" => g \in Grant, flights[r].op # "exchange" => g \in Grant,
         stores' = [stores EXCEPT ![flights[r].via] = s],
         flights' = [flights EXCEPT ![r] = [@ EXCEPT !.at = p, !.grant = g, !.gives = gives]]
  PROVE  stores' \in [Instance -> Snapshot] /\ flights' \in [Request -> Flight] /\ FlightsInv'
<1> DEFINE new == [flights[r] EXCEPT !.at = p, !.grant = g, !.gives = gives]
<1>1. new \in Flight /\ FlightOK(new)
  BY StoreType, AdvanceIsOK DEF Started
<1>2. flights' = [flights EXCEPT ![r] = new]
  OBVIOUS
<1>3. flights' \in [Request -> Flight] /\ FlightsInv'
  <2> HIDE DEF new
  <2> QED
    BY <1>1, <1>2, FlightMove
<1> QED
  BY <1>3, StoreType DEF TypeInv, TypeOK

LEMMA TypesGoes ==
  ASSUME TypeInv, NEW r \in Request, Started(r), NEW s \in Snapshot,
         NEW p \in FlightState \ {"idle", "opening"},
         NEW gives \in {"nothing", "credential", "use", "evidence"},
         gives # "nothing" => flights[r].grant \in Grant, Goes(r, s, p, gives)
  PROVE  /\ stores' \in [Instance -> Snapshot] /\ flights' \in [Request -> Flight] /\ FlightsInv'
         /\ UNCHANGED <<durable, current, ready, router, alarms, drawn, faults>>
<1>1. [flights[r] EXCEPT !.at = p, !.gives = gives]
        = [flights[r] EXCEPT !.at = p, !.grant = flights[r].grant, !.gives = gives]
  BY StoreType DEF Flight
<1>2. flights' = [flights EXCEPT ![r] =
                    [@ EXCEPT !.at = p, !.grant = flights[r].grant, !.gives = gives]]
  BY <1>1 DEF Goes
<1> QED
  BY <1>2, StoreType, TypesMove DEF Goes

\* A failure, an eviction or an answer ends a request.
LEMMA TypesEnd ==
  ASSUME TypeInv, NEW r \in Request, flights' = [flights EXCEPT ![r] = Idle]
  PROVE  flights' \in [Request -> Flight] /\ FlightsInv'
BY IdleIsOK, FlightMove

\* A request only waits for something else than before.
LEMMA TypesWait ==
  ASSUME TypeInv, NEW r \in Request, Started(r), NEW p \in FlightState \ {"idle", "opening"},
         flights' = [flights EXCEPT ![r].at = p]
  PROVE  flights' \in [Request -> Flight] /\ FlightsInv'
<1> DEFINE new == [flights[r] EXCEPT !.at = p]
<1>1. new \in Flight /\ FlightOK(new)
  BY StoreType DEF Flight, FlightOK, Started
<1>2. flights' = [flights EXCEPT ![r] = new]
  OBVIOUS
<1> QED
  <2> HIDE DEF new
  <2> QED
    BY <1>1, <1>2, FlightMove

\* What the two larger writes leave of a snapshot.
WithGrant(s, g, status, t, h) == [s EXCEPT !.status[g] = status, !.token[g] = t, !.holder[t] = h]
WithEnd(s, g, status, e) == [s EXCEPT !.status[g] = status, !.evidence[g] = e]

LEMMA CreateFields ==
  ASSUME NEW s \in Snapshot, NEW g \in Grant, NEW t \in SubjectToken, NEW status \in GrantStatus,
         NEW h \in Grant \union {None}, NEW n,
         n = WithGrant(s, g, status, t, h)
  PROVE  /\ n \in Snapshot /\ n.evidence = s.evidence
         /\ \A x \in Grant : /\ n.status[x] = IF x = g THEN status ELSE s.status[x]
                            /\ n.token[x] = IF x = g THEN t ELSE s.token[x]
         /\ \A u \in SubjectToken : n.holder[u] = IF u = t THEN h ELSE s.holder[u]
<1>1. n = [status |-> [s.status EXCEPT ![g] = status], token |-> [s.token EXCEPT ![g] = t],
           evidence |-> s.evidence, holder |-> [s.holder EXCEPT ![t] = h]]
  BY DEF Snapshot, WithGrant
<1> QED
  BY <1>1 DEF Snapshot

LEMMA EndFields ==
  ASSUME NEW s \in Snapshot, NEW g \in Grant, NEW status \in GrantStatus, NEW e \in Nat, NEW n,
         n = WithEnd(s, g, status, e)
  PROVE  /\ n \in Snapshot /\ n.token = s.token /\ n.holder = s.holder
         /\ \A x \in Grant : /\ n.status[x] = IF x = g THEN status ELSE s.status[x]
                            /\ n.evidence[x] = IF x = g THEN e ELSE s.evidence[x]
<1>1. n = [status |-> [s.status EXCEPT ![g] = status], token |-> s.token,
           evidence |-> [s.evidence EXCEPT ![g] = e], holder |-> s.holder]
  BY DEF Snapshot, WithEnd
<1> QED
  BY <1>1 DEF Snapshot

LEMMA FinalStatusType == \A op \in Operation : FinalStatus(op) \in Final
BY DEF FinalStatus, Final

LEMMA TypesExchange ==
  ASSUME TypeInv, NEW r \in Request, NEW g \in Grant, NEW d \in Decision, Exchange(r, g, d)
  PROVE  TypeInv'
<1> DEFINE status == CASE d = "allow" -> "approved" [] d = "block" -> "denied" [] OTHER -> "proposed"
           t == flights[r].token
           s == [Store(r) EXCEPT !.status[g] = status, !.token[g] = t,
                                 !.holder[t] = IF d = "allow" THEN g ELSE @]
           p == IF d = "block" THEN "settling" ELSE "scheduling"
           gives == IF d = "allow" THEN "credential" ELSE "nothing"
<1>1. Started(r) /\ t \in SubjectToken
  BY DEF Exchange, TypeInv, FlightsInv, FlightOK, Started
<1>2. s \in Snapshot
  <2>1. status \in GrantStatus
    BY DEF GrantStatus, Active
  <2> DEFINE h == IF d = "allow" THEN g ELSE Store(r).holder[t]
  <2>2. Store(r) \in Snapshot /\ h \in Grant \union {None}
    BY <1>1, StoreType DEF Snapshot
  <2>3. s = WithGrant(Store(r), g, status, t, h)
    BY DEF WithGrant
  <2> HIDE DEF status, s, t, h
  <2> QED
    BY <1>1, <2>1, <2>2, <2>3, CreateFields
<1>3. p \in FlightState \ {"idle", "opening"} /\ gives \in {"nothing", "credential", "use", "evidence"}
  BY DEF FlightState
<1>4. /\ stores' = [stores EXCEPT ![flights[r].via] = s]
      /\ flights' = [flights EXCEPT ![r] = [@ EXCEPT !.at = p, !.grant = g, !.gives = gives]]
  BY DEF Exchange
<1>5. stores' \in [Instance -> Snapshot] /\ flights' \in [Request -> Flight] /\ FlightsInv'
  <2> HIDE DEF s, p, gives
  <2> QED
    BY <1>1, <1>2, <1>3, <1>4, TypesMove
<1> QED
  BY <1>5 DEF Exchange, TypeInv, TypeOK, history

LEMMA TypesFinalize ==
  ASSUME TypeInv, NEW r \in Request, Finalize(r)
  PROVE  TypeInv'
<1> DEFINE g == flights[r].grant
           s == [Store(r) EXCEPT !.status[g] = FinalStatus(flights[r].op), !.evidence[g] = records[g] + 1]
<1>1. Started(r) /\ g \in Grant
  BY DEF Finalize, TypeInv, FlightsInv, FlightOK, Started
<1>2. s \in Snapshot
  <2> DEFINE status == FinalStatus(flights[r].op)
             e == records[g] + 1
  <2>1. Store(r) \in Snapshot /\ status \in GrantStatus /\ e \in Nat
    BY <1>1, StoreType, FinalStatusType DEF GrantStatus, TypeInv, TypeOK
  <2>2. s = WithEnd(Store(r), g, status, e)
    BY DEF WithEnd
  <2> HIDE DEF g, s, status, e
  <2> QED
    BY <1>1, <2>1, <2>2, EndFields
<1>3. Goes(r, s, "settling", "evidence")
  BY DEF Finalize
<1>4. /\ stores' \in [Instance -> Snapshot] /\ flights' \in [Request -> Flight] /\ FlightsInv'
      /\ UNCHANGED <<durable, current, ready, router, alarms, drawn, faults>>
  <2> HIDE DEF s
  <2> QED
    BY <1>1, <1>2, <1>3, TypesGoes DEF FlightState
<1>5. records' \in [Grant -> Nat]
  BY <1>1 DEF Finalize, TypeInv, TypeOK
<1> QED
  BY <1>4, <1>5 DEF Finalize, TypeInv, TypeOK

\* The transitions that make no grant and no evidence.
LEMMA TypesTransition ==
  ASSUME TypeInv, NEW r \in Request, Refuse(r) \/ Approve(r) \/ Consume(r) \/ FinalizeAgain(r)
  PROVE  TypeInv'
<1>1. Started(r)
  BY DEF Refuse, Approve, Consume, FinalizeAgain, Started
<1>2. PICK s \in Snapshot, p \in FlightState \ {"idle", "opening"},
           gives \in {"nothing", "credential", "use", "evidence"} :
        /\ Goes(r, s, p, gives)
        /\ gives # "nothing" => flights[r].grant \in Grant
        /\ UNCHANGED history
  <2>1. CASE Refuse(r)
    BY <1>1, <2>1, StoreType DEF Refuse, FlightState
  <2>2. CASE FinalizeAgain(r)
    BY <1>1, <2>2, StoreType DEF FinalizeAgain, FlightState
  <2>3. CASE Consume(r)
    <3>1. [Store(r) EXCEPT !.status[flights[r].grant] = "consumed"] \in Snapshot
      BY <1>1, StoreType DEF Snapshot, GrantStatus, Active
    <3>2. flights[r].grant \in Grant
      BY <1>1, <2>3, StoreType DEF Consume
    <3> QED
      BY <2>3, <3>1, <3>2 DEF Consume, FlightState
  <2>4. CASE Approve(r)
    <3> DEFINE g == flights[r].grant
               t == Store(r).token[g]
    <3>1. g \in Grant
      BY <1>1, <2>4, StoreType DEF Approve
    <3>2. [Store(r) EXCEPT !.status[g] = "approved", !.holder[t] = g] \in Snapshot
      BY <1>1, <3>1, StoreType DEF Snapshot, GrantStatus, Active
    <3> QED
      BY <2>4, <3>1, <3>2 DEF Approve, FlightState
  <2> QED
    BY <2>1, <2>2, <2>3, <2>4
<1>3. /\ stores' \in [Instance -> Snapshot] /\ flights' \in [Request -> Flight] /\ FlightsInv'
      /\ UNCHANGED <<durable, current, ready, router, alarms, drawn, faults>>
  BY <1>1, <1>2, TypesGoes
<1> QED
  BY <1>2, <1>3 DEF TypeInv, TypeOK, history

LEMMA TypesAnswer ==
  ASSUME TypeInv, NEW r \in Request, Answer(r)
  PROVE  TypeInv'
<1> DEFINE g == flights[r].grant
<1>1. Started(r)
  BY DEF Answer, Started
<1>2. flights' \in [Request -> Flight] /\ FlightsInv'
  BY TypesEnd DEF Answer
<1>3. flights[r].gives # "nothing" => g \in Grant /\ Store(r).evidence[g] \in Nat
  BY <1>1, StoreType DEF FlightOK, Snapshot
<1>4. issued' \subseteq Grant /\ uses' \in [Grant -> Nat] /\ shown' \in [Grant -> SUBSET Nat]
  BY <1>3 DEF Answer, TypeInv, TypeOK
<1>5. alarms' \in [Grant -> AlarmState]
  BY DEF Answer, CallbackEnds, TypeInv, TypeOK, AlarmState
<1> QED
  BY <1>2, <1>4, <1>5 DEF Answer, TypeInv, TypeOK, memory

LEMMA TypesFail ==
  ASSUME TypeInv, NEW r \in Request, FailsOver(r), faults' \in 0..MaxFaults
  PROVE  TypeInv'
<1>1. flights' \in [Request -> Flight] /\ FlightsInv'
  BY TypesEnd DEF FailsOver
<1>2. alarms' \in [Grant -> AlarmState]
  BY DEF FailsOver, CallbackEnds, TypeInv, TypeOK, AlarmState
<1> QED
  BY <1>1, <1>2 DEF FailsOver, Reset, TypeInv, TypeOK, history

LEMMA TypesStart ==
  ASSUME TypeInv, NEW r \in Request
  PROVE  /\ Start(r) => TypeInv'
         /\ \A g \in Grant : FireAlarm(r, g) => TypeInv'
<1>1. ASSUME NEW f \in Flight, Arrive(r, f), f.gives = "nothing", f.op \in Operation,
             f.op = "exchange" => f.token \in SubjectToken, f.op # "exchange" => f.grant \in Grant,
             alarms' \in [Grant -> AlarmState]
      PROVE  TypeInv'
  BY <1>1, TypesArrive DEF Arrive, TypeInv, TypeOK, history
<1>2. ASSUME StartExchange(r) PROVE TypeInv'
  <2>1. PICK t \in SubjectToken : Arrive(r, [Idle EXCEPT !.op = "exchange", !.token = t])
    BY <1>2 DEF StartExchange
  <2> DEFINE f == [Idle EXCEPT !.op = "exchange", !.token = t]
  <2>2. f \in Flight /\ f.gives = "nothing" /\ f.op = "exchange" /\ f.token = t
    BY DEF Idle, Flight, FlightState, Operation
  <2> QED
    <3> HIDE DEF f
    <3> QED
      BY <1>1, <1>2, <2>1, <2>2 DEF StartExchange, Operation, f, TypeInv, TypeOK
<1>3. ASSUME NEW g \in Grant, NEW op \in Operation \ {"exchange"},
             Arrive(r, [Idle EXCEPT !.op = op, !.grant = g]), alarms' \in [Grant -> AlarmState]
      PROVE  TypeInv'
  <2> DEFINE f == [Idle EXCEPT !.op = op, !.grant = g]
  <2>1. f \in Flight /\ f.gives = "nothing" /\ f.op = op /\ f.grant = g
    BY DEF Idle, Flight, FlightState
  <2> QED
    <3>1. Arrive(r, f)
      BY <1>3
    <3> HIDE DEF f
    <3> QED
      BY <1>1, <1>3, <2>1, <3>1
<1>4. ASSUME NEW g \in Grant, NEW op \in Operation, StartOperation(r, g, op) PROVE TypeInv'
  <2>1. op # "exchange" /\ alarms' \in [Grant -> AlarmState]
    BY <1>4 DEF StartOperation, TypeInv, TypeOK
  <2> QED
    BY <1>3, <1>4, <2>1 DEF StartOperation
<1>5. ASSUME NEW g \in Grant, FireAlarm(r, g) PROVE TypeInv'
  <2>1. alarms' \in [Grant -> AlarmState]
    BY <1>5 DEF FireAlarm, TypeInv, TypeOK, AlarmState
  <2> QED
    BY <1>3, <1>5, <2>1 DEF FireAlarm, Operation
<1> QED
  BY <1>2, <1>4, <1>5 DEF Start

LEMMA TypesProceed ==
  ASSUME TypeInv, NEW r \in Request, Proceed(r)
  PROVE  TypeInv'
<1>1. CASE ExpireUnknown(r)
  BY <1>1, TypesFail DEF ExpireUnknown, TypeInv, TypeOK
<1>2. ASSUME NEW g \in Grant, Repeat(r, g) PROVE TypeInv'
  <2> DEFINE new == [flights[r] EXCEPT !.at = "scheduling", !.grant = g]
  <2>1. Started(r)
    BY <1>2 DEF Repeat, Started
  <2>2. new \in Flight /\ FlightOK(new)
    BY <2>1, StoreType DEF Flight, FlightState, FlightOK, Started
  <2>3. flights' = [flights EXCEPT ![r] = new]
    BY <1>2 DEF Repeat
  <2>4. flights' \in [Request -> Flight] /\ FlightsInv'
    <3> HIDE DEF new
    <3> QED
      BY <2>2, <2>3, FlightMove
  <2> QED
    BY <1>2, <2>4 DEF Repeat, TypeInv, TypeOK, memory, history
<1>3. CASE ScheduleAlarm(r)
  <2>1. flights' \in [Request -> Flight] /\ FlightsInv'
    BY <1>3, TypesWait DEF ScheduleAlarm, Started, FlightState
  <2> QED
    BY <1>3, <2>1 DEF ScheduleAlarm, TypeInv, TypeOK, memory, history, AlarmState
<1>4. CASE Persist(r)
  <2>1. Started(r)
    BY <1>4 DEF Persist, Started
  <2>2. flights' \in [Request -> Flight] /\ FlightsInv'
    BY <1>4, <2>1, TypesWait DEF Persist, FlightState
  <2> QED
    BY <1>4, <2>1, <2>2, StoreType DEF Persist, TypeInv, TypeOK, memory, history
<1> QED
  BY <1>1, <1>2, <1>3, <1>4, TypesOpen, TypesExchange, TypesFinalize, TypesTransition, TypesAnswer
  DEF Proceed

LEMMA TypesNext == TypeInv /\ [Next]_vars => TypeInv'
<1> SUFFICES ASSUME TypeInv, [Next]_vars PROVE TypeInv'
  OBVIOUS
<1>1. ASSUME NEW r \in Request, Fail(r) PROVE TypeInv'
  BY <1>1, TypesFail, CoordinatorAssumption DEF Fail, TypeInv, TypeOK
<1>2. CASE Evict
  <2>1. flights' \in [Request -> Flight] /\ FlightsInv'
    BY <1>2, IdleIsOK DEF Evict, FlightsInv
  <2> QED
    BY <1>2, <2>1, CoordinatorAssumption DEF Evict, Reset, TypeInv, TypeOK, AlarmState, history
<1>3. CASE UNCHANGED vars
  BY <1>3 DEF vars, memory, history, TypeInv, TypeOK, FlightsInv
<1> QED
  BY <1>1, <1>2, <1>3, TypesStart, TypesProceed DEF Next, Alarm

LEMMA TypesInit == Init => TypeInv
<1> SUFFICES ASSUME Init PROVE TypeInv
  OBVIOUS
<1>1. EmptyStore \in Snapshot
  BY DEF EmptyStore, Snapshot, GrantStatus
<1>2. FlightsInv
  BY IdleIsOK DEF Init, FlightsInv
<1> QED
  BY <1>1, <1>2, IdleIsOK, CoordinatorAssumption DEF Init, TypeInv, TypeOK, AlarmState

LEMMA TypesHold == Spec => []TypeInv
BY TypesInit, TypesNext, PTL DEF Spec

\* Every variable keeps its type, whatever fails and however the requests interleave: the
\* Broker that a request uses or persists is one that is still there.
THEOREM TypeCorrect == Spec => []TypeOK
<1>1. TypeInv => TypeOK
  BY DEF TypeInv
<1> QED
  BY <1>1, TypesHold, PTL

-----------------------------------------------------------------------------
(* Snapshots only grow *)

LEMMA ExtendsItself == \A s : Extends(s, s)
BY DEF Extends, Onward

LEMMA ExtendsOnward ==
  ASSUME NEW c \in Snapshot, NEW s \in Snapshot, NEW d \in Snapshot, Extends(s, c), Extends(c, d)
  PROVE  Extends(s, d)
<1>1. ASSUME NEW g \in Grant
      PROVE  /\ Onward(d.status[g], s.status[g])
             /\ d.status[g] # "absent" => s.token[g] = d.token[g]
             /\ d.evidence[g] # 0 => s.evidence[g] = d.evidence[g]
  BY DEF Extends, Onward, Final
<1>2. ASSUME NEW t \in SubjectToken, d.holder[t] # None
      PROVE  s.holder[t] = d.holder[t]
  BY <1>2 DEF Extends
<1> QED
  BY <1>1, <1>2 DEF Extends

\* What a grant was given, a later snapshot still gives it.
LEMMA GrantedKept ==
  ASSUME NEW d \in Snapshot, NEW s \in Snapshot, WellFormed(d), Extends(s, d),
         NEW g \in Grant, Granted(d, g)
  PROVE  Granted(s, g)
<1>1. d.token[g] \in SubjectToken /\ d.holder[d.token[g]] # None /\ d.status[g] # "absent"
  BY CoordinatorAssumption DEF Granted, WellFormed, Final
<1>2. s.status[g] \in {"approved", "consumed"} \union Final
  BY DEF Granted, Extends, Onward, Final
<1> QED
  BY <1>1, <1>2 DEF Granted, Extends

LEMMA UsedKept ==
  ASSUME NEW s, NEW d, Extends(s, d), NEW g \in Grant, d.status[g] \in {"consumed"} \union Final
  PROVE  s.status[g] \in {"consumed"} \union Final
BY DEF Extends, Onward, Final

LEMMA BackedKept ==
  ASSUME NEW d \in Snapshot, NEW s \in Snapshot, WellFormed(d), Extends(s, d), NEW f \in Flight,
         f.gives # "nothing" => f.grant \in Grant, Backed(d, f)
  PROVE  Backed(s, f)
<1>1. f.gives = "evidence" => s.evidence[f.grant] # 0
  BY DEF Backed, Extends
<1> QED
  BY <1>1, GrantedKept, UsedKept DEF Backed

\* The writes: a new grant, an approval, a use and an end.
LEMMA CreateKeeps ==
  ASSUME NEW s \in Snapshot, WellFormed(s), NEW g \in Grant, NEW t \in SubjectToken,
         NEW status \in {"approved", "proposed", "denied"}, s.status[g] = "absent", NEW n \in Snapshot,
         status = "approved" => s.holder[t] \in {None, g},
         NEW h, h = IF status = "approved" THEN g ELSE s.holder[t],
         n.evidence = s.evidence,
         \A x \in Grant : /\ n.status[x] = IF x = g THEN status ELSE s.status[x]
                         /\ n.token[x] = IF x = g THEN t ELSE s.token[x],
         \A u \in SubjectToken : n.holder[u] = IF u = t THEN h ELSE s.holder[u]
  PROVE  WellFormed(n) /\ Extends(n, s) /\ (status = "approved" => Granted(n, g))
<1>1. \A x \in Grant : x # g => n.status[x] = s.status[x] /\ n.token[x] = s.token[x]
  BY DEF Snapshot
<1>2. n.status[g] = status /\ n.token[g] = t
  BY DEF Snapshot
<1>3. \A u \in SubjectToken : n.holder[u] = IF u = t /\ status = "approved" THEN g ELSE s.holder[u]
  BY DEF Snapshot
<1>4. \A u \in SubjectToken : s.holder[u] # g /\ (s.holder[u] # None => s.holder[u] \in Grant)
  BY CoordinatorAssumption DEF WellFormed, Snapshot
<1>5. Extends(n, s)
  BY <1>1, <1>2, <1>3, <1>4 DEF Extends, Onward
<1>6. s.evidence[g] = 0
  BY DEF WellFormed, Final
<1>7. \A x \in Grant :
        /\ n.status[x] \in Final <=> n.evidence[x] # 0
        /\ n.status[x] # "absent" => n.token[x] \in SubjectToken
  BY <1>1, <1>2, <1>6 DEF WellFormed, Final
<1>8. \A x \in Grant : n.status[x] \in {"approved", "consumed"} => n.holder[n.token[x]] = x
  BY <1>1, <1>2, <1>3, <1>4, CoordinatorAssumption DEF WellFormed
<1>9. \A u \in SubjectToken : n.holder[u] # None =>
        n.status[n.holder[u]] \notin {"absent", "proposed", "denied"}
  BY <1>1, <1>2, <1>3, <1>4 DEF WellFormed
<1> QED
  BY <1>2, <1>3, <1>5, <1>7, <1>8, <1>9 DEF WellFormed, Granted

LEMMA ApproveKeeps ==
  ASSUME NEW s \in Snapshot, WellFormed(s), NEW g \in Grant, s.status[g] = "proposed",
         s.holder[s.token[g]] \in {None, g}, NEW n,
         n = [s EXCEPT !.status[g] = "approved", !.holder[s.token[g]] = g]
  PROVE  n \in Snapshot /\ WellFormed(n) /\ Extends(n, s) /\ Granted(n, g)
<1> DEFINE t == s.token[g]
<1>1. t \in SubjectToken
  BY DEF WellFormed
<1>2. n = [status |-> [s.status EXCEPT ![g] = "approved"], token |-> s.token,
           evidence |-> s.evidence, holder |-> [s.holder EXCEPT ![t] = g]]
  BY DEF Snapshot
<1>3. n \in Snapshot
  <2>1. [s.status EXCEPT ![g] = "approved"] \in [Grant -> GrantStatus]
    BY DEF Snapshot, GrantStatus, Active
  <2>2. [s.holder EXCEPT ![t] = g] \in [SubjectToken -> Grant \union {None}]
    BY DEF Snapshot
  <2> QED
    BY <1>2, <2>1, <2>2 DEF Snapshot
<1>4. /\ n.token = s.token /\ n.evidence = s.evidence
      /\ \A h \in Grant : n.status[h] = IF h = g THEN "approved" ELSE s.status[h]
      /\ \A u \in SubjectToken : n.holder[u] = IF u = t THEN g ELSE s.holder[u]
  BY <1>2 DEF Snapshot
<1> HIDE DEF t
<1>5. Extends(n, s)
  BY <1>4 DEF Extends, Onward, t
<1>6. \A h \in Grant :
        /\ n.status[h] \in Final <=> n.evidence[h] # 0
        /\ n.status[h] # "absent" => n.token[h] \in SubjectToken
        /\ n.status[h] \in {"approved", "consumed"} => n.holder[n.token[h]] = h
  BY <1>4, CoordinatorAssumption DEF WellFormed, Final, t
<1>7. \A u \in SubjectToken : n.holder[u] # None =>
        n.status[n.holder[u]] \notin {"absent", "proposed", "denied"}
  <2>1. \A u \in SubjectToken : s.holder[u] \in Grant \union {None}
    BY DEF Snapshot
  <2> QED
    BY <1>4, <2>1 DEF WellFormed
<1> QED
  BY <1>1, <1>3, <1>4, <1>5, <1>6, <1>7 DEF WellFormed, Granted, t

LEMMA UseKeeps ==
  ASSUME NEW s \in Snapshot, WellFormed(s), NEW g \in Grant, s.status[g] = "approved", NEW n,
         n = [s EXCEPT !.status[g] = "consumed"]
  PROVE  n \in Snapshot /\ WellFormed(n) /\ Extends(n, s) /\ n.status[g] = "consumed"
<1>1. n = [status |-> [s.status EXCEPT ![g] = "consumed"], token |-> s.token,
           evidence |-> s.evidence, holder |-> s.holder]
  BY DEF Snapshot
<1>2. n \in Snapshot
  BY <1>1 DEF Snapshot, GrantStatus, Active
<1>3. /\ n.token = s.token /\ n.evidence = s.evidence /\ n.holder = s.holder
      /\ \A h \in Grant : n.status[h] = IF h = g THEN "consumed" ELSE s.status[h]
  BY <1>1 DEF Snapshot
<1>4. Extends(n, s)
  BY <1>3 DEF Extends, Onward
<1>5. \A u \in SubjectToken : s.holder[u] \in Grant \union {None}
  BY DEF Snapshot
<1> QED
  BY <1>2, <1>3, <1>4, <1>5 DEF WellFormed, Final

LEMMA EndKeeps ==
  ASSUME NEW s \in Snapshot, WellFormed(s), NEW g \in Grant, s.status[g] \in Active,
         NEW status \in Final, NEW e \in Nat \ {0}, NEW n \in Snapshot,
         n.token = s.token, n.holder = s.holder,
         \A x \in Grant : /\ n.status[x] = IF x = g THEN status ELSE s.status[x]
                         /\ n.evidence[x] = IF x = g THEN e ELSE s.evidence[x]
  PROVE  WellFormed(n) /\ Extends(n, s) /\ n.evidence[g] # 0
<1>1. \A h \in Grant : /\ n.status[h] = IF h = g THEN status ELSE s.status[h]
                       /\ n.evidence[h] = IF h = g THEN e ELSE s.evidence[h]
  BY DEF Snapshot
<1>2. s.evidence[g] = 0
  BY DEF WellFormed, Active, Final
<1>3. Extends(n, s)
  BY <1>1, <1>2 DEF Extends, Onward, Active, Final
<1>4. \A u \in SubjectToken : s.holder[u] \in Grant \union {None}
  BY DEF Snapshot
<1>5. \A h \in Grant :
        /\ n.status[h] \in Final <=> n.evidence[h] # 0
        /\ n.status[h] # "absent" => n.token[h] \in SubjectToken
        /\ n.status[h] \in {"approved", "consumed"} => n.holder[n.token[h]] = h
  BY <1>1 DEF WellFormed, Active, Final
<1>6. \A u \in SubjectToken : n.holder[u] # None =>
        n.status[n.holder[u]] \notin {"absent", "proposed", "denied"}
  BY <1>1, <1>4 DEF WellFormed, Final
<1> QED
  BY <1>1, <1>3, <1>5, <1>6 DEF WellFormed

-----------------------------------------------------------------------------
(* Preservation of the inductive invariant *)

\* What a request that has its Broker knows: it is the one the others use, and its store
\* is well formed and at least as far as the stored snapshot.
LEMMA StartedKnows ==
  ASSUME IInv, NEW r \in Request, Started(r)
  PROVE  /\ flights[r].broker = current /\ flights[r].via = current /\ current \in ready
         /\ current \in Instance /\ current # None /\ router \in {None, current}
         /\ Store(r) = stores[current] /\ Store(r) \in Snapshot /\ durable \in Snapshot
         /\ WellFormed(stores[current]) /\ Extends(stores[current], durable)
         /\ flights[r] \in Flight /\ FlightOK(flights[r])
         /\ flights[r].op \in Operation
         /\ flights[r].op = "exchange" => flights[r].token \in SubjectToken
         /\ flights[r].op # "exchange" => flights[r].grant \in Grant
<1>1. TypeInv
  BY DEF IInv
<1>2. flights[r].broker = current /\ flights[r].via = current /\ current \in ready /\ router \in {None, current}
  BY DEF IInv, OneBroker, Started
<1>3. current \in Instance /\ current # None
  BY <1>1, <1>2, StoreType, CoordinatorAssumption
<1> QED
  BY <1>1, <1>2, <1>3, StoreType DEF IInv, SnapshotInv, Store, TypeInv, TypeOK

\* Before any Broker is there nobody is in flight.
LEMMA NobodyIsLeft ==
  ASSUME IInv, current = None, NEW r \in Request
  PROVE  flights[r] = Idle
BY CoordinatorAssumption DEF IInv, OneBroker, TypeInv, FlightsInv, FlightOK

\* Request r carries out its transition, which takes the store to s.
LEMMA TransitionKeeps ==
  ASSUME IInv, NEW r \in Request, flights[r].at = "waiting", NEW s \in Snapshot, WellFormed(s),
         Extends(s, stores[current]), NEW p \in {"scheduling", "settling"},
         NEW g \in Grant \union {None}, NEW gives \in {"nothing", "credential", "use", "evidence"},
         gives # "nothing" => g \in Grant,
         Backed(s, [flights[r] EXCEPT !.at = p, !.grant = g, !.gives = gives]),
         gives = "use" => stores[current].status[g] = "approved",
         stores' = [stores EXCEPT ![flights[r].via] = s],
         flights' = [flights EXCEPT ![r] = [@ EXCEPT !.at = p, !.grant = g, !.gives = gives]],
         UNCHANGED <<durable, current, ready, router, issued, uses, shown>>,
         drawn \subseteq drawn', \A h \in Grant : s.status[h] # "absent" => h \in drawn'
  PROVE  OneBroker' /\ SnapshotInv' /\ FlightsBacked' /\ HistoryInv' /\ stores'[current] = s
<1> DEFINE new == [flights[r] EXCEPT !.at = p, !.grant = g, !.gives = gives]
<1>0. Started(r)
  BY DEF Started
<1>1. /\ new \in Flight /\ new.at = p /\ new.grant = g /\ new.gives = gives
      /\ new.broker = current /\ new.via = current /\ Backed(s, new)
  BY <1>0, StartedKnows DEF Flight, FlightState
<1>2. flights' = [flights EXCEPT ![r] = new]
  OBVIOUS
<1>3. \A q \in Request : flights'[q] = IF q = r THEN new ELSE flights[q]
  BY <1>2 DEF IInv, TypeInv, TypeOK
<1> HIDE DEF new
<1>4. stores'[current'] = s /\ current' = current /\ current # None
  BY <1>0, StartedKnows DEF IInv, TypeInv, TypeOK
<1>5. OneBroker'
  BY <1>0, <1>1, <1>3, StartedKnows DEF IInv, OneBroker, Started
<1>6. SnapshotInv'
  <2>1. Extends(s, durable)
    BY <1>0, StartedKnows, ExtendsOnward
  <2>2. \A h \in Grant : durable'.status[h] # "absent" => h \in drawn'
    BY DEF IInv, SnapshotInv
  <2>3. WellFormed(durable)
    BY DEF IInv, SnapshotInv
  <2> QED
    BY <1>4, <2>1, <2>2, <2>3 DEF SnapshotInv
<1>7. FlightsBacked'
  <2> SUFFICES ASSUME NEW q \in Request
               PROVE  /\ flights'[q].at \in {"idle", "opening", "waiting"} => flights'[q].gives = "nothing"
                      /\ Started(q)' => Backed(s, flights'[q])
                      /\ flights'[q].at = "answering" => Backed(durable, flights'[q])
    BY <1>4 DEF FlightsBacked
  <2>1. CASE q = r
    BY <1>1, <1>3, <2>1
  <2>2. CASE q # r
    <3>1. flights'[q] = flights[q]
      BY <1>3, <2>2
    <3>2. Started(q) => Backed(s, flights[q])
      <4>1. Started(q) => Backed(stores[current], flights[q])
        BY DEF IInv, FlightsBacked
      <4>2. flights[q].gives # "nothing" => flights[q].grant \in Grant
        BY DEF IInv, TypeInv, FlightsInv, FlightOK
      <4> QED
        BY <1>0, <4>1, <4>2, StartedKnows, BackedKept DEF IInv, TypeInv, TypeOK
    <3> QED
      BY <3>1, <3>2 DEF IInv, FlightsBacked, Started
  <2> QED
    BY <2>1, <2>2
<1>8. HistoryInv'
  <2>1. ASSUME gives = "use"
        PROVE  /\ uses[g] = 0
               /\ \A q \in Request \ {r} : flights[q].gives = "use" => flights[q].grant # g
    <3>1. g \in Grant
      BY <2>1
    <3>2. uses[g] = 0
      <4>1. uses[g] \in Nat /\ uses[g] <= 1
            /\ (uses[g] = 1 => durable.status[g] \in {"consumed"} \union Final)
        BY <3>1 DEF IInv, HistoryInv, UsedAtMostOnce, TypeInv, TypeOK
      <4>2. durable.status[g] \notin {"consumed"} \union Final
        BY <1>0, <2>1, <3>1, StartedKnows, UsedKept DEF Final
      <4> QED
        BY <4>1, <4>2
    <3>3. ASSUME NEW q \in Request \ {r}, flights[q].gives = "use", flights[q].grant = g PROVE FALSE
      BY <2>1, <3>3 DEF IInv, FlightsBacked, Started, Backed, Final
    <3> QED
      BY <3>2, <3>3
  <2>2. ASSUME NEW q \in Request, flights'[q].gives = "use"
        PROVE  /\ uses[flights'[q].grant] = 0
               /\ \A u \in Request \ {q} : flights'[u].gives = "use" => flights'[u].grant # flights'[q].grant
    BY <1>1, <1>3, <2>1, <2>2 DEF IInv, HistoryInv
  <2> QED
    BY <2>2 DEF IInv, HistoryInv, UsedAtMostOnce
<1> QED
  BY <1>4, <1>5, <1>6, <1>7, <1>8

\* The transitions of a request on its Broker.
LEMMA KeepsExchange ==
  ASSUME IInv, NEW r \in Request, NEW g \in Grant, NEW d \in Decision, Exchange(r, g, d)
  PROVE  /\ OneBroker' /\ SnapshotInv' /\ FlightsBacked' /\ HistoryInv'
         /\ Extends(stores'[current], stores[current])
         /\ stores'[current].status[g] \in (IF d = "block" THEN {"denied"} ELSE {"approved", "proposed"})
         /\ \A x \in Grant \ {g} : stores'[current].status[x] = stores[current].status[x]
<1> DEFINE status == CASE d = "allow" -> "approved" [] d = "block" -> "denied" [] OTHER -> "proposed"
           t == flights[r].token
           h == IF status = "approved" THEN g ELSE Store(r).holder[t]
           s == [Store(r) EXCEPT !.status[g] = status, !.token[g] = t, !.holder[t] = h]
           p == IF d = "block" THEN "settling" ELSE "scheduling"
           gives == IF d = "allow" THEN "credential" ELSE "nothing"
<1>1. Started(r) /\ flights[r].at = "waiting" /\ t \in SubjectToken
  BY StartedKnows DEF Exchange, Started
<1>2. /\ status \in {"approved", "proposed", "denied"} /\ (status = "approved" <=> d = "allow")
      /\ status \in GrantStatus /\ p \in {"scheduling", "settling"}
      /\ gives \in {"nothing", "credential", "use", "evidence"} /\ gives # "use" /\ gives # "evidence"
      /\ (gives = "credential" <=> status = "approved")
  BY DEF GrantStatus, Active, Decision
<1>3. /\ stores' = [stores EXCEPT ![flights[r].via] = s]
      /\ flights' = [flights EXCEPT ![r] = [@ EXCEPT !.at = p, !.grant = g, !.gives = gives]]
      /\ UNCHANGED <<durable, current, ready, router, issued, uses, shown>>
      /\ drawn' = drawn \union {g} /\ g \notin drawn
      /\ status = "approved" => Store(r).holder[t] \in {None, g}
  BY DEF Exchange, history, Reservable
<1>4. Store(r) \in Snapshot /\ Store(r) = stores[current] /\ WellFormed(Store(r)) /\ h \in Grant \union {None}
  <2>1. Store(r) \in Snapshot /\ Store(r) = stores[current] /\ WellFormed(Store(r))
    BY <1>1, StartedKnows
  <2> QED
    BY <1>1, <2>1 DEF Snapshot
<1>5. Store(r).status[g] = "absent" /\ \A x \in Grant : Store(r).status[x] # "absent" => x \in drawn
  BY <1>1, <1>3, <1>4, StartedKnows DEF IInv, SnapshotInv
<1>s. s = WithGrant(Store(r), g, status, t, h)
  BY DEF WithGrant
<1>h. h = IF status = "approved" THEN g ELSE Store(r).holder[t]
  OBVIOUS
<1> HIDE DEF status, t, h, s, p, gives
<1>6. /\ s \in Snapshot
      /\ s.evidence = Store(r).evidence
      /\ \A x \in Grant : /\ s.status[x] = IF x = g THEN status ELSE Store(r).status[x]
                         /\ s.token[x] = IF x = g THEN t ELSE Store(r).token[x]
      /\ \A u \in SubjectToken : s.holder[u] = IF u = t THEN h ELSE Store(r).holder[u]
  <2>1. t \in SubjectToken /\ status \in GrantStatus /\ Store(r) \in Snapshot /\ h \in Grant \union {None}
    BY <1>1, <1>2, <1>4
  <2> QED
    BY <2>1, <1>s, CreateFields
<1>7. WellFormed(s) /\ Extends(s, Store(r)) /\ (status = "approved" => Granted(s, g))
  <2>1. /\ Store(r) \in Snapshot /\ WellFormed(Store(r)) /\ t \in SubjectToken
        /\ status \in {"approved", "proposed", "denied"} /\ Store(r).status[g] = "absent"
        /\ status = "approved" => Store(r).holder[t] \in {None, g}
    BY <1>1, <1>2, <1>3, <1>4, <1>5
  <2> QED
    BY <2>1, <1>6, <1>h, CreateKeeps
<1>8. Backed(s, [flights[r] EXCEPT !.at = p, !.grant = g, !.gives = gives])
  BY <1>1, <1>2, <1>7, StartedKnows DEF Backed, Flight
<1>9. \A x \in Grant : s.status[x] # "absent" => x \in drawn'
  BY <1>3, <1>4, <1>5, <1>6 DEF Snapshot
<1>10. OneBroker' /\ SnapshotInv' /\ FlightsBacked' /\ HistoryInv' /\ stores'[current] = s
  <2>1. /\ flights[r].at = "waiting" /\ s \in Snapshot /\ WellFormed(s) /\ Extends(s, stores[current])
        /\ p \in {"scheduling", "settling"} /\ g \in Grant \union {None}
        /\ gives \in {"nothing", "credential", "use", "evidence"}
        /\ gives # "nothing" => g \in Grant
        /\ gives = "use" => stores[current].status[g] = "approved"
        /\ drawn \subseteq drawn'
    BY <1>1, <1>2, <1>3, <1>4, <1>6, <1>7
  <2> QED
    BY <1>3, <1>8, <1>9, <2>1, TransitionKeeps
<1>11. status \in (IF d = "block" THEN {"denied"} ELSE {"approved", "proposed"})
  BY DEF status, Decision
<1> QED
  BY <1>4, <1>6, <1>7, <1>10, <1>11

\* A transition that makes no grant: what it leaves of the store extends it.
LEMMA GoesKeeps ==
  ASSUME IInv, NEW r \in Request, flights[r].at = "waiting", NEW s \in Snapshot, WellFormed(s),
         Extends(s, Store(r)), NEW p \in {"scheduling", "settling"},
         NEW gives \in {"nothing", "credential", "use", "evidence"},
         gives # "nothing" => flights[r].grant \in Grant,
         Backed(s, [flights[r] EXCEPT !.at = p, !.gives = gives]),
         gives = "use" => StatusOf(r) = "approved", Goes(r, s, p, gives),
         \A h \in Grant : Store(r).status[h] = "absent" => s.status[h] = "absent",
         UNCHANGED <<issued, uses, shown>>
  PROVE  /\ OneBroker' /\ SnapshotInv' /\ FlightsBacked' /\ HistoryInv'
         /\ Extends(stores'[current], stores[current])
         /\ \A h \in Grant : stores[current].status[h] = "absent" => stores'[current].status[h] = "absent"
<1> DEFINE g == flights[r].grant
<1>1. Started(r)
  BY DEF Started
<1>2. [flights[r] EXCEPT !.at = p, !.gives = gives]
        = [flights[r] EXCEPT !.at = p, !.grant = g, !.gives = gives]
  BY <1>1, StartedKnows DEF Flight
<1>3. flights' = [flights EXCEPT ![r] = [@ EXCEPT !.at = p, !.grant = g, !.gives = gives]]
  BY <1>2 DEF Goes
<1>4. Backed(s, [flights[r] EXCEPT !.at = p, !.grant = g, !.gives = gives])
  BY <1>2
<1>5. g \in Grant \union {None} /\ Store(r) = stores[current] /\ StatusOf(r) = stores[current].status[g]
  BY <1>1, StartedKnows DEF Flight, StatusOf
<1>6. \A h \in Grant : s.status[h] # "absent" => h \in drawn'
  BY <1>1, <1>5, StartedKnows DEF IInv, SnapshotInv, Goes
<1>7. /\ gives # "nothing" => g \in Grant
      /\ gives = "use" => stores[current].status[g] = "approved"
      /\ Extends(s, stores[current])
  BY <1>5
<1>8. /\ stores' = [stores EXCEPT ![flights[r].via] = s]
      /\ UNCHANGED <<durable, current, ready, router, issued, uses, shown>> /\ drawn \subseteq drawn'
  BY DEF Goes
<1>9. g \in Grant \union {None}
  BY <1>5
<1>10. \A h \in Grant : stores[current].status[h] = "absent" => s.status[h] = "absent"
  BY <1>5
<1> HIDE DEF g
<1>11. OneBroker' /\ SnapshotInv' /\ FlightsBacked' /\ HistoryInv' /\ stores'[current] = s
  BY <1>3, <1>4, <1>6, <1>7, <1>8, <1>9, TransitionKeeps
<1> QED
  BY <1>7, <1>10, <1>11

LEMMA KeepsTransition ==
  ASSUME IInv, NEW r \in Request,
         Refuse(r) \/ Approve(r) \/ Consume(r) \/ Finalize(r) \/ FinalizeAgain(r)
  PROVE  /\ OneBroker' /\ SnapshotInv' /\ FlightsBacked' /\ HistoryInv'
         /\ Extends(stores'[current], stores[current])
         /\ \A h \in Grant : stores[current].status[h] = "absent" => stores'[current].status[h] = "absent"
<1> DEFINE g == flights[r].grant
<1>1. flights[r].at = "waiting" /\ Started(r)
  BY DEF Refuse, Approve, Consume, Finalize, FinalizeAgain, Started
<1>2. /\ Store(r) \in Snapshot /\ WellFormed(Store(r)) /\ flights[r] \in Flight
      /\ flights[r].op \in Operation /\ (flights[r].op # "exchange" => g \in Grant)
      /\ FlightsBacked
  BY <1>1, StartedKnows DEF IInv
<1>3. CASE Refuse(r)
  BY <1>1, <1>2, <1>3, GoesKeeps, ExtendsItself DEF Refuse, Backed, history, Flight
<1>4. CASE FinalizeAgain(r)
  <2>1. Backed(Store(r), [flights[r] EXCEPT !.at = "settling", !.gives = "evidence"])
    BY <1>2, <1>4 DEF FinalizeAgain, Backed, Flight
  <2> QED
    BY <1>1, <1>2, <1>4, <2>1, GoesKeeps, ExtendsItself DEF FinalizeAgain, history
<1>5. CASE Approve(r)
  <2> DEFINE s == [Store(r) EXCEPT !.status[g] = "approved", !.holder[Store(r).token[g]] = g]
  <2>1. /\ g \in Grant /\ Store(r).status[g] = "proposed" /\ Store(r).holder[Store(r).token[g]] \in {None, g}
        /\ Goes(r, s, "scheduling", "credential") /\ UNCHANGED history
    BY <1>2, <1>5 DEF Approve, StatusOf, Reservable
  <2> HIDE DEF g
  <2>2. s \in Snapshot /\ WellFormed(s) /\ Extends(s, Store(r)) /\ Granted(s, g)
    BY <1>2, <2>1, ApproveKeeps
  <2>3. Backed(s, [flights[r] EXCEPT !.at = "scheduling", !.gives = "credential"])
    <3> HIDE DEF s
    <3> QED
      BY <1>2, <2>2 DEF Backed, Flight, g
  <2>4. \A h \in Grant : Store(r).status[h] = "absent" => s.status[h] = "absent"
    BY <1>2, <2>1 DEF Snapshot
  <2> QED
    <3> HIDE DEF s
    <3> QED
      BY <1>1, <2>1, <2>2, <2>3, <2>4, GoesKeeps DEF history, g
<1>6. CASE Consume(r)
  <2> DEFINE s == [Store(r) EXCEPT !.status[g] = "consumed"]
  <2>1. /\ g \in Grant /\ StatusOf(r) = "approved" /\ Store(r).status[g] = "approved"
        /\ Goes(r, s, "settling", "use") /\ UNCHANGED history
    BY <1>2, <1>6 DEF Consume, StatusOf
  <2> HIDE DEF g
  <2>2. s \in Snapshot /\ WellFormed(s) /\ Extends(s, Store(r)) /\ s.status[g] = "consumed"
    BY <1>2, <2>1, UseKeeps
  <2>3. Backed(s, [flights[r] EXCEPT !.at = "settling", !.gives = "use"])
    <3> HIDE DEF s
    <3> QED
      BY <1>2, <2>2 DEF Backed, Flight, g
  <2>4. \A h \in Grant : Store(r).status[h] = "absent" => s.status[h] = "absent"
    BY <1>2, <2>1 DEF Snapshot
  <2> QED
    <3> HIDE DEF s
    <3> QED
      BY <1>1, <2>1, <2>2, <2>3, <2>4, GoesKeeps DEF history, g
<1>7. CASE Finalize(r)
  <2> DEFINE status == FinalStatus(flights[r].op)
             e == records[g] + 1
             s == [Store(r) EXCEPT !.status[g] = status, !.evidence[g] = e]
  <2>1. /\ g \in Grant /\ Store(r).status[g] \in Active
        /\ Goes(r, s, "settling", "evidence") /\ UNCHANGED <<issued, uses, shown>>
    BY <1>2, <1>7 DEF Finalize, Finalizable, StatusOf
  <2>2. status \in Final /\ status \in GrantStatus /\ e \in Nat \ {0}
    BY <1>2, <2>1, FinalStatusType DEF GrantStatus, IInv, TypeInv, TypeOK
  <2>s. s = WithEnd(Store(r), g, status, e)
    BY DEF WithEnd
  <2> HIDE DEF g, status, e, s
  <2>3. /\ s \in Snapshot /\ s.token = Store(r).token /\ s.holder = Store(r).holder
        /\ \A x \in Grant : /\ s.status[x] = IF x = g THEN status ELSE Store(r).status[x]
                           /\ s.evidence[x] = IF x = g THEN e ELSE Store(r).evidence[x]
    <3>1. Store(r) \in Snapshot /\ g \in Grant /\ status \in GrantStatus /\ e \in Nat
      BY <1>2, <2>1, <2>2
    <3> QED
      BY <3>1, <2>s, EndFields
  <2>4. WellFormed(s) /\ Extends(s, Store(r)) /\ s.evidence[g] # 0
    BY <1>2, <2>1, <2>2, <2>3, EndKeeps
  <2>5. Backed(s, [flights[r] EXCEPT !.at = "settling", !.gives = "evidence"])
    BY <1>2, <2>4 DEF Backed, Flight, g
  <2>6. \A h \in Grant : Store(r).status[h] = "absent" => s.status[h] = "absent"
    BY <1>2, <2>1, <2>3 DEF Snapshot, Active
  <2> QED
    BY <1>1, <2>1, <2>3, <2>4, <2>5, <2>6, GoesKeeps DEF g
<1> QED
  BY <1>3, <1>4, <1>5, <1>6, <1>7

\* Flights that only wait for something else: what they use and hand out stays.
LEMMA WaitKeeps ==
  ASSUME IInv, NEW r \in Request, NEW new \in Flight, flights' = [flights EXCEPT ![r] = new],
         Started(r), new.at \notin {"idle", "opening"}, new.broker = flights[r].broker,
         new.via = flights[r].via, new.gives = flights[r].gives,
         new.gives # "nothing" => new.grant = flights[r].grant,
         new.at = "waiting" => new.gives = "nothing",
         UNCHANGED <<durable, memory, drawn, history>>,
         new.at = "answering" => Backed(durable, new)
  PROVE  OneBroker' /\ SnapshotInv' /\ FlightsBacked' /\ HistoryInv'
<1>1. \A q \in Request : flights'[q] = IF q = r THEN new ELSE flights[q]
  BY DEF IInv, TypeInv, TypeOK
<1>2. OneBroker'
  BY <1>1 DEF IInv, OneBroker, Started, memory
<1>3. SnapshotInv'
  BY DEF IInv, SnapshotInv, memory
<1>4. Backed(stores[current], new)
  BY DEF IInv, FlightsBacked, Backed
<1>5. FlightsBacked'
  BY <1>1, <1>4 DEF IInv, FlightsBacked, Started, memory
<1>6. HistoryInv'
  BY <1>1 DEF IInv, HistoryInv, UsedAtMostOnce, history
<1> QED
  BY <1>2, <1>3, <1>5, <1>6

LEMMA KeepsRepeat ==
  ASSUME IInv, NEW r \in Request, NEW g \in Grant, Repeat(r, g)
  PROVE  OneBroker' /\ SnapshotInv' /\ FlightsBacked' /\ HistoryInv'
<1> DEFINE new == [flights[r] EXCEPT !.at = "scheduling", !.grant = g]
<1>1. Started(r) /\ flights[r] \in Flight /\ flights[r].gives = "nothing"
  BY StartedKnows DEF Repeat, Started, IInv, FlightsBacked
<1>2. /\ new \in Flight /\ new.at = "scheduling" /\ new.gives = "nothing"
      /\ new.broker = flights[r].broker /\ new.via = flights[r].via
  BY <1>1 DEF Flight, FlightState
<1>3. flights' = [flights EXCEPT ![r] = new] /\ UNCHANGED <<durable, memory, drawn, history>>
  BY DEF Repeat
<1> HIDE DEF new
<1> QED
  BY <1>1, <1>2, <1>3, WaitKeeps

LEMMA KeepsSchedule ==
  ASSUME IInv, NEW r \in Request, ScheduleAlarm(r)
  PROVE  OneBroker' /\ SnapshotInv' /\ FlightsBacked' /\ HistoryInv'
<1> DEFINE new == [flights[r] EXCEPT !.at = "scheduled"]
<1>1. Started(r) /\ flights[r] \in Flight
  BY StartedKnows DEF ScheduleAlarm, Started
<1>2. /\ new \in Flight /\ new.at = "scheduled" /\ new.gives = flights[r].gives
      /\ new.broker = flights[r].broker /\ new.via = flights[r].via /\ new.grant = flights[r].grant
  BY <1>1 DEF Flight, FlightState
<1>3. flights' = [flights EXCEPT ![r] = new] /\ UNCHANGED <<durable, memory, drawn, history>>
  BY DEF ScheduleAlarm
<1> HIDE DEF new
<1> QED
  BY <1>1, <1>2, <1>3, WaitKeeps

\* The whole store becomes the snapshot: it extends the one before.
LEMMA KeepsPersist ==
  ASSUME IInv, NEW r \in Request, Persist(r)
  PROVE  /\ OneBroker' /\ SnapshotInv' /\ FlightsBacked' /\ HistoryInv'
         /\ durable' = stores[current] /\ Extends(durable', durable)
<1> DEFINE new == [flights[r] EXCEPT !.at = "answering"]
<1>1. /\ Started(r) /\ flights[r] \in Flight /\ durable' = stores[current]
      /\ Extends(stores[current], durable) /\ stores[current] \in Snapshot /\ durable \in Snapshot
      /\ WellFormed(stores[current]) /\ WellFormed(durable) /\ current # None
  BY StartedKnows DEF Persist, Started, IInv, SnapshotInv
<1>2. /\ new \in Flight /\ new.at = "answering" /\ new.gives = flights[r].gives
      /\ new.broker = flights[r].broker /\ new.via = flights[r].via /\ new.grant = flights[r].grant
  BY <1>1 DEF Flight, FlightState
<1>3. flights' = [flights EXCEPT ![r] = new] /\ UNCHANGED <<memory, drawn, history>>
  BY DEF Persist
<1> HIDE DEF new
<1>4. \A q \in Request : flights'[q] = IF q = r THEN new ELSE flights[q]
  BY <1>3 DEF IInv, TypeInv, TypeOK
<1>5. OneBroker'
  BY <1>1, <1>2, <1>3, <1>4 DEF IInv, OneBroker, Started, memory
<1>6. SnapshotInv'
  BY <1>1, <1>3, ExtendsItself DEF IInv, SnapshotInv, memory
<1>7. FlightsBacked'
  <2> SUFFICES ASSUME NEW q \in Request
               PROVE  /\ flights'[q].at \in {"idle", "opening", "waiting"} => flights'[q].gives = "nothing"
                      /\ Started(q)' => Backed(stores[current], flights'[q])
                      /\ flights'[q].at = "answering" => Backed(stores[current], flights'[q])
    BY <1>1, <1>3 DEF FlightsBacked, memory
  <2>1. Started(q) => Backed(stores[current], flights[q])
    BY DEF IInv, FlightsBacked
  <2>2. CASE q = r
    BY <1>1, <1>2, <1>4, <2>1, <2>2 DEF Backed
  <2>3. CASE q # r
    BY <1>4, <2>1, <2>3 DEF IInv, FlightsBacked, Started
  <2> QED
    BY <2>2, <2>3
<1>8. HistoryInv'
  <2>1. \A g \in issued : Granted(stores[current], g)
    BY <1>1, GrantedKept DEF IInv, HistoryInv, TypeInv, TypeOK
  <2>2. \A g \in Grant : \A e \in shown[g] : e # 0 /\ stores[current].evidence[g] = e
    BY <1>1 DEF IInv, HistoryInv, Extends
  <2>3. \A g \in Grant : uses[g] = 1 => stores[current].status[g] \in {"consumed"} \union Final
    BY <1>1, UsedKept DEF IInv, HistoryInv, UsedAtMostOnce
  <2> QED
    BY <1>1, <1>2, <1>3, <1>4, <2>1, <2>2, <2>3 DEF IInv, HistoryInv, UsedAtMostOnce, history
<1> QED
  BY <1>1, <1>5, <1>6, <1>7, <1>8

LEMMA KeepsAnswer ==
  ASSUME IInv, NEW r \in Request, Answer(r)
  PROVE  OneBroker' /\ SnapshotInv' /\ FlightsBacked' /\ HistoryInv'
<1> DEFINE g == flights[r].grant
           gives == flights[r].gives
<1>1. \A q \in Request : flights'[q] = IF q = r THEN Idle ELSE flights[q]
  BY DEF Answer, IInv, TypeInv, TypeOK
<1>2. UNCHANGED <<durable, memory, drawn>>
  BY DEF Answer
<1>3. OneBroker'
  BY <1>1, <1>2 DEF IInv, OneBroker, Started, memory, Idle
<1>4. SnapshotInv'
  BY <1>2 DEF IInv, SnapshotInv, memory
<1>5. FlightsBacked'
  BY <1>1, <1>2 DEF IInv, FlightsBacked, Started, memory, Idle
<1>6. /\ Backed(durable, flights[r]) /\ Started(r)
      /\ gives # "nothing" => g \in Grant
  BY DEF Answer, Started, IInv, FlightsBacked, TypeInv, FlightsInv, FlightOK
<1>7. \A h \in issued' : Granted(durable, h)
  BY <1>6 DEF Answer, Backed, IInv, HistoryInv
<1>8. \A h \in Grant : \A e \in shown'[h] : e # 0 /\ durable.evidence[h] = e
  <2>1. gives = "evidence" => /\ durable.evidence[g] # 0
                              /\ Store(r).evidence[g] = durable.evidence[g]
    BY <1>6, StartedKnows DEF Backed, Extends
  <2> QED
    BY <1>6, <2>1 DEF Answer, IInv, HistoryInv, TypeInv, TypeOK
<1>9. /\ UsedAtMostOnce'
      /\ \A q \in Request : flights'[q].gives = "use" => uses'[flights'[q].grant] = 0
  <2>1. gives = "use" => /\ uses[g] = 0 /\ durable.status[g] \in {"consumed"} \union Final
                         /\ \A q \in Request \ {r} : flights[q].gives = "use" => flights[q].grant # g
    BY <1>6 DEF Backed, IInv, HistoryInv
  <2>2. \A h \in Grant : uses'[h] = IF gives = "use" /\ h = g THEN uses[h] + 1 ELSE uses[h]
    BY DEF Answer, IInv, TypeInv, TypeOK
  <2>3. \A q \in Request : flights[q].gives # "nothing" => flights[q].grant \in Grant
    BY DEF IInv, TypeInv, FlightsInv, FlightOK
  <2>4. UsedAtMostOnce'
    BY <1>2, <1>6, <2>1, <2>2 DEF IInv, HistoryInv, UsedAtMostOnce, TypeInv, TypeOK
  <2>5. ASSUME NEW q \in Request, flights'[q].gives = "use" PROVE uses'[flights'[q].grant] = 0
    <3>1. q # r /\ flights'[q] = flights[q]
      BY <1>1, <2>5 DEF Idle
    <3> QED
      BY <2>1, <2>2, <2>3, <2>5, <3>1 DEF IInv, HistoryInv
  <2> QED
    BY <2>4, <2>5
<1>10. \A q \in Request : flights'[q].gives = "use" =>
         \A u \in Request \ {q} : flights'[u].gives = "use" => flights'[u].grant # flights'[q].grant
  BY <1>1 DEF IInv, HistoryInv, Idle
<1> QED
  BY <1>2, <1>3, <1>4, <1>5, <1>7, <1>8, <1>9, <1>10 DEF HistoryInv

\* A failure that leaves nobody in flight: the snapshot is all there is.
LEMMA KeepsReset ==
  ASSUME IInv, Reset, \A q \in Request : flights'[q] = Idle, UNCHANGED <<durable, drawn, history>>
  PROVE  OneBroker' /\ SnapshotInv' /\ FlightsBacked' /\ HistoryInv'
<1>1. OneBroker' /\ SnapshotInv'
  BY DEF Reset, OneBroker, Started, Idle, IInv, SnapshotInv
<1>2. FlightsBacked' /\ HistoryInv'
  BY DEF FlightsBacked, Started, Idle, IInv, HistoryInv, UsedAtMostOnce, history
<1> QED
  BY <1>1, <1>2

LEMMA KeepsFail ==
  ASSUME IInv, TypeInv', NEW r \in Request, FailsOver(r), ResetsAlone
  PROVE  OneBroker' /\ SnapshotInv' /\ FlightsBacked' /\ HistoryInv'
<1>1. \A q \in Request : flights'[q] = Idle
  BY DEF FailsOver, Reset, ResetsAlone, TypeInv, FlightsInv, FlightOK
<1> QED
  BY <1>1, KeepsReset DEF FailsOver

\* A request that arrives finds the Broker of the others, waits for it with them, or, when
\* nobody is in flight, has one made from the snapshot.
LEMMA KeepsArrive ==
  ASSUME IInv, TypeInv', NEW r \in Request, NEW f \in Flight, Arrive(r, f), f.gives = "nothing",
         f.op \in Operation
  PROVE  OneBroker' /\ SnapshotInv' /\ FlightsBacked' /\ HistoryInv'
<1>0. flights[r].at = "idle" /\ UNCHANGED <<durable, drawn, history>> /\ SnapshotInv
  BY DEF Arrive, IInv
<1>1. PICK new \in Flight : flights' = [flights EXCEPT ![r] = new] /\ new.gives = "nothing"
  <2>1. /\ Opened(f, current, router').gives = "nothing"
        /\ \A b : [f EXCEPT !.at = "opening", !.broker = b].gives = "nothing"
    BY DEF Opened, Flight
  <2>2. PICK new : flights' = [flights EXCEPT ![r] = new] /\ new.gives = "nothing"
    BY <2>1 DEF Arrive
  <2>3. new = flights'[r] /\ flights'[r] \in Flight
    BY <2>2 DEF IInv, TypeInv, TypeOK
  <2> QED
    BY <2>2, <2>3
<1>2. \A q \in Request : flights'[q] = IF q = r THEN new ELSE flights[q]
  BY <1>1 DEF IInv, TypeInv, TypeOK
<1>3. HistoryInv'
  BY <1>0, <1>1, <1>2 DEF IInv, HistoryInv, UsedAtMostOnce, history
<1>4. CASE /\ current \in ready /\ router' = RouterAfter({f.op}, current)
           /\ flights' = [flights EXCEPT ![r] = Opened(f, current, router')]
           /\ UNCHANGED <<stores, current, ready>>
  <2>1. new = Opened(f, current, router')
    BY <1>1, <1>4 DEF IInv, TypeInv, TypeOK
  <2>2. router' \in {None, current} /\ (f.op # "expire" => router' = current)
    BY <1>4 DEF RouterAfter, IInv, OneBroker, TypeInv, TypeOK
  <2>3. new.at = "waiting" /\ new.broker = current /\ new.via = current
    BY <2>1, <2>2 DEF Opened, Flight
  <2>4. OneBroker'
    BY <1>2, <1>4, <2>2, <2>3 DEF IInv, OneBroker, Started
  <2>5. SnapshotInv'
    BY <1>0, <1>4 DEF SnapshotInv
  <2>6. FlightsBacked'
    BY <1>0, <1>1, <1>2, <1>4, <2>3 DEF IInv, FlightsBacked, Started, Backed
  <2> QED
    BY <1>3, <2>4, <2>5, <2>6
<1>5. CASE /\ SharesPending /\ current \notin ready /\ UNCHANGED memory
           /\ flights' = [flights EXCEPT ![r] = [f EXCEPT !.at = "opening", !.broker = current]]
  <2>1. new.at = "opening" /\ new.broker = current
    <3>1. new = [f EXCEPT !.at = "opening", !.broker = current]
      BY <1>1, <1>5 DEF IInv, TypeInv, TypeOK
    <3> QED
      BY <3>1 DEF Flight
  <2>2. OneBroker'
    BY <1>2, <1>5, <2>1 DEF IInv, OneBroker, Started, memory
  <2>3. SnapshotInv'
    BY <1>0, <1>5 DEF SnapshotInv, memory
  <2>4. FlightsBacked'
    BY <1>0, <1>1, <1>2, <1>5, <2>1 DEF IInv, FlightsBacked, Started, memory
  <2> QED
    BY <1>3, <2>2, <2>3, <2>4
<1>6. CASE ~SharesPending
  <2>1. current = None /\ \A q \in Request : flights[q] = Idle
    BY <1>6, NobodyIsLeft DEF SharesPending
  <2>2. PICK i \in Instance : /\ current' = i /\ stores'[i] = durable /\ i \notin ready'
                             /\ flights' = [flights EXCEPT ![r] = [f EXCEPT !.at = "opening", !.broker = i]]
                             /\ UNCHANGED router
    <3>1. current \notin ready
      BY <2>1, CoordinatorAssumption DEF IInv, TypeInv, TypeOK
    <3>2. (CHOOSE j \in Instance : ~Referenced(j)) \in Instance
      BY <1>0, <2>1, FreeSlot DEF IInv
    <3> QED
      BY <1>6, <3>1, <3>2 DEF Arrive
  <2>3. new.at = "opening" /\ new.broker = i
    <3>1. new = [f EXCEPT !.at = "opening", !.broker = i]
      BY <1>1, <2>2 DEF IInv, TypeInv, TypeOK
    <3> QED
      BY <3>1 DEF Flight
  <2>4. OneBroker'
    BY <1>2, <2>1, <2>2, <2>3 DEF IInv, OneBroker, Started, Idle
  <2>5. SnapshotInv'
    BY <1>0, <2>2, ExtendsItself DEF SnapshotInv
  <2>6. FlightsBacked'
    BY <1>1, <1>2, <2>1, <2>3 DEF FlightsBacked, Started, Idle
  <2> QED
    BY <1>3, <2>4, <2>5, <2>6
<1> QED
  BY <1>4, <1>5, <1>6 DEF Arrive

LEMMA KeepsOpen ==
  ASSUME IInv, NEW r \in Request, Open(r)
  PROVE  OneBroker' /\ SnapshotInv' /\ FlightsBacked' /\ HistoryInv'
<1> DEFINE b == flights[r].broker
           opening == {q \in Request : flights[q].at = "opening" /\ flights[q].broker = b}
<1>1. b = current /\ current \notin ready /\ b \in Instance
  BY DEF Open, IInv, OneBroker, Started, TypeInv, FlightsInv, FlightOK
<1>2. \A q \in Request : flights[q].at \in {"idle", "opening"} /\ (q \notin opening => flights[q].at = "idle")
  BY <1>1 DEF IInv, OneBroker, Started
<1>3. /\ router' \in {None, current}
      /\ \A q \in opening : flights[q].op # "expire" => router' = current
  <2>1. router' = RouterAfter({flights[q].op : q \in opening}, b)
    BY DEF Open
  <2> QED
    BY <1>1, <2>1 DEF RouterAfter, IInv, OneBroker
<1>4. ASSUME NEW q \in Request
      PROVE  /\ flights'[q].gives = "nothing"
             /\ flights'[q].grant = flights[q].grant
             /\ IF q \in opening
                THEN flights'[q].at = "waiting" /\ flights'[q].broker = current /\ flights'[q].via = current
                ELSE flights'[q] = flights[q] /\ flights[q].at = "idle"
  <2>1. flights'[q] = IF q \in opening THEN Opened(flights[q], b, router') ELSE flights[q]
    BY DEF Open
  <2>2. flights[q] \in Flight /\ flights[q].gives = "nothing"
    BY <1>2 DEF IInv, TypeInv, TypeOK, FlightsBacked
  <2> QED
    BY <1>1, <1>2, <1>3, <2>1, <2>2 DEF Opened, Flight
<1>5. UNCHANGED <<durable, stores, current, drawn, history>> /\ ready' = ready \union {current}
  BY <1>1 DEF Open
<1> HIDE DEF opening
<1>6. OneBroker'
  BY <1>3, <1>4, <1>5 DEF OneBroker, Started
<1>7. SnapshotInv'
  BY <1>5 DEF IInv, SnapshotInv
<1>8. FlightsBacked'
  BY <1>4, <1>5 DEF FlightsBacked, Started, Backed
<1>9. HistoryInv'
  BY <1>4, <1>5 DEF IInv, HistoryInv, UsedAtMostOnce, history
<1> QED
  BY <1>6, <1>7, <1>8, <1>9

LEMMA KeepsStart ==
  ASSUME IInv, TypeInv', NEW r \in Request
  PROVE  /\ Start(r) => OneBroker' /\ SnapshotInv' /\ FlightsBacked' /\ HistoryInv'
         /\ \A g \in Grant : FireAlarm(r, g) => OneBroker' /\ SnapshotInv' /\ FlightsBacked' /\ HistoryInv'
<1>1. ASSUME NEW t \in SubjectToken, Arrive(r, [Idle EXCEPT !.op = "exchange", !.token = t])
      PROVE  OneBroker' /\ SnapshotInv' /\ FlightsBacked' /\ HistoryInv'
  <2> DEFINE f == [Idle EXCEPT !.op = "exchange", !.token = t]
  <2>1. f \in Flight /\ f.gives = "nothing" /\ f.op \in Operation /\ Arrive(r, f)
    BY <1>1 DEF Idle, Flight, FlightState, Operation
  <2> HIDE DEF f
  <2> QED
    BY <2>1, KeepsArrive
<1>2. ASSUME NEW g \in Grant, NEW op \in Operation, Arrive(r, [Idle EXCEPT !.op = op, !.grant = g])
      PROVE  OneBroker' /\ SnapshotInv' /\ FlightsBacked' /\ HistoryInv'
  <2> DEFINE f == [Idle EXCEPT !.op = op, !.grant = g]
  <2>1. f \in Flight /\ f.gives = "nothing" /\ f.op \in Operation /\ Arrive(r, f)
    BY <1>2 DEF Idle, Flight, FlightState
  <2> HIDE DEF f
  <2> QED
    BY <2>1, KeepsArrive
<1>3. ASSUME NEW g \in Grant, FireAlarm(r, g)
      PROVE  OneBroker' /\ SnapshotInv' /\ FlightsBacked' /\ HistoryInv'
  BY <1>2, <1>3 DEF FireAlarm, Operation
<1> QED
  BY <1>1, <1>2, <1>3 DEF Start, StartExchange, StartOperation

LEMMA KeepsProceed ==
  ASSUME IInv, TypeInv', NEW r \in Request, Proceed(r), ResetsAlone
  PROVE  OneBroker' /\ SnapshotInv' /\ FlightsBacked' /\ HistoryInv'
BY KeepsOpen, KeepsExchange, KeepsTransition, KeepsRepeat, KeepsSchedule, KeepsPersist, KeepsAnswer,
   KeepsFail DEF Proceed, ExpireUnknown

LEMMA InvInit == Init => IInv
<1> SUFFICES ASSUME Init PROVE IInv
  OBVIOUS
<1>1. TypeInv
  BY TypesInit
<1>2. OneBroker /\ FlightsBacked
  BY DEF Init, OneBroker, FlightsBacked, Started, Idle
<1>3. SnapshotInv
  BY DEF Init, SnapshotInv, EmptyStore, WellFormed, Final
<1>4. HistoryInv
  BY DEF Init, HistoryInv, UsedAtMostOnce, Idle
<1> QED
  BY <1>1, <1>2, <1>3, <1>4 DEF IInv

LEMMA InvNext == IInv /\ [Next /\ ResetsAlone]_vars => IInv'
<1> SUFFICES ASSUME IInv, [Next /\ ResetsAlone]_vars PROVE IInv'
  OBVIOUS
<1>0. TypeInv'
  BY TypesNext DEF IInv
<1>1. CASE UNCHANGED vars
  BY <1>0, <1>1 DEF vars, memory, history, IInv, OneBroker, Started, SnapshotInv, FlightsBacked,
                    HistoryInv, UsedAtMostOnce
<1>2. ASSUME NEW r \in Request, Fail(r), ResetsAlone PROVE IInv'
  BY <1>0, <1>2, KeepsFail DEF Fail, IInv
<1>3. CASE Evict
  BY <1>0, <1>3, KeepsReset DEF Evict, IInv
<1> QED
  BY <1>0, <1>1, <1>2, <1>3, KeepsStart, KeepsProceed DEF Next, Alarm, IInv

LEMMA InvHolds == AloneSpec => []IInv
BY InvInit, InvNext, PTL DEF AloneSpec

-----------------------------------------------------------------------------
(* What holds when failures meet no other request *)

\* An evidence id that was answered is the stored one, for good: a completion that was
\* acknowledged survives every failure that meets no other request in flight.
THEOREM EvidenceIsKept == AloneSpec => []ShownEvidenceIsKept
<1>1. IInv => ShownEvidenceIsKept
  BY DEF IInv, HistoryInv, ShownEvidenceIsKept
<1> QED
  BY <1>1, InvHolds, PTL

\* A credential that left the broker is backed by a stored approval and by the reservation of
\* its subject token, whatever fails later.
THEOREM CredentialIsDurable == AloneSpec => []IssuedIsDurable
<1>1. IInv => IssuedIsDurable
  BY DEF IInv, HistoryInv, IssuedIsDurable, Granted
<1> QED
  BY <1>1, InvHolds, PTL

\* No resource is told twice that the agent may act, although a failed consume is retried.
THEOREM CredentialIsUsedOnce == AloneSpec => []UsedAtMostOnce
<1>1. IInv => UsedAtMostOnce
  BY DEF IInv, HistoryInv
<1> QED
  BY <1>1, InvHolds, PTL

\* Only Persist replaces the snapshot, by one that extends it.
LEMMA SnapshotGrows == IInv /\ [Next]_vars => Extends(durable', durable)
<1> SUFFICES ASSUME IInv, [Next]_vars PROVE Extends(durable', durable)
  OBVIOUS
<1>1. ASSUME NEW r \in Request, Persist(r) PROVE Extends(durable', durable)
  BY <1>1, KeepsPersist
<1>2. ASSUME durable' = durable PROVE Extends(durable', durable)
  BY <1>2, ExtendsItself
<1>3. ASSUME NEW r \in Request, Proceed(r) PROVE (\E q \in Request : Persist(q)) \/ durable' = durable
  BY <1>3 DEF Proceed, Open, Refuse, Exchange, Repeat, Approve, Consume, Finalize, FinalizeAgain,
              ExpireUnknown, ScheduleAlarm, Answer, Goes, FailsOver
<1>4. CASE UNCHANGED vars
  BY <1>2, <1>4 DEF vars
<1> QED
  BY <1>1, <1>2, <1>3, <1>4
  DEF Next, Start, StartExchange, StartOperation, Arrive, Fail, FailsOver, Alarm, FireAlarm, Evict

\* The end of a grant and its evidence are never taken back from the snapshot.
THEOREM EndsStayDurable == AloneSpec => EndsAreDurable
<1>1. IInv /\ [Next /\ ResetsAlone]_vars =>
        \A g \in Grant : durable.status[g] \in Final =>
          durable'.status[g] = durable.status[g] /\ durable'.evidence[g] = durable.evidence[g]
  BY SnapshotGrows DEF IInv, SnapshotInv, WellFormed, Extends, Onward, Final
<1> QED
  BY <1>1, InvHolds, PTL DEF AloneSpec, EndsAreDurable

-----------------------------------------------------------------------------
(* One request at a time, or no failure *)

SerialOrFaultless == (\E r : Request = {r}) \/ MaxFaults = 0

Known(g) == g \in Grant /\ current # None /\ stores[current].status[g] \notin {"absent", "denied"}

\* Without failures, no expiry callback meets a Broker that does not know its grant.
KnownInv ==
  MaxFaults = 0 =>
    /\ \A g \in Grant : alarms[g] # "none" => Known(g)
    /\ \A r \in Request :
         flights[r].at = "scheduling" \/ (flights[r].at # "idle" /\ flights[r].op = "expire") =>
           Known(flights[r].grant)

Scheduling(g) == \E r \in Request : flights[r].at = "scheduling" /\ flights[r].grant = g

\* A grant that is active in the Broker has its alarm, or a request about to set it; one that
\* is active in the snapshot has its alarm, unless no failure can lose that request.
ScheduleInv ==
  /\ current # None =>
       \A g \in Grant : stores[current].status[g] \in Active =>
         alarms[g] \in {"set", "firing"} \/ Scheduling(g)
  /\ \A g \in Grant : durable.status[g] \in Active =>
       alarms[g] \in {"set", "firing"} \/ (MaxFaults = 0 /\ Scheduling(g))
  /\ \A r \in Request : Started(r) /\ flights[r].op = "expire" =>
       /\ flights[r].at \in {"waiting", "settling", "answering"}
       /\ flights[r].at # "waiting" => flights[r].gives = "evidence"

SInv == IInv /\ KnownInv /\ ScheduleInv

LEMMA KnownKept ==
  ASSUME NEW s, NEW d, Extends(s, d), NEW g \in Grant, d.status[g] \notin {"absent", "denied"}
  PROVE  s.status[g] \notin {"absent", "denied"}
BY DEF Extends, Onward, Final

\* A transition of request r: what it makes active it goes on to schedule.
LEMMA ScheduleTransition ==
  ASSUME SInv, NEW r \in Request, flights[r].at = "waiting",
         Extends(stores'[current], stores[current]),
         NEW new \in Flight, new.at \in {"scheduling", "settling"}, new.op = flights[r].op,
         new.at = "scheduling" => /\ new.op # "expire" /\ new.grant \in Grant
                                  /\ stores'[current].status[new.grant] \notin {"absent", "denied"},
         new.op = "expire" => new.gives = "evidence" /\ new.grant = flights[r].grant,
         \A g \in Grant : stores'[current].status[g] \in Active =>
           stores[current].status[g] \in Active \/ (new.at = "scheduling" /\ new.grant = g),
         flights' = [flights EXCEPT ![r] = new],
         UNCHANGED <<durable, current, alarms>>
  PROVE  KnownInv' /\ ScheduleInv'
<1> DEFINE s == stores'[current]
<1>1. Started(r) /\ current \in Instance /\ current # None /\ flights[r].via = current
      /\ (flights[r].op # "exchange" => flights[r].grant \in Grant)
  BY StartedKnows DEF SInv, Started
<1>2. stores'[current'] = s /\ current' = current
  BY <1>1 DEF SInv, IInv, TypeInv, TypeOK
<1>3. \A q \in Request : flights'[q] = IF q = r THEN new ELSE flights[q]
  BY DEF SInv, IInv, TypeInv, TypeOK
<1>4. ASSUME NEW g, Known(g) PROVE Known(g)'
  BY <1>2, <1>4, KnownKept DEF Known
<1>5. ASSUME MaxFaults = 0, NEW q \in Request, NEW h, h = flights'[q].grant,
             flights'[q].at = "scheduling" \/ (flights'[q].at # "idle" /\ flights'[q].op = "expire")
      PROVE  Known(h)'
  <2>1. CASE q = r /\ new.at = "scheduling"
    BY <1>1, <1>2, <1>3, <1>5, <2>1 DEF Known
  <2>2. CASE flights[q].grant = h /\ flights[q].op = flights'[q].op /\ new.at # "scheduling"
    BY <1>1, <1>3, <1>4, <1>5, <2>2 DEF SInv, KnownInv
  <2>3. CASE q # r
    BY <1>3, <1>4, <1>5, <2>3 DEF SInv, KnownInv
  <2> QED
    BY <1>3, <1>5, <2>1, <2>2, <2>3
<1>6. KnownInv'
  <2>1. ASSUME MaxFaults = 0, NEW g \in Grant, alarms'[g] # "none" PROVE Known(g)'
    BY <1>4, <2>1 DEF SInv, KnownInv
  <2> QED
    BY <1>5, <2>1 DEF KnownInv, Known
<1>7. \A g \in Grant : Scheduling(g) => Scheduling(g)'
  BY <1>3 DEF Scheduling
<1>8. ScheduleInv'
  <2>1. \A g \in Grant : s.status[g] \in Active =>
          alarms'[g] \in {"set", "firing"} \/ Scheduling(g)'
    BY <1>1, <1>3, <1>7 DEF SInv, ScheduleInv, Scheduling
  <2>2. \A g \in Grant : durable'.status[g] \in Active =>
          alarms'[g] \in {"set", "firing"} \/ (MaxFaults = 0 /\ Scheduling(g)')
    BY <1>7 DEF SInv, ScheduleInv
  <2>3. \A q \in Request : Started(q)' /\ flights'[q].op = "expire" =>
          /\ flights'[q].at \in {"waiting", "settling", "answering"}
          /\ flights'[q].at # "waiting" => flights'[q].gives = "evidence"
    BY <1>3 DEF SInv, ScheduleInv, Started
  <2> QED
    BY <1>2, <2>1, <2>2, <2>3 DEF ScheduleInv
<1> QED
  BY <1>6, <1>8

LEMMA ScheduleExchange ==
  ASSUME SInv, NEW r \in Request, NEW g \in Grant, NEW d \in Decision, Exchange(r, g, d)
  PROVE  KnownInv' /\ ScheduleInv'
<1> DEFINE s == stores'[current]
           p == IF d = "block" THEN "settling" ELSE "scheduling"
           new == [flights[r] EXCEPT !.at = p, !.grant = g,
                                     !.gives = IF d = "allow" THEN "credential" ELSE "nothing"]
<1>1. /\ Extends(s, stores[current])
      /\ s.status[g] \in (IF d = "block" THEN {"denied"} ELSE {"approved", "proposed"})
      /\ \A x \in Grant \ {g} : s.status[x] = stores[current].status[x]
  BY KeepsExchange DEF SInv
<1>2. flights[r].at = "waiting" /\ flights[r].op = "exchange" /\ flights[r] \in Flight
  BY DEF Exchange, SInv, IInv, TypeInv, TypeOK
<1>3. flights' = [flights EXCEPT ![r] = new] /\ UNCHANGED <<durable, current, alarms>>
  BY DEF Exchange
<1>4. /\ new \in Flight /\ new.at = p /\ new.op = "exchange" /\ new.grant = g
      /\ p \in {"scheduling", "settling"} /\ (p = "scheduling" <=> d # "block")
  BY <1>2 DEF Flight, FlightState
<1> HIDE DEF p, new
<1>5. new.at = "scheduling" => s.status[new.grant] \notin {"absent", "denied"}
  BY <1>1, <1>4
<1>6. \A x \in Grant : s.status[x] \in Active =>
        stores[current].status[x] \in Active \/ (new.at = "scheduling" /\ new.grant = x)
  BY <1>1, <1>4 DEF Active
<1>7. /\ Extends(s, stores[current]) /\ flights[r].at = "waiting"
      /\ new \in Flight /\ new.at \in {"scheduling", "settling"} /\ new.op = flights[r].op
      /\ new.at = "scheduling" => /\ new.op # "expire" /\ new.grant \in Grant
                                  /\ s.status[new.grant] \notin {"absent", "denied"}
      /\ new.op = "expire" => new.gives = "evidence" /\ new.grant = flights[r].grant
  BY <1>1, <1>2, <1>4, <1>5
<1> QED
  BY <1>3, <1>6, <1>7, ScheduleTransition

LEMMA ScheduleGoes ==
  ASSUME SInv, NEW r \in Request,
         Refuse(r) \/ Approve(r) \/ Consume(r) \/ Finalize(r) \/ FinalizeAgain(r)
  PROVE  KnownInv' /\ ScheduleInv'
<1> DEFINE s == stores'[current]
<1>1. /\ Extends(s, stores[current])
      /\ \A h \in Grant : stores[current].status[h] = "absent" => s.status[h] = "absent"
  BY KeepsTransition DEF SInv
<1>2. flights[r].at = "waiting" /\ Started(r)
  BY DEF Refuse, Approve, Consume, Finalize, FinalizeAgain, Started
<1>3. /\ flights[r] \in Flight /\ Store(r) = stores[current]
      /\ flights[r].op # "exchange" => flights[r].grant \in Grant
  BY <1>2, StartedKnows DEF SInv
<1>4. UNCHANGED <<durable, current, alarms>>
  BY DEF Refuse, Approve, Consume, Finalize, FinalizeAgain, Goes
<1>5. PICK p \in {"scheduling", "settling"}, gives \in {"nothing", "credential", "use", "evidence"} :
        /\ flights' = [flights EXCEPT ![r] = [@ EXCEPT !.at = p, !.gives = gives]]
        /\ p = "scheduling" => flights[r].op = "approve" /\ StatusOf(r) = "proposed"
        /\ flights[r].op = "expire" => gives = "evidence"
  BY DEF Refuse, Approve, Consume, Finalize, FinalizeAgain, Goes
<1> DEFINE new == [flights[r] EXCEPT !.at = p, !.gives = gives]
<1>6. /\ new \in Flight /\ new.at = p /\ new.gives = gives
      /\ new.op = flights[r].op /\ new.grant = flights[r].grant
  BY <1>3 DEF Flight, FlightState
<1>7. flights' = [flights EXCEPT ![r] = new]
  BY <1>5
<1> HIDE DEF new
<1>8. new.at = "scheduling" => /\ new.op # "expire" /\ new.grant \in Grant
                               /\ s.status[new.grant] \notin {"absent", "denied"}
  BY <1>1, <1>3, <1>5, <1>6, KnownKept DEF StatusOf
<1>9. \A g \in Grant : s.status[g] \in Active => stores[current].status[g] \in Active
  BY <1>1 DEF Extends, Onward, Active, Final
<1> QED
  BY <1>1, <1>2, <1>4, <1>5, <1>6, <1>7, <1>8, <1>9, ScheduleTransition

LEMMA ScheduleRepeat ==
  ASSUME SInv, NEW r \in Request, NEW g \in Grant, Repeat(r, g)
  PROVE  KnownInv' /\ ScheduleInv'
<1> DEFINE new == [flights[r] EXCEPT !.at = "scheduling", !.grant = g]
<1>1. /\ flights[r].at = "waiting" /\ Started(r) /\ flights[r].op \in {"exchange", "approve"}
      /\ Store(r).status[g] \in {"proposed", "approved"}
  BY DEF Repeat, Started
<1>2. /\ flights[r] \in Flight /\ Store(r) = stores[current]
      /\ stores[current] \in Snapshot /\ WellFormed(stores[current])
  BY <1>1, StartedKnows DEF SInv
<1>3. /\ new \in Flight /\ new.at = "scheduling" /\ new.grant = g /\ new.op = flights[r].op
  BY <1>2 DEF Flight, FlightState
<1>4. flights' = [flights EXCEPT ![r] = new] /\ UNCHANGED <<durable, current, alarms>>
  BY DEF Repeat, memory
<1>5. stores'[current] = stores[current] /\ Extends(stores[current], stores[current])
  BY <1>2, ExtendsItself DEF Repeat, memory
<1> HIDE DEF new
<1> QED
  BY <1>1, <1>2, <1>3, <1>4, <1>5, ScheduleTransition

\* A request that sets its alarm, that writes, or that answers.
LEMMA ScheduleSchedule ==
  ASSUME SInv, NEW r \in Request, ScheduleAlarm(r)
  PROVE  KnownInv' /\ ScheduleInv'
<1> DEFINE g == flights[r].grant
<1>1. Started(r) /\ flights[r].at = "scheduling" /\ flights[r].op # "expire" /\ flights[r] \in Flight
  BY StartedKnows DEF ScheduleAlarm, Started, SInv, ScheduleInv
<1>2. /\ \A q \in Request : q # r => flights'[q] = flights[q]
      /\ flights'[r].at = "scheduled" /\ flights'[r].op = flights[r].op
      /\ flights'[r].grant = g
  BY <1>1 DEF ScheduleAlarm, SInv, IInv, TypeInv, TypeOK, Flight
<1>3. \A x \in Grant : alarms'[x] = IF x = g THEN "set" ELSE alarms[x]
  BY DEF ScheduleAlarm, SInv, IInv, TypeInv, TypeOK
<1>4. UNCHANGED <<durable, stores, current>>
  BY DEF ScheduleAlarm, memory
<1>5. \A x : Known(x) => Known(x)'
  BY <1>4 DEF Known
<1>6. KnownInv'
  <2>1. ASSUME MaxFaults = 0, NEW x \in Grant, alarms'[x] # "none" PROVE Known(x)'
    BY <1>1, <1>3, <1>5, <2>1 DEF SInv, KnownInv
  <2>2. ASSUME MaxFaults = 0, NEW q \in Request, NEW h, h = flights'[q].grant,
               flights'[q].at = "scheduling" \/ (flights'[q].at # "idle" /\ flights'[q].op = "expire")
        PROVE  Known(h)'
    BY <1>1, <1>2, <1>5, <2>2 DEF SInv, KnownInv
  <2> QED
    BY <2>1, <2>2 DEF KnownInv, Known
<1>7. \A x \in Grant : x # g /\ Scheduling(x) => Scheduling(x)'
  BY <1>2 DEF Scheduling
<1>8. ScheduleInv'
  BY <1>1, <1>2, <1>3, <1>4, <1>7 DEF SInv, ScheduleInv, Started
<1> QED
  BY <1>6, <1>8

LEMMA SchedulePersist ==
  ASSUME SerialOrFaultless, SInv, NEW r \in Request, Persist(r)
  PROVE  KnownInv' /\ ScheduleInv'
<1>1. /\ Started(r) /\ flights[r].at \in {"scheduled", "settling"} /\ durable' = stores[current]
      /\ flights[r] \in Flight /\ current # None
  BY StartedKnows DEF Persist, Started, SInv
<1>2. /\ \A q \in Request : q # r => flights'[q] = flights[q]
      /\ flights'[r].at = "answering" /\ flights'[r].op = flights[r].op
      /\ flights'[r].grant = flights[r].grant /\ flights'[r].gives = flights[r].gives
  BY <1>1 DEF Persist, SInv, IInv, TypeInv, TypeOK, Flight
<1>3. UNCHANGED <<stores, current, alarms>>
  BY DEF Persist, memory
<1>4. KnownInv'
  <2>1. ASSUME MaxFaults = 0, NEW q \in Request, NEW h, h = flights'[q].grant,
               flights'[q].at = "scheduling" \/ (flights'[q].at # "idle" /\ flights'[q].op = "expire")
        PROVE  Known(h)
    BY <1>1, <1>2, <2>1 DEF SInv, KnownInv
  <2> QED
    BY <1>3, <2>1 DEF SInv, KnownInv, Known
<1>5. \A x \in Grant : Scheduling(x) => Scheduling(x)'
  BY <1>1, <1>2 DEF Scheduling
<1>6. \A x \in Grant : Scheduling(x) => MaxFaults = 0
  BY <1>1 DEF SerialOrFaultless, Scheduling
<1>7. ScheduleInv'
  BY <1>1, <1>2, <1>3, <1>5, <1>6 DEF SInv, ScheduleInv, Started
<1> QED
  BY <1>4, <1>7

LEMMA ScheduleAnswer ==
  ASSUME SInv, NEW r \in Request, Answer(r)
  PROVE  KnownInv' /\ ScheduleInv'
<1> DEFINE g == flights[r].grant
<1>1. Started(r) /\ flights[r].at = "answering" /\ Backed(durable, flights[r])
  BY DEF Answer, Started, SInv, IInv, FlightsBacked
<1>2. /\ WellFormed(durable) /\ Extends(stores[current], durable)
      /\ flights[r].op = "expire" => g \in Grant /\ durable.evidence[g] # 0
  BY <1>1, StartedKnows DEF SInv, IInv, SnapshotInv, ScheduleInv, Backed
<1>3. flights[r].op = "expire" => durable.status[g] \in Final /\ stores[current].status[g] \in Final
  BY <1>2 DEF WellFormed, Extends, Onward, Final
<1>4. \A x \in Grant : \/ alarms'[x] = alarms[x]
                       \/ flights[r].op = "expire" /\ x = g /\ alarms[x] = "firing"
  BY DEF Answer, CallbackEnds, SInv, IInv, TypeInv, TypeOK
<1>5. \A q \in Request : flights'[q] = IF q = r THEN Idle ELSE flights[q]
  BY DEF Answer, SInv, IInv, TypeInv, TypeOK
<1>6. UNCHANGED <<durable, stores, current>>
  BY DEF Answer, memory
<1>7. KnownInv'
  <2>1. ASSUME MaxFaults = 0, NEW q \in Request, NEW h, h = flights'[q].grant,
               flights'[q].at = "scheduling" \/ (flights'[q].at # "idle" /\ flights'[q].op = "expire")
        PROVE  Known(h)
    BY <1>5, <2>1 DEF SInv, KnownInv, Idle
  <2>2. ASSUME MaxFaults = 0, NEW x \in Grant, alarms'[x] # "none" PROVE Known(x)
    BY <1>4, <2>2 DEF SInv, KnownInv
  <2> QED
    BY <1>6, <2>1, <2>2 DEF KnownInv, Known
<1>8. \A x \in Grant : Scheduling(x) => Scheduling(x)'
  BY <1>1, <1>5 DEF Scheduling
<1>9. ScheduleInv'
  <2>1. \A x \in Grant : stores[current].status[x] \in Active \/ durable.status[x] \in Active =>
          alarms'[x] = alarms[x] \/ current = None
    BY <1>3, <1>4 DEF Active, Final
  <2>2. current # None
    BY <1>1, StartedKnows DEF SInv
  <2> QED
    BY <1>5, <1>6, <1>8, <2>1, <2>2 DEF SInv, ScheduleInv, Started, Idle
<1> QED
  BY <1>7, <1>9

\* A failure is one of a request that ran alone, and the alarm it had taken up fires again.
LEMMA FailureIsAlone ==
  ASSUME SerialOrFaultless, SInv, NEW r \in Request, Fail(r) \/ ExpireUnknown(r) \/ Evict
  PROVE  /\ MaxFaults # 0 /\ Reset /\ \A q \in Request : flights'[q] = Idle
         /\ \A g \in Grant : alarms'[g] = alarms[g] \/ (alarms[g] = "firing" /\ alarms'[g] = "set")
         /\ durable' = durable
<1>1. MaxFaults # 0
  <2>1. CASE ExpireUnknown(r)
    <3>1. Started(r) /\ flights[r].at # "idle" /\ flights[r].op = "expire"
      BY <2>1 DEF ExpireUnknown, Started
    <3>2. ~Known(flights[r].grant)
      BY <2>1, <3>1, StartedKnows DEF ExpireUnknown, StatusOf, Known, SInv
    <3> QED
      BY <3>1, <3>2 DEF SInv, KnownInv
  <2>2. CASE Fail(r) \/ Evict
    BY <2>2, CoordinatorAssumption DEF Fail, Evict, SInv, IInv, TypeInv, TypeOK
  <2> QED
    BY <2>1, <2>2
<1>2. Request = {r} /\ flights \in [Request -> Flight] /\ alarms \in [Grant -> AlarmState]
  BY <1>1 DEF SerialOrFaultless, SInv, IInv, TypeInv, TypeOK
<1>3. CASE FailsOver(r)
  <2>1. \A q \in Request : flights'[q] = Idle
    BY <1>2, <1>3 DEF FailsOver
  <2>2. \A g \in Grant : alarms'[g] = alarms[g] \/ (alarms[g] = "firing" /\ alarms'[g] = "set")
    BY <1>2, <1>3 DEF FailsOver, CallbackEnds
  <2> QED
    BY <1>1, <1>3, <2>1, <2>2 DEF FailsOver
<1>4. CASE Evict
  BY <1>1, <1>4 DEF Evict
<1> QED
  BY <1>3, <1>4 DEF Fail, ExpireUnknown

LEMMA ScheduleFails ==
  ASSUME SerialOrFaultless, SInv, NEW r \in Request, Fail(r) \/ ExpireUnknown(r) \/ Evict
  PROVE  KnownInv' /\ ScheduleInv' /\ ResetsAlone
<1>1. KnownInv' /\ ResetsAlone
  BY FailureIsAlone DEF KnownInv, ResetsAlone, Idle
<1>2. ScheduleInv'
  BY FailureIsAlone DEF SInv, ScheduleInv, Reset, Started, Idle
<1> QED
  BY <1>1, <1>2

\* What an arrival leaves: the Broker of the others, or one made from the snapshot.
LEMMA Arrival ==
  ASSUME IInv, TypeInv', NEW r \in Request, NEW f \in Flight, Arrive(r, f)
  PROVE  /\ \A q \in Request : q # r => flights'[q] = flights[q]
         /\ flights[r].at = "idle" /\ flights'[r].at \in {"opening", "waiting"}
         /\ flights'[r].op = f.op /\ flights'[r].grant = f.grant
         /\ \/ current # None /\ UNCHANGED <<current, stores>>
            \/ current = None /\ current' \in Instance /\ stores'[current'] = durable
         /\ durable' = durable
<1>1. flights[r].at = "idle" /\ durable' = durable
  BY DEF Arrive
<1>2. CASE /\ current \in ready /\ UNCHANGED <<stores, current, ready>>
           /\ flights' = [flights EXCEPT ![r] = Opened(f, current, router')]
  <2>1. flights'[r] = Opened(f, current, router') /\ \A q \in Request : q # r => flights'[q] = flights[q]
    BY <1>2 DEF IInv, TypeInv, TypeOK
  <2>2. /\ Opened(f, current, router').at = "waiting"
        /\ Opened(f, current, router').op = f.op /\ Opened(f, current, router').grant = f.grant
    BY DEF Opened, Flight
  <2>3. current # None
    BY <1>2, CoordinatorAssumption DEF IInv, TypeInv, TypeOK
  <2> QED
    BY <1>1, <1>2, <2>1, <2>2, <2>3
<1>3. ASSUME NEW b, flights' = [flights EXCEPT ![r] = [f EXCEPT !.at = "opening", !.broker = b]]
      PROVE  /\ \A q \in Request : q # r => flights'[q] = flights[q]
             /\ flights'[r].at \in {"opening", "waiting"}
             /\ flights'[r].op = f.op /\ flights'[r].grant = f.grant
  <2>1. /\ flights'[r] = [f EXCEPT !.at = "opening", !.broker = b]
        /\ \A q \in Request : q # r => flights'[q] = flights[q]
    BY <1>3 DEF IInv, TypeInv, TypeOK
  <2> QED
    BY <2>1 DEF Flight
<1>4. CASE /\ SharesPending /\ UNCHANGED memory
           /\ flights' = [flights EXCEPT ![r] = [f EXCEPT !.at = "opening", !.broker = current]]
  BY <1>1, <1>3, <1>4 DEF SharesPending, memory
<1>5. CASE ~SharesPending
  <2>1. current = None /\ current \notin ready
    BY <1>5, CoordinatorAssumption DEF SharesPending, IInv, TypeInv, TypeOK
  <2>2. PICK i \in Instance :
          /\ current' = i /\ stores'[i] = durable
          /\ flights' = [flights EXCEPT ![r] = [f EXCEPT !.at = "opening", !.broker = i]]
    <3>1. (CHOOSE j \in Instance : ~Referenced(j)) \in Instance
      BY <1>1, <2>1, FreeSlot DEF IInv
    <3> QED
      BY <1>5, <2>1, <3>1 DEF Arrive
  <2> QED
    BY <1>1, <1>3, <2>1, <2>2
<1> QED
  BY <1>2, <1>4, <1>5 DEF Arrive

LEMMA ScheduleArrive ==
  ASSUME SInv, IInv', NEW r \in Request, NEW f \in Flight, Arrive(r, f), f.op \in Operation,
         f.op = "expire" => f.grant \in Grant /\ alarms[f.grant] # "none",
         \A g \in Grant : alarms'[g] = alarms[g] \/ (alarms[g] = "set" /\ alarms'[g] = "firing")
  PROVE  KnownInv' /\ ScheduleInv' /\ ResetsAlone
<1>1. /\ \A q \in Request : q # r => flights'[q] = flights[q]
      /\ flights[r].at = "idle" /\ flights'[r].at \in {"opening", "waiting"}
      /\ flights'[r].op = f.op /\ flights'[r].grant = f.grant
      /\ \/ current # None /\ UNCHANGED <<current, stores>>
         \/ current = None /\ current' \in Instance /\ stores'[current'] = durable
      /\ durable' = durable
  BY Arrival DEF SInv, IInv
<1>2. \A x \in Grant : Scheduling(x) => Scheduling(x)'
  BY <1>1 DEF Scheduling
<1>3. CASE current # None /\ UNCHANGED <<current, stores>>
  <2>1. \A x : Known(x) => Known(x)'
    BY <1>3 DEF Known
  <2>2. ASSUME MaxFaults = 0, NEW q \in Request, NEW h, h = flights'[q].grant,
               flights'[q].at = "scheduling" \/ (flights'[q].at # "idle" /\ flights'[q].op = "expire")
        PROVE  Known(h)
    BY <1>1, <2>2 DEF SInv, KnownInv
  <2>3. KnownInv'
    BY <1>3, <2>1, <2>2 DEF SInv, KnownInv, Known
  <2>4. ScheduleInv'
    BY <1>1, <1>2, <1>3 DEF SInv, ScheduleInv, Started
  <2> QED
    BY <1>3, <2>3, <2>4 DEF ResetsAlone
<1>4. CASE current = None /\ current' \in Instance /\ stores'[current'] = durable
  <2>1. \A q \in Request : flights[q] = Idle
    BY <1>4, NobodyIsLeft DEF SInv
  <2>2. MaxFaults = 0 => f.op # "expire" /\ \A x \in Grant : alarms'[x] = "none"
    BY <1>4 DEF SInv, KnownInv, Known
  <2>3. KnownInv'
    BY <1>1, <2>1, <2>2 DEF KnownInv, Idle
  <2>4. \A x \in Grant : durable.status[x] \in Active => alarms[x] \in {"set", "firing"}
    BY <2>1 DEF SInv, ScheduleInv, Scheduling, Idle
  <2>5. ScheduleInv'
    BY <1>1, <1>4, <2>1, <2>4 DEF ScheduleInv, Started, Idle
  <2> QED
    BY <1>4, <2>3, <2>5, CoordinatorAssumption DEF ResetsAlone
<1> QED
  BY <1>1, <1>3, <1>4

LEMMA ScheduleStart ==
  ASSUME SInv, IInv', NEW r \in Request
  PROVE  /\ Start(r) => KnownInv' /\ ScheduleInv' /\ ResetsAlone
         /\ \A g \in Grant : FireAlarm(r, g) => KnownInv' /\ ScheduleInv' /\ ResetsAlone
<1>1. ASSUME NEW t \in SubjectToken, Arrive(r, [Idle EXCEPT !.op = "exchange", !.token = t]),
             UNCHANGED alarms
      PROVE  KnownInv' /\ ScheduleInv' /\ ResetsAlone
  <2> DEFINE f == [Idle EXCEPT !.op = "exchange", !.token = t]
  <2>1. f \in Flight /\ f.op = "exchange" /\ f.op \in Operation /\ Arrive(r, f)
    BY <1>1 DEF Idle, Flight, FlightState, Operation
  <2> HIDE DEF f
  <2> QED
    BY <1>1, <2>1, ScheduleArrive
<1>2. ASSUME NEW g \in Grant, NEW op \in Operation, Arrive(r, [Idle EXCEPT !.op = op, !.grant = g]),
             op = "expire" => alarms[g] # "none",
             \A x \in Grant : alarms'[x] = alarms[x] \/ (alarms[x] = "set" /\ alarms'[x] = "firing")
      PROVE  KnownInv' /\ ScheduleInv' /\ ResetsAlone
  <2> DEFINE f == [Idle EXCEPT !.op = op, !.grant = g]
  <2>1. f \in Flight /\ f.op = op /\ f.grant = g /\ Arrive(r, f)
    BY <1>2 DEF Idle, Flight, FlightState
  <2> HIDE DEF f
  <2> QED
    BY <1>2, <2>1, ScheduleArrive
<1>3. ASSUME NEW g \in Grant, FireAlarm(r, g)
      PROVE  KnownInv' /\ ScheduleInv' /\ ResetsAlone
  <2>1. \A x \in Grant : alarms'[x] = alarms[x] \/ (alarms[x] = "set" /\ alarms'[x] = "firing")
    BY <1>3 DEF FireAlarm, SInv, IInv, TypeInv, TypeOK
  <2> QED
    BY <1>2, <1>3, <2>1 DEF FireAlarm, Operation
<1>4. ASSUME NEW g \in Grant, NEW op \in Operation, StartOperation(r, g, op)
      PROVE  KnownInv' /\ ScheduleInv' /\ ResetsAlone
  BY <1>2, <1>4 DEF StartOperation
<1> QED
  BY <1>1, <1>3, <1>4 DEF Start, StartExchange

LEMMA ScheduleOpen ==
  ASSUME SInv, NEW r \in Request, Open(r)
  PROVE  KnownInv' /\ ScheduleInv'
<1>1. flights[r].broker = current /\ current \notin ready
  BY DEF Open, SInv, IInv, OneBroker, Started
<1>2. \A q \in Request : flights[q].at \in {"idle", "opening"}
  BY <1>1 DEF SInv, IInv, OneBroker, Started
<1>3. ASSUME NEW q \in Request
      PROVE  /\ flights'[q].op = flights[q].op /\ flights'[q].grant = flights[q].grant
             /\ flights'[q].at \in {"idle", "opening", "waiting"}
             /\ flights[q].at = "idle" => flights'[q].at = "idle"
  <2>1. flights'[q] \in {flights[q], Opened(flights[q], flights[r].broker, router')}
        /\ (flights[q].at = "idle" => flights'[q] = flights[q])
    BY DEF Open
  <2>2. flights[q] \in Flight
    BY DEF SInv, IInv, TypeInv, TypeOK
  <2> QED
    BY <1>2, <2>1, <2>2 DEF Opened, Flight
<1>4. UNCHANGED <<durable, stores, current, alarms>>
  BY DEF Open
<1>5. KnownInv'
  <2>1. ASSUME MaxFaults = 0, NEW q \in Request, NEW h, h = flights'[q].grant,
               flights'[q].at = "scheduling" \/ (flights'[q].at # "idle" /\ flights'[q].op = "expire")
        PROVE  Known(h)
    BY <1>3, <2>1 DEF SInv, KnownInv
  <2> QED
    BY <1>4, <2>1 DEF SInv, KnownInv, Known
<1>6. \A x \in Grant : ~Scheduling(x)
  BY <1>2 DEF Scheduling
<1>7. ScheduleInv'
  BY <1>3, <1>4, <1>6 DEF SInv, ScheduleInv, Started
<1> QED
  BY <1>5, <1>7

\* A request in flight has a Broker, so the coordinator has one.
LEMMA BrokerStays ==
  ASSUME IInv, NEW r \in Request, Proceed(r)
  PROVE  ExpireUnknown(r) \/ (current # None /\ current' = current)
<1>1. flights[r].at # "idle"
  BY DEF Proceed, Open, Refuse, Exchange, Repeat, Approve, Consume, Finalize, FinalizeAgain,
         ExpireUnknown, ScheduleAlarm, Persist, Answer
<1>2. current # None
  BY <1>1, CoordinatorAssumption DEF IInv, OneBroker, TypeInv, FlightsInv, FlightOK
<1> QED
  BY <1>2 DEF Proceed, Open, Refuse, Exchange, Repeat, Approve, Consume, Finalize, FinalizeAgain,
              ScheduleAlarm, Persist, Answer, Goes, memory

LEMMA ScheduleProceed ==
  ASSUME SerialOrFaultless, SInv, NEW r \in Request, Proceed(r)
  PROVE  KnownInv' /\ ScheduleInv' /\ ResetsAlone
<1>1. KnownInv' /\ ScheduleInv'
  BY ScheduleOpen, ScheduleExchange, ScheduleGoes, ScheduleRepeat, ScheduleSchedule, SchedulePersist,
     ScheduleAnswer, ScheduleFails DEF Proceed
<1>2. ResetsAlone
  BY BrokerStays, ScheduleFails DEF ResetsAlone, SInv
<1> QED
  BY <1>1, <1>2

LEMMA ScheduleInit == Init => SInv
BY InvInit DEF SInv, Init, KnownInv, ScheduleInv, Started, Idle, EmptyStore, Active

\* One request at a time, or no failure: every failure meets nobody else, and no grant in
\* the snapshot is left without its alarm.
LEMMA ScheduleNext ==
  SerialOrFaultless /\ SInv /\ [Next]_vars => SInv' /\ [Next /\ ResetsAlone]_vars
<1> SUFFICES ASSUME SerialOrFaultless, SInv, [Next]_vars
             PROVE  SInv' /\ [Next /\ ResetsAlone]_vars
  OBVIOUS
<1>0. TypeInv'
  BY TypesNext DEF SInv, IInv
<1>1. CASE UNCHANGED vars
  <2>1. IInv'
    BY <1>1, InvNext DEF SInv
  <2>2. UNCHANGED <<durable, stores, current, flights, alarms>>
    BY <1>1 DEF vars, memory
  <2>3. KnownInv' /\ ScheduleInv'
    BY <2>2 DEF SInv, KnownInv, Known, ScheduleInv, Scheduling, Started
  <2> QED
    BY <1>1, <2>1, <2>3 DEF SInv
<1>2. ASSUME Next, KnownInv', ScheduleInv', ResetsAlone
      PROVE  SInv' /\ [Next /\ ResetsAlone]_vars
  BY <1>2, InvNext DEF SInv
<1>3. ASSUME NEW r \in Request, Proceed(r) \/ Fail(r) PROVE KnownInv' /\ ScheduleInv' /\ ResetsAlone
  BY <1>3, ScheduleProceed, ScheduleFails
<1>4. ASSUME NEW r \in Request, Start(r) PROVE KnownInv' /\ ScheduleInv' /\ ResetsAlone
  <2>1. IInv'
    BY <1>0, <1>4, KeepsStart DEF SInv, IInv
  <2> QED
    BY <1>4, <2>1, ScheduleStart
<1>5. ASSUME NEW r \in Request, NEW g \in Grant, FireAlarm(r, g)
      PROVE  KnownInv' /\ ScheduleInv' /\ ResetsAlone
  <2>1. IInv'
    BY <1>0, <1>5, KeepsStart DEF SInv, IInv
  <2> QED
    BY <1>5, <2>1, ScheduleStart
<1>6. CASE Evict
  <2>1. MaxFaults # 0
    BY <1>6, CoordinatorAssumption DEF Evict, SInv, IInv, TypeInv, TypeOK
  <2>2. PICK r : Request = {r}
    BY <2>1 DEF SerialOrFaultless
  <2>3. KnownInv' /\ ScheduleInv' /\ ResetsAlone
    BY <1>6, <2>2, ScheduleFails
  <2> QED
    BY <1>2, <1>6, <2>3 DEF Next
<1> QED
  BY <1>1, <1>2, <1>3, <1>4, <1>5, <1>6 DEF Next, Alarm

LEMMA ScheduleHolds ==
  ASSUME SerialOrFaultless
  PROVE  Spec => []SInv /\ [][Next /\ ResetsAlone]_vars
BY ScheduleInit, ScheduleNext, PTL DEF Spec

\* Without other requests, or without failures, nobody is left with a Broker that the
\* coordinator gave up: every promise above holds of every run.
THEOREM FailuresMeetNobody ==
  ASSUME SerialOrFaultless
  PROVE  Spec => AloneSpec
BY ScheduleHolds, PTL DEF Spec, AloneSpec

THEOREM DurablePromises ==
  ASSUME SerialOrFaultless
  PROVE  Spec => [](ShownEvidenceIsKept /\ IssuedIsDurable /\ UsedAtMostOnce) /\ EndsAreDurable
BY FailuresMeetNobody, EvidenceIsKept, CredentialIsDurable, CredentialIsUsedOnce, EndsStayDurable, PTL

\* A grant that is stored and active has a time-to-live alarm that is still to come or, in a run
\* without failures, a request about to set it: nothing else keeps it from living for ever.
THEOREM NoneIsUnscheduled ==
  ASSUME SerialOrFaultless
  PROVE  Spec => []ActiveIsScheduled
<1>1. SInv => ActiveIsScheduled
  BY DEF SInv, ScheduleInv, Scheduling, ActiveIsScheduled
<1> QED
  BY <1>1, ScheduleHolds, PTL

-----------------------------------------------------------------------------
(* The refinement: one request at a time, every write is a step of GrantLifecycle *)

\* Snapshot s is snapshot d after a transition of grant g.
Created(s, d, g) ==
  /\ d.status[g] = "absent"
  /\ \E t \in SubjectToken :
       /\ s.token = [d.token EXCEPT ![g] = t]
       /\ \/ /\ d.holder[t] \in {None, g}
             /\ s.status = [d.status EXCEPT ![g] = "approved"]
             /\ s.holder = [d.holder EXCEPT ![t] = g]
          \/ /\ \E status \in {"proposed", "denied"} : s.status = [d.status EXCEPT ![g] = status]
             /\ s.holder = d.holder

Approved(s, d, g) ==
  /\ d.status[g] = "proposed" /\ d.holder[d.token[g]] \in {None, g}
  /\ s.status = [d.status EXCEPT ![g] = "approved"]
  /\ s.token = d.token /\ s.holder = [d.holder EXCEPT ![d.token[g]] = g]

Used(s, d, g) ==
  /\ d.status[g] = "approved"
  /\ s.status = [d.status EXCEPT ![g] = "consumed"]
  /\ s.token = d.token /\ s.holder = d.holder

Ended(s, d, g) ==
  /\ d.status[g] \in Active
  /\ \E status \in Final : s.status = [d.status EXCEPT ![g] = status]
  /\ s.token = d.token /\ s.holder = d.holder

\* Or after none; only a grant whose credential was handed out is used.
Moved(s, d, handedOut) ==
  \/ s.status = d.status /\ s.token = d.token /\ s.holder = d.holder
  \/ \E g \in Grant : Created(s, d, g) \/ Approved(s, d, g) \/ Ended(s, d, g)
  \/ \E g \in handedOut : Used(s, d, g)

\* The Broker of the one request is the snapshot, but for what that request has yet to write.
SerialInv ==
  \A r \in Request :
    /\ current # None /\ flights[r].at \in {"idle", "opening", "waiting", "answering"} =>
         stores[current] = durable
    /\ flights[r].at \in {"scheduling", "scheduled", "settling"} => Moved(stores[current], durable, issued)
    /\ flights[r].at # "idle" /\ flights[r].op = "consume" => flights[r].grant \in issued

\* The one request carries out a transition that takes the store to s.
LEMMA SerialMove ==
  ASSUME IInv, SerialInv, NEW r \in Request, Request = {r}, flights[r].at = "waiting", NEW s,
         Moved(s, durable, issued), stores' = [stores EXCEPT ![flights[r].via] = s],
         NEW new \in Flight, flights' = [flights EXCEPT ![r] = new],
         new.at \in {"scheduling", "settling"}, new.op = flights[r].op,
         new.op = "consume" => new.grant = flights[r].grant,
         UNCHANGED <<durable, current, issued>>
  PROVE  SerialInv'
<1>1. Started(r)
  BY DEF Started
<1>2. stores'[current'] = s /\ flights'[r] = new
  BY <1>1, StartedKnows DEF IInv, TypeInv, TypeOK
<1> QED
  BY <1>2 DEF SerialInv

LEMMA SerialExchange ==
  ASSUME IInv, SerialInv, NEW r \in Request, Request = {r},
         NEW g \in Grant, NEW d \in Decision, Exchange(r, g, d)
  PROVE  SerialInv'
<1> DEFINE status == CASE d = "allow" -> "approved" [] d = "block" -> "denied" [] OTHER -> "proposed"
           t == flights[r].token
           h == IF d = "allow" THEN g ELSE durable.holder[t]
           s == [durable EXCEPT !.status[g] = status, !.token[g] = t, !.holder[t] = h]
           new == [flights[r] EXCEPT !.at = IF d = "block" THEN "settling" ELSE "scheduling",
                                     !.grant = g,
                                     !.gives = IF d = "allow" THEN "credential" ELSE "nothing"]
<1>1. flights[r].at = "waiting" /\ Started(r) /\ flights[r].op = "exchange"
  BY DEF Exchange, Started
<1>2. /\ t \in SubjectToken /\ flights[r] \in Flight /\ durable \in Snapshot
      /\ Store(r) = durable
  BY <1>1, StartedKnows DEF SerialInv
<1>3. /\ stores' = [stores EXCEPT ![flights[r].via] = s]
      /\ flights' = [flights EXCEPT ![r] = new]
      /\ UNCHANGED <<durable, current, issued>>
      /\ g \notin drawn /\ (d = "allow" => durable.holder[t] \in {None, g})
  BY <1>2 DEF Exchange, history, Reservable
<1>4. /\ new \in Flight /\ new.at \in {"scheduling", "settling"} /\ new.op = "exchange"
  BY <1>1, <1>2 DEF Flight, FlightState
<1>5. durable.status[g] = "absent"
  BY <1>3 DEF IInv, SnapshotInv
<1>6. /\ s.status = [durable.status EXCEPT ![g] = status]
      /\ s.token = [durable.token EXCEPT ![g] = t]
      /\ s.holder = [durable.holder EXCEPT ![t] = h]
  BY <1>2 DEF Snapshot
<1>7. /\ status \in {"approved", "proposed", "denied"} /\ (status = "approved" <=> d = "allow")
      /\ d # "allow" => [durable.holder EXCEPT ![t] = h] = durable.holder
  BY <1>2 DEF Decision, Snapshot
<1>8. h = IF d = "allow" THEN g ELSE durable.holder[t]
  OBVIOUS
<1> HIDE DEF status, t, h, s, new
<1>9. Created(s, durable, g)
  <2>1. CASE d = "allow"
    BY <1>2, <1>3, <1>5, <1>6, <1>7, <1>8, <2>1 DEF Created
  <2>2. CASE d # "allow"
    <3>1. s.holder = durable.holder /\ status \in {"proposed", "denied"}
      BY <1>6, <1>7, <2>2
    <3> QED
      BY <1>2, <1>5, <1>6, <3>1 DEF Created
  <2> QED
    BY <2>1, <2>2
<1>10. Moved(s, durable, issued)
  BY <1>9 DEF Moved
<1> QED
  BY <1>1, <1>3, <1>4, <1>10, SerialMove

LEMMA SerialGoes ==
  ASSUME IInv, SerialInv, NEW r \in Request, Request = {r}, flights[r].at = "waiting", NEW s,
         Moved(s, durable, issued), NEW p \in {"scheduling", "settling"},
         NEW gives \in {"nothing", "credential", "use", "evidence"},
         Goes(r, s, p, gives), UNCHANGED issued
  PROVE  SerialInv'
<1> DEFINE new == [flights[r] EXCEPT !.at = p, !.gives = gives]
<1>1. flights[r] \in Flight
  BY DEF IInv, TypeInv, TypeOK
<1>2. /\ new \in Flight /\ new.at = p /\ new.op = flights[r].op /\ new.grant = flights[r].grant
  BY <1>1 DEF Flight, FlightState
<1>3. /\ stores' = [stores EXCEPT ![flights[r].via] = s]
      /\ flights' = [flights EXCEPT ![r] = new] /\ UNCHANGED <<durable, current, issued>>
  BY DEF Goes
<1> HIDE DEF new
<1> QED
  BY <1>2, <1>3, SerialMove

LEMMA SerialTransition ==
  ASSUME IInv, SerialInv, NEW r \in Request, Request = {r},
         Refuse(r) \/ Approve(r) \/ Consume(r) \/ Finalize(r) \/ FinalizeAgain(r)
  PROVE  SerialInv'
<1> DEFINE g == flights[r].grant
<1>1. flights[r].at = "waiting" /\ Started(r)
  BY DEF Refuse, Approve, Consume, Finalize, FinalizeAgain, Started
<1>2. /\ durable \in Snapshot /\ Store(r) = durable
      /\ flights[r].op \in Operation /\ (flights[r].op # "exchange" => g \in Grant)
  BY <1>1, StartedKnows DEF SerialInv
<1>3. CASE Refuse(r) \/ FinalizeAgain(r)
  <2>1. Moved(durable, durable, issued)
    BY DEF Moved
  <2> QED
    BY <1>1, <1>2, <1>3, <2>1, SerialGoes DEF Refuse, FinalizeAgain, history
<1>4. CASE Approve(r)
  <2> DEFINE s == [durable EXCEPT !.status[g] = "approved", !.holder[durable.token[g]] = g]
  <2>1. /\ g \in Grant /\ durable.status[g] = "proposed" /\ durable.holder[durable.token[g]] \in {None, g}
        /\ Goes(r, s, "scheduling", "credential") /\ UNCHANGED issued
    BY <1>2, <1>4 DEF Approve, StatusOf, Reservable, history
  <2>2. /\ s.status = [durable.status EXCEPT ![g] = "approved"] /\ s.token = durable.token
        /\ s.holder = [durable.holder EXCEPT ![durable.token[g]] = g]
    BY <1>2 DEF Snapshot
  <2> HIDE DEF s, g
  <2>3. Moved(s, durable, issued)
    BY <2>1, <2>2 DEF Moved, Approved
  <2> QED
    BY <1>1, <2>1, <2>3, SerialGoes
<1>5. CASE Consume(r)
  <2> DEFINE s == [durable EXCEPT !.status[g] = "consumed"]
  <2>1. /\ g \in Grant /\ durable.status[g] = "approved" /\ g \in issued
        /\ Goes(r, s, "settling", "use") /\ UNCHANGED issued
    BY <1>1, <1>2, <1>5 DEF Consume, StatusOf, history, SerialInv
  <2>2. /\ s.status = [durable.status EXCEPT ![g] = "consumed"] /\ s.token = durable.token
        /\ s.holder = durable.holder
    BY <1>2 DEF Snapshot
  <2> HIDE DEF s, g
  <2>3. Moved(s, durable, issued)
    BY <2>1, <2>2 DEF Moved, Used
  <2> QED
    BY <1>1, <2>1, <2>3, SerialGoes
<1>6. CASE Finalize(r)
  <2> DEFINE status == FinalStatus(flights[r].op)
             e == records[g] + 1
             s == [durable EXCEPT !.status[g] = status, !.evidence[g] = e]
  <2>1. /\ g \in Grant /\ durable.status[g] \in Active /\ status \in Final
        /\ Goes(r, s, "settling", "evidence") /\ UNCHANGED issued
    BY <1>2, <1>6, FinalStatusType DEF Finalize, Finalizable, StatusOf
  <2> HIDE DEF status, e
  <2>2. /\ s.status = [durable.status EXCEPT ![g] = status] /\ s.token = durable.token
        /\ s.holder = durable.holder
    BY <1>2 DEF Snapshot
  <2> HIDE DEF s, g
  <2>3. Moved(s, durable, issued)
    BY <2>1, <2>2 DEF Moved, Ended
  <2> QED
    BY <1>1, <2>1, <2>3, SerialGoes
<1> QED
  BY <1>3, <1>4, <1>5, <1>6

LEMMA SerialArrive ==
  ASSUME IInv, TypeInv', SerialInv, NEW r \in Request, Request = {r}, NEW f \in Flight, Arrive(r, f),
         f.op = "consume" => f.grant \in issued
  PROVE  SerialInv'
<1>1. /\ flights[r].at = "idle" /\ flights'[r].at \in {"opening", "waiting"}
      /\ flights'[r].op = f.op /\ flights'[r].grant = f.grant
      /\ \/ current # None /\ UNCHANGED <<current, stores>>
         \/ current = None /\ current' \in Instance /\ stores'[current'] = durable
      /\ durable' = durable /\ issued' = issued
  BY Arrival DEF Arrive, history
<1>2. stores'[current'] = durable'
  BY <1>1 DEF SerialInv
<1> QED
  BY <1>1, <1>2 DEF SerialInv

LEMMA SerialStart ==
  ASSUME IInv, TypeInv', SerialInv, NEW r \in Request, Request = {r}
  PROVE  /\ Start(r) => SerialInv'
         /\ \A g \in Grant : FireAlarm(r, g) => SerialInv'
<1>1. ASSUME NEW t \in SubjectToken, Arrive(r, [Idle EXCEPT !.op = "exchange", !.token = t])
      PROVE  SerialInv'
  <2> DEFINE f == [Idle EXCEPT !.op = "exchange", !.token = t]
  <2>1. f \in Flight /\ f.op = "exchange" /\ Arrive(r, f)
    BY <1>1 DEF Idle, Flight, FlightState, Operation
  <2> HIDE DEF f
  <2> QED
    BY <2>1, SerialArrive
<1>2. ASSUME NEW g \in Grant, NEW op \in Operation, Arrive(r, [Idle EXCEPT !.op = op, !.grant = g]),
             op = "consume" => g \in issued
      PROVE  SerialInv'
  <2> DEFINE f == [Idle EXCEPT !.op = op, !.grant = g]
  <2>1. f \in Flight /\ f.op = op /\ f.grant = g /\ Arrive(r, f)
    BY <1>2 DEF Idle, Flight, FlightState
  <2> HIDE DEF f
  <2> QED
    BY <1>2, <2>1, SerialArrive
<1> QED
  BY <1>1, <1>2 DEF Start, StartExchange, StartOperation, FireAlarm, Operation

\* The steps between the transition and the answer.
LEMMA SerialWait ==
  ASSUME IInv, SerialInv, NEW r \in Request, Request = {r},
         Open(r) \/ (\E g \in Grant : Repeat(r, g)) \/ ScheduleAlarm(r) \/ Persist(r) \/ Answer(r)
  PROVE  SerialInv'
<1>0. flights[r] \in Flight /\ flights \in [Request -> Flight]
  BY DEF IInv, TypeInv, TypeOK
<1>1. CASE Open(r)
  <2>1. /\ UNCHANGED <<durable, stores, current, issued>> /\ flights[r].at = "opening"
        /\ flights'[r] = Opened(flights[r], flights[r].broker, router')
    BY <1>1 DEF Open, history
  <2>2. flights'[r].at = "waiting" /\ flights'[r].op = flights[r].op /\ flights'[r].grant = flights[r].grant
    BY <1>0, <2>1 DEF Opened, Flight
  <2> QED
    BY <2>1, <2>2 DEF SerialInv
<1>2. ASSUME NEW g \in Grant, Repeat(r, g) PROVE SerialInv'
  <2>1. /\ UNCHANGED <<durable, stores, current, issued>> /\ flights[r].at = "waiting" /\ Started(r)
        /\ flights'[r].at = "scheduling" /\ flights'[r].op \in {"exchange", "approve"}
    BY <1>0, <1>2 DEF Repeat, history, memory, Flight, Started
  <2>2. stores[current] = durable
    BY <2>1, StartedKnows DEF SerialInv
  <2> QED
    BY <2>1, <2>2 DEF SerialInv, Moved
<1>3. CASE ScheduleAlarm(r)
  <2>1. /\ UNCHANGED <<durable, stores, current, issued>> /\ flights[r].at = "scheduling"
        /\ flights'[r].at = "scheduled" /\ flights'[r].op = flights[r].op
        /\ flights'[r].grant = flights[r].grant
    BY <1>0, <1>3 DEF ScheduleAlarm, history, memory, Flight
  <2>2. Moved(stores'[current'], durable', issued')
    BY <2>1 DEF SerialInv
  <2> QED
    BY <2>1, <2>2 DEF SerialInv
<1>4. CASE Persist(r)
  <2>1. /\ UNCHANGED <<stores, current, issued>> /\ durable' = stores[current]
        /\ flights[r].at # "idle" /\ flights'[r].at = "answering" /\ flights'[r].op = flights[r].op
        /\ flights'[r].grant = flights[r].grant
    BY <1>0, <1>4, KeepsPersist DEF Persist, history, memory, Flight
  <2> QED
    BY <2>1 DEF SerialInv
<1>5. CASE Answer(r)
  <2>1. /\ UNCHANGED <<durable, stores, current>> /\ flights[r].at = "answering" /\ flights'[r] = Idle
    BY <1>0, <1>5 DEF Answer, memory
  <2> QED
    BY <2>1 DEF SerialInv, Idle
<1> QED
  BY <1>1, <1>2, <1>3, <1>4, <1>5

LEMMA SerialNext ==
  ASSUME SInv, SInv', SerialInv, [Next]_vars, NEW r, Request = {r}
  PROVE  SerialInv'
<1>0. r \in Request /\ IInv /\ TypeInv' /\ SerialOrFaultless
  BY DEF SInv, IInv, SerialOrFaultless
<1>1. CASE UNCHANGED vars
  BY <1>1 DEF vars, memory, history, SerialInv
<1>2. CASE Fail(r) \/ ExpireUnknown(r) \/ Evict
  BY <1>0, <1>2, FailureIsAlone DEF SerialInv, Reset, Idle
<1>3. CASE Proceed(r)
  BY <1>0, <1>2, <1>3, SerialExchange, SerialTransition, SerialWait DEF Proceed
<1>4. CASE Start(r) \/ \E g \in Grant : FireAlarm(r, g)
  BY <1>0, <1>4, SerialStart
<1> QED
  BY <1>1, <1>2, <1>3, <1>4 DEF Next, Alarm

\* The refinement mapping of Coordinator's Lifecycle instance, as a named set.
Authorized == {g \in Grant : durable.token[g] # None /\ durable.holder[durable.token[g]] = g}

\* A subject token that is free, or reserved for grant g, led to no other grant.
LEMMA FreeIsExclusive ==
  ASSUME NEW g \in Grant, NEW t \in SubjectToken, durable.holder[t] \in {None, g}
  PROVE  Lifecycle!Exclusive(g, t)
BY CoordinatorAssumption DEF Lifecycle!Exclusive

LEMMA AbsentIsUnauthorized ==
  ASSUME durable \in Snapshot, WellFormed(durable), NEW g \in Grant,
         durable.status[g] \in {"absent", "proposed", "denied"}
  PROVE  g \notin Authorized /\ \A t \in SubjectToken : durable.holder[t] # g
<1>1. \A t \in SubjectToken : durable.holder[t] # g
  BY CoordinatorAssumption DEF WellFormed
<1> QED
  BY <1>1 DEF Authorized, Snapshot

\* The writes of the snapshot, as steps of the lifecycle.
LEMMA WriteCreated ==
  ASSUME durable \in Snapshot, durable' \in Snapshot, WellFormed(durable), NEW g \in Grant,
         Created(durable', durable, g), UNCHANGED issued
  PROVE  Lifecycle!Next
<1>1. PICK t \in SubjectToken :
        /\ durable'.token = [durable.token EXCEPT ![g] = t]
        /\ \/ /\ durable.holder[t] \in {None, g}
              /\ durable'.status = [durable.status EXCEPT ![g] = "approved"]
              /\ durable'.holder = [durable.holder EXCEPT ![t] = g]
           \/ /\ \E status \in {"proposed", "denied"} :
                   durable'.status = [durable.status EXCEPT ![g] = status]
              /\ durable'.holder = durable.holder
  BY DEF Created
<1>2. /\ durable.status[g] = "absent" /\ g \notin Authorized
      /\ \A u \in SubjectToken : durable.holder[u] # g
  BY AbsentIsUnauthorized DEF Created
<1>3. /\ durable'.token[g] = t
      /\ \A x \in Grant : x # g => durable'.token[x] = durable.token[x]
      /\ \A x \in Grant : durable.token[x] # None => durable.token[x] \in SubjectToken
      /\ t # None
  BY <1>1, CoordinatorAssumption DEF Snapshot
<1>4. CASE /\ durable.holder[t] \in {None, g}
           /\ durable'.status = [durable.status EXCEPT ![g] = "approved"]
           /\ durable'.holder = [durable.holder EXCEPT ![t] = g]
  <2>1. \A u \in SubjectToken : durable'.holder[u] = IF u = t THEN g ELSE durable.holder[u]
    BY <1>4 DEF Snapshot
  <2>2. Authorized' = Authorized \union {g}
    <3>1. ASSUME NEW x \in Grant, x # g PROVE (x \in Authorized') <=> (x \in Authorized)
      BY <1>3, <1>4, <2>1, <3>1, CoordinatorAssumption DEF Authorized
    <3>2. g \in Authorized'
      BY <1>3, <2>1 DEF Authorized
    <3> QED
      BY <3>1, <3>2 DEF Authorized
  <2>3. Lifecycle!Exclusive(g, t)
    BY <1>4, FreeIsExclusive
  <2>4. Lifecycle!ProposeAllowed(g, t)
    BY <1>1, <1>2, <1>4, <2>2, <2>3 DEF Lifecycle!ProposeAllowed, Authorized
  <2> QED
    BY <2>4 DEF Lifecycle!Next
<1>5. ASSUME NEW status \in {"proposed", "denied"},
             durable'.status = [durable.status EXCEPT ![g] = status],
             durable'.holder = durable.holder
      PROVE  Lifecycle!Next
  <2>1. Authorized' = Authorized
    <3>1. ASSUME NEW x \in Grant, x # g PROVE (x \in Authorized') <=> (x \in Authorized)
      BY <1>3, <1>5, <3>1 DEF Authorized
    <3>2. g \notin Authorized'
      BY <1>2, <1>3, <1>5 DEF Authorized
    <3> QED
      BY <1>2, <3>1, <3>2 DEF Authorized
  <2>2. Lifecycle!Propose(g, t, status)
    BY <1>1, <1>2, <1>5, <2>1 DEF Lifecycle!Propose, Authorized
  <2>3. status \in Lifecycle!Status
    BY DEF Lifecycle!Status, Lifecycle!Active
  <2> QED
    BY <2>2, <2>3 DEF Lifecycle!Next
<1> QED
  BY <1>1, <1>4, <1>5

LEMMA WriteApproved ==
  ASSUME durable \in Snapshot, durable' \in Snapshot, WellFormed(durable), NEW g \in Grant,
         Approved(durable', durable, g), UNCHANGED issued
  PROVE  Lifecycle!Next
<1> DEFINE t == durable.token[g]
<1>1. /\ durable.status[g] = "proposed" /\ durable.holder[t] \in {None, g}
      /\ durable'.status = [durable.status EXCEPT ![g] = "approved"]
      /\ durable'.token = durable.token /\ durable'.holder = [durable.holder EXCEPT ![t] = g]
  BY DEF Approved
<1>2. t \in SubjectToken /\ t # None
  BY <1>1, CoordinatorAssumption DEF WellFormed
<1>3. \A u \in SubjectToken : durable'.holder[u] = IF u = t THEN g ELSE durable.holder[u]
  BY <1>1 DEF Snapshot
<1>4. \A x \in Grant : durable.token[x] # None => durable.token[x] \in SubjectToken
  BY DEF Snapshot
<1>5. Authorized' = Authorized \union {g}
  <2>1. ASSUME NEW x \in Grant, x # g PROVE (x \in Authorized') <=> (x \in Authorized)
    BY <1>1, <1>3, <1>4, <2>1, CoordinatorAssumption DEF Authorized
  <2>2. g \in Authorized'
    BY <1>1, <1>2, <1>3 DEF Authorized
  <2> QED
    BY <2>1, <2>2 DEF Authorized
<1>6. Lifecycle!Exclusive(g, t)
  BY <1>1, <1>2, FreeIsExclusive
<1>7. Lifecycle!Approve(g)
  BY <1>1, <1>5, <1>6 DEF Lifecycle!Approve, Authorized
<1> QED
  BY <1>7 DEF Lifecycle!Next

LEMMA WriteUsedOrEnded ==
  ASSUME NEW g \in Grant, UNCHANGED issued,
         Ended(durable', durable, g) \/ (g \in issued /\ Used(durable', durable, g))
  PROVE  Lifecycle!Next
<1>1. Authorized' = Authorized
  BY DEF Ended, Used, Authorized
<1>2. CASE g \in issued /\ Used(durable', durable, g)
  <2>1. Lifecycle!Consume(g)
    BY <1>1, <1>2 DEF Used, Lifecycle!Consume, Authorized
  <2> QED
    BY <2>1 DEF Lifecycle!Next
<1>3. CASE Ended(durable', durable, g)
  <2>1. PICK status \in Final : durable'.status = [durable.status EXCEPT ![g] = status]
    BY <1>3 DEF Ended
  <2>2. Lifecycle!Finish(g, status) /\ status \in Lifecycle!Status
    BY <1>1, <1>3, <2>1 DEF Ended, Active, Final, Lifecycle!Finish, Lifecycle!Active,
                            Lifecycle!Final, Lifecycle!Status, Authorized
  <2> QED
    BY <2>2 DEF Lifecycle!Next
<1> QED
  BY <1>2, <1>3

LEMMA WriteIsStep ==
  ASSUME IInv, TypeInv', Moved(durable', durable, issued), UNCHANGED issued
  PROVE  Lifecycle!Next \/ UNCHANGED Lifecycle!vars
<1>1. durable \in Snapshot /\ durable' \in Snapshot /\ WellFormed(durable) /\ issued \subseteq Grant
  BY DEF IInv, SnapshotInv, TypeInv, TypeOK
<1>2. ASSUME durable'.status = durable.status, durable'.token = durable.token,
             durable'.holder = durable.holder
      PROVE  UNCHANGED Lifecycle!vars
  BY <1>2 DEF Lifecycle!vars
<1> QED
  BY <1>1, <1>2, WriteCreated, WriteApproved, WriteUsedOrEnded DEF Moved

\* The answer that hands out a credential.
LEMMA AnswerIsStep ==
  ASSUME IInv, NEW r \in Request, Answer(r)
  PROVE  Lifecycle!Next \/ UNCHANGED Lifecycle!vars
<1> DEFINE g == flights[r].grant
<1>1. durable' = durable /\ issued' = IF flights[r].gives = "credential" THEN issued \union {g} ELSE issued
  BY DEF Answer
<1>2. CASE flights[r].gives = "credential" /\ g \notin issued
  <2>1. g \in Grant /\ Granted(durable, g)
    BY <1>2 DEF Answer, IInv, FlightsBacked, Backed, TypeInv, FlightsInv, FlightOK
  <2>2. g \in Authorized
    BY <2>1, CoordinatorAssumption DEF Granted, Authorized, IInv, SnapshotInv, WellFormed, Final
  <2>3. Authorized' = Authorized
    BY <1>1 DEF Authorized
  <2>4. Lifecycle!Issue(g)
    BY <1>1, <1>2, <2>2, <2>3 DEF Lifecycle!Issue, Authorized
  <2> QED
    BY <2>1, <2>4 DEF Lifecycle!Next
<1>3. CASE ~(flights[r].gives = "credential" /\ g \notin issued)
  <2>1. durable' = durable /\ issued' = issued
    BY <1>1, <1>3
  <2> QED
    BY <2>1 DEF Lifecycle!vars
<1> QED
  BY <1>2, <1>3

LEMMA StepIsStep ==
  ASSUME SInv, SInv', SerialInv, [Next]_vars, NEW r, Request = {r}
  PROVE  Lifecycle!Next \/ UNCHANGED Lifecycle!vars
<1>0. r \in Request /\ IInv /\ TypeInv'
  BY DEF SInv, IInv
<1>1. CASE Persist(r)
  <2>1. durable' = stores[current] /\ UNCHANGED issued /\ Moved(durable', durable, issued)
    BY <1>0, <1>1, KeepsPersist DEF Persist, SerialInv, history
  <2> QED
    BY <1>0, <2>1, WriteIsStep
<1>2. CASE Answer(r)
  BY <1>0, <1>2, AnswerIsStep
<1>3. ASSUME UNCHANGED <<durable, issued>> PROVE UNCHANGED Lifecycle!vars
  BY <1>3 DEF Lifecycle!vars
<1>4. ASSUME Proceed(r), ~Persist(r), ~Answer(r) PROVE UNCHANGED <<durable, issued>>
  BY <1>4 DEF Proceed, Open, Refuse, Exchange, Repeat, Approve, Consume, Finalize, FinalizeAgain,
              ExpireUnknown, ScheduleAlarm, Goes, FailsOver, history
<1>5. ASSUME Start(r) \/ Fail(r) \/ Evict \/ \E g \in Grant : FireAlarm(r, g)
      PROVE  UNCHANGED <<durable, issued>>
  BY <1>5 DEF Start, StartExchange, StartOperation, Arrive, Fail, FailsOver, FireAlarm, Evict, history
<1>6. CASE UNCHANGED vars
  BY <1>3, <1>6 DEF vars, history
<1> QED
  BY <1>1, <1>2, <1>3, <1>4, <1>5, <1>6 DEF Next, Alarm

\* The deployed broker implements the lifecycle of grants, whatever fails, when it takes one
\* request at a time: what is stored and answered changes one transition of one grant at a time.
THEOREM Refinement ==
  ASSUME \E r : Request = {r}
  PROVE  Spec => ImplementsLifecycle
<1>1. PICK r : Request = {r}
  OBVIOUS
<1>2. SerialOrFaultless
  BY <1>1 DEF SerialOrFaultless
<1>3. Init => Lifecycle!Init /\ SerialInv
  <2> SUFFICES ASSUME Init PROVE Lifecycle!Init /\ SerialInv
    OBVIOUS
  <2>1. Lifecycle!Init
    BY DEF Init, EmptyStore, Lifecycle!Init
  <2>2. SerialInv
    BY DEF Init, SerialInv, Idle
  <2> QED
    BY <2>1, <2>2
<1>4. SInv /\ SInv' /\ SerialInv /\ [Next]_vars => SerialInv'
  BY <1>1, SerialNext
<1>5. SInv /\ SInv' /\ SerialInv /\ [Next]_vars => [Lifecycle!Next]_(Lifecycle!vars)
  BY <1>1, StepIsStep
<1>6. Spec => []SInv
  BY <1>2, ScheduleHolds, PTL
<1> QED
  BY <1>3, <1>4, <1>5, <1>6, PTL DEF Spec, ImplementsLifecycle, Lifecycle!Spec
=============================================================================
