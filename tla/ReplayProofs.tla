---------------------------- MODULE ReplayProofs ----------------------------
(***************************************************************************)
(* Proofs about AssertionReplay and ProofReplay, for any number of         *)
(* assertions, proofs and calls, any tolerance and any clock.              *)
(***************************************************************************)
EXTENDS AssertionReplay, ProofReplay, TLAPS

-----------------------------------------------------------------------------
(* Assertions *)

\* A call in progress presents a signed assertion, and its clock is not ahead.
PresentedInv ==
  \A p \in Presentation : presentations[p] # Idle =>
    /\ expiry[presentations[p].id] > 0
    /\ presentations[p].at \in {"asked", "cleaned"} => presentations[p].clock <= now

\* A row holds the expiry of its assertion; it stays as long as a use of it counts.
RowsInv ==
  \A a \in Assertion :
    /\ rows[a] \in {0, expiry[a]}
    /\ accepted[a] \in {0, 1}
    /\ accepted[a] = 1 => expiry[a] > 0 /\ (rows[a] = expiry[a] \/ expiry[a] <= now)

ReplayInv == ReplayTypeOK /\ PresentedInv /\ RowsInv

LEMMA PresentationFields ==
  ASSUME ReplayTypeOK, NEW p \in Presentation, presentations[p].at # "idle"
  PROVE  /\ presentations[p].id \in Assertion
         /\ presentations[p] # Idle
         /\ presentations[p].at \in {"asked", "cleaned"} =>
              /\ presentations[p].clock \in Nat
              /\ presentations[p] = [at |-> presentations[p].at, id |-> presentations[p].id,
                                     clock |-> presentations[p].clock]
BY DEF ReplayTypeOK, PresentationState, Idle

LEMMA SignStep ==
  ASSUME ReplayInv, NEW a \in Assertion, Sign(a)
  PROVE  ReplayInv'
<1>1. ReplayTypeOK'
  BY ClockAssumption DEF ReplayInv, ReplayTypeOK, Sign
<1>2. PresentedInv'
  BY <1>1 DEF ReplayInv, ReplayTypeOK, PresentedInv, Sign, PresentationState, Idle
<1>3. RowsInv'
  BY <1>1 DEF ReplayInv, ReplayTypeOK, RowsInv, Sign
<1> QED
  BY <1>1, <1>2, <1>3 DEF ReplayInv

LEMMA VerifyAssertionStep ==
  ASSUME ReplayInv, NEW p \in Presentation, NEW a \in Assertion, VerifyAssertion(p, a)
  PROVE  ReplayInv'
<1>1. ReplayTypeOK'
  BY DEF ReplayInv, ReplayTypeOK, VerifyAssertion, PresentationState
<1>2. PresentedInv'
  BY DEF ReplayInv, ReplayTypeOK, PresentedInv, VerifyAssertion
<1>3. RowsInv'
  BY DEF ReplayInv, RowsInv, VerifyAssertion
<1> QED
  BY <1>1, <1>2, <1>3 DEF ReplayInv

\* A use is recorded only where no living row is: it is the first that counts.
LEMMA RecordUseStep ==
  ASSUME ReplayInv, NEW p \in Presentation, NEW a \in Assertion, expiry[a] > 0,
         rows[a] <= now, RecordUse(p, a)
  PROVE  ReplayInv'
<1>1. ReplayTypeOK'
  BY DEF ReplayInv, ReplayTypeOK, RecordUse, PresentationState
<1>2. PresentedInv'
  BY DEF ReplayInv, ReplayTypeOK, PresentedInv, RecordUse, Idle
<1>3. RowsInv'
  <2>1. now < expiry[a] => accepted[a] = 0
    BY DEF ReplayInv, ReplayTypeOK, RowsInv
  <2> QED
    BY <2>1 DEF ReplayInv, ReplayTypeOK, RowsInv, RecordUse
<1> QED
  BY <1>1, <1>2, <1>3 DEF ReplayInv

LEMMA RefuseReplayStep ==
  ASSUME ReplayInv, NEW p \in Presentation, RefuseReplay(p)
  PROVE  ReplayInv'
<1>1. ReplayTypeOK'
  BY DEF ReplayInv, ReplayTypeOK, RefuseReplay, PresentationState
<1>2. PresentedInv'
  BY DEF ReplayInv, ReplayTypeOK, PresentedInv, RefuseReplay
<1>3. RowsInv'
  BY DEF ReplayInv, RowsInv, RefuseReplay
<1> QED
  BY <1>1, <1>2, <1>3 DEF ReplayInv

LEMMA MarkInMemoryStep ==
  ASSUME ReplayInv, NEW p \in Presentation, MarkInMemory(p)
  PROVE  ReplayInv'
<1>1. presentations[p].id \in Assertion /\ expiry[presentations[p].id] > 0
  BY PresentationFields DEF ReplayInv, PresentedInv, MarkInMemory
<1>2. CASE rows[presentations[p].id] > now
  BY <1>2, RefuseReplayStep DEF MarkInMemory
<1>3. CASE ~(rows[presentations[p].id] > now)
  <2>1. rows[presentations[p].id] <= now
    BY <1>1, <1>3 DEF ReplayInv, ReplayTypeOK
  <2>2. RecordUse(p, presentations[p].id)
    BY <1>3 DEF MarkInMemory
  <2> QED
    BY <1>1, <2>1, <2>2, RecordUseStep
<1> QED
  BY <1>2, <1>3

LEMMA AskDatabaseStep ==
  ASSUME ReplayInv, NEW p \in Presentation, AskDatabase(p)
  PROVE  ReplayInv'
<1>1. presentations[p].id \in Assertion /\ expiry[presentations[p].id] > 0
  BY PresentationFields DEF ReplayInv, PresentedInv, AskDatabase
<1>2. presentations' = [presentations EXCEPT
        ![p] = [at |-> "asked", id |-> presentations[p].id, clock |-> now]]
  BY DEF AskDatabase
<1>3. ReplayTypeOK'
  BY <1>1, <1>2 DEF ReplayInv, ReplayTypeOK, AskDatabase, PresentationState
<1>4. PresentedInv'
  BY <1>1, <1>2 DEF ReplayInv, ReplayTypeOK, PresentedInv, AskDatabase
<1>5. RowsInv'
  BY DEF ReplayInv, RowsInv, AskDatabase
<1> QED
  BY <1>3, <1>4, <1>5 DEF ReplayInv

\* Only rows whose assertion has expired go.
LEMMA DeleteOutdatedStep ==
  ASSUME ReplayInv, NEW p \in Presentation, DeleteOutdated(p)
  PROVE  ReplayInv'
<1> DEFINE c == presentations[p].clock
<1>1. /\ presentations[p].id \in Assertion /\ expiry[presentations[p].id] > 0
      /\ c \in Nat /\ c <= now
      /\ presentations[p] = [at |-> "asked", id |-> presentations[p].id, clock |-> c]
  BY PresentationFields DEF ReplayInv, PresentedInv, DeleteOutdated
<1>2. presentations' = [presentations EXCEPT
        ![p] = [at |-> "cleaned", id |-> presentations[p].id, clock |-> c]]
  <2>1. [presentations[p] EXCEPT !.at = "cleaned"]
          = [at |-> "cleaned", id |-> presentations[p].id, clock |-> c]
    BY <1>1
  <2>2. presentations' = [presentations EXCEPT ![p] = [presentations[p] EXCEPT !.at = "cleaned"]]
    BY DEF DeleteOutdated
  <2> QED
    BY <2>1, <2>2
<1>3. rows' = [a \in Assertion |-> IF rows[a] <= c THEN 0 ELSE rows[a]]
  BY DEF DeleteOutdated, Outdated
<1> HIDE DEF c
<1>4. ReplayTypeOK'
  BY <1>1, <1>2, <1>3 DEF ReplayInv, ReplayTypeOK, DeleteOutdated, PresentationState
<1>5. PresentedInv'
  BY <1>1, <1>2 DEF ReplayInv, ReplayTypeOK, PresentedInv, DeleteOutdated
<1>6. RowsInv'
  BY <1>1, <1>3 DEF ReplayInv, ReplayTypeOK, RowsInv, DeleteOutdated
<1> QED
  BY <1>4, <1>5, <1>6 DEF ReplayInv

LEMMA InsertOrIgnoreStep ==
  ASSUME ReplayInv, NEW p \in Presentation, InsertOrIgnore(p)
  PROVE  ReplayInv'
<1>1. presentations[p].id \in Assertion /\ expiry[presentations[p].id] > 0
  BY PresentationFields DEF ReplayInv, PresentedInv, InsertOrIgnore
<1>2. CASE rows[presentations[p].id] # 0
  BY <1>2, RefuseReplayStep DEF InsertOrIgnore
<1>3. CASE rows[presentations[p].id] = 0
  <2>1. rows[presentations[p].id] <= now
    BY <1>3 DEF ReplayInv, ReplayTypeOK
  <2>2. RecordUse(p, presentations[p].id)
    BY <1>3 DEF InsertOrIgnore
  <2> QED
    BY <1>1, <2>1, <2>2, RecordUseStep
<1> QED
  BY <1>2, <1>3

LEMMA ReplayTickStep ==
  ASSUME ReplayInv, ReplayTick
  PROVE  ReplayInv'
<1>1. now \in Nat /\ now' = now + 1 /\ UNCHANGED replayVars
  BY DEF ReplayInv, ReplayTypeOK, ReplayTick, Tick
<1>2. ReplayTypeOK'
  BY <1>1 DEF ReplayInv, ReplayTypeOK, replayVars
<1>3. PresentedInv'
  <2> SUFFICES ASSUME NEW p \in Presentation, presentations[p] # Idle,
                      presentations[p].at \in {"asked", "cleaned"}
               PROVE  presentations[p].clock <= now + 1
    BY <1>1 DEF ReplayInv, PresentedInv, ReplayTypeOK, replayVars
  <2>1. presentations[p].clock \in Nat /\ presentations[p].clock <= now
    BY PresentationFields DEF ReplayInv, PresentedInv
  <2> QED
    BY <1>1, <2>1
<1>4. RowsInv'
  BY <1>1 DEF ReplayInv, ReplayTypeOK, RowsInv, replayVars
<1> QED
  BY <1>2, <1>3, <1>4 DEF ReplayInv

LEMMA ReplayInvariance == ReplaySpec => []ReplayInv
<1>1. ClockInit /\ ReplayInit => ReplayInv
  BY DEF ClockInit, ReplayInit, ReplayInv, ReplayTypeOK, PresentedInv, RowsInv, PresentationState
<1>2. ReplayInv /\ [ReplayNext]_<<now, replayVars>> => ReplayInv'
  <2> SUFFICES ASSUME ReplayInv, [ReplayNext]_<<now, replayVars>> PROVE ReplayInv'
    OBVIOUS
  <2>1. CASE ReplayNext
    BY <2>1, SignStep, VerifyAssertionStep, MarkInMemoryStep, AskDatabaseStep,
       DeleteOutdatedStep, InsertOrIgnoreStep, ReplayTickStep DEF ReplayNext
  <2>2. CASE UNCHANGED <<now, replayVars>>
    BY <2>2 DEF replayVars, ReplayInv, ReplayTypeOK, PresentedInv, RowsInv
  <2> QED
    BY <2>1, <2>2
<1> QED
  BY <1>1, <1>2, PTL DEF ReplaySpec

\* An assertion is accepted at most once before it expires, however many calls present it,
\* on either store, and whatever other calls purge meanwhile.
THEOREM AssertionsAreAcceptedOnce == ReplaySpec => []AssertionAcceptedOnce
<1>1. ReplayInv => AssertionAcceptedOnce
  BY DEF ReplayInv, RowsInv, AssertionAcceptedOnce
<1> QED
  BY <1>1, ReplayInvariance, PTL

-----------------------------------------------------------------------------
(* DPoP proofs *)

\* An entry that ends at e keeps proof p away until p is out of time.
Outlives(e, p) == e > iat[p] + Tolerance \/ now > iat[p] + Tolerance

\* A request in progress has a Broker; it verifies a proof that was made, by a clock that is
\* in its tolerance; and a use is recorded only after that.
RequestsInv ==
  \A v \in Verifier :
    /\ Busy(v) => verifiers[v].broker \in BrokerId
    /\ verifiers[v].at \in {"idle", "serving", "verifying"} => verifiers[v].use = None
    /\ verifiers[v].at = "verifying" =>
         /\ verifiers[v].proof \in Proof
         /\ iat[verifiers[v].proof] # 0
         /\ verifiers[v].clock <= now
         /\ InTolerance(verifiers[v].clock, iat[verifiers[v].proof])

\* What was not made was not used.
UnmadeInv ==
  \A p \in Proof : iat[p] = 0 =>
    /\ answeredUses[p] = 0
    /\ \A b \in BrokerId : proofUses[b][p] = 0
    /\ \A v \in Verifier : verifiers[v].use # p

\* On a Broker that accepted a proof, its entry outlives the proof.
MapsInv ==
  \A p \in Proof \ ahead : \A b \in BrokerId :
    /\ proofUses[b][p] <= 1
    /\ proofUses[b][p] = 1 => Outlives(usedJtis[b][p], p)

\* A use whose request is still in progress is the only one, and its entry is on the Broker
\* of all requests; once it is answered, its entry is in the snapshot too.
UsesInv ==
  /\ \A v \in Verifier : Busy(v) => verifiers[v].broker = current
  /\ \A p \in Proof \ ahead :
       /\ \A v \in Verifier : verifiers[v].use = p =>
            /\ answeredUses[p] = 0
            /\ Outlives(usedJtis[current][p], p)
            /\ verifiers[v].at = "stored" => Outlives(storedJtis[p], p)
            /\ \A w \in Verifier : verifiers[w].use = p => w = v
       /\ answeredUses[p] <= 1
       /\ answeredUses[p] = 1 =>
            /\ Outlives(storedJtis[p], p)
            /\ current # None => Outlives(usedJtis[current][p], p)

ProofInv ==
  /\ ProofTypeOK
  /\ RequestsInv
  /\ UnmadeInv
  /\ MapsInv
  /\ ~parted => UsesInv

LEMMA VerifierFields ==
  ASSUME ProofTypeOK, NEW v \in Verifier
  PROVE  /\ verifiers[v] \in VerifierState
         /\ verifiers[v].at \in {"idle", "serving", "verifying", "leaving", "stored"}
         /\ verifiers[v].broker \in BrokerId \union {None}
         /\ verifiers[v].proof \in Proof \union {None}
         /\ verifiers[v].clock \in Nat
         /\ verifiers[v].use \in Proof \union {None}
BY DEF ProofTypeOK, VerifierState

LEMMA RequestFields ==
  ASSUME NEW at, NEW b, NEW p, NEW t, NEW use
  PROVE  /\ RequestAt(at, b, p, t, use).at = at
         /\ RequestAt(at, b, p, t, use).broker = b
         /\ RequestAt(at, b, p, t, use).proof = p
         /\ RequestAt(at, b, p, t, use).clock = t
         /\ RequestAt(at, b, p, t, use).use = use
BY DEF RequestAt

LEMMA RequestType ==
  ASSUME NEW at \in {"idle", "serving", "verifying", "leaving", "stored"},
         NEW b \in BrokerId \union {None}, NEW p \in Proof \union {None},
         NEW t \in Nat, NEW use \in Proof \union {None}
  PROVE  RequestAt(at, b, p, t, use) \in VerifierState
BY DEF RequestAt, VerifierState

\* Removing what has ended, by a clock that was read, keeps the entries that matter.
LEMMA LivingKeeps ==
  ASSUME ProofTypeOK, NEW f \in Entries, NEW t \in Nat, t <= now
  PROVE  /\ Living(f, t) \in Entries
         /\ \A p \in Proof : Outlives(f[p], p) => Outlives(Living(f, t)[p], p)
         /\ \A p \in Proof : Living(f, t)[p] = IF f[p] > t THEN f[p] ELSE 0
BY ProofAssumption DEF ProofTypeOK, Entries, Living, Outlives

LEMMA MakeProofStep ==
  ASSUME ProofInv, NEW p \in Proof, MakeProof(p)
  PROVE  ProofInv'
<1>1. /\ iat[p] = 0 /\ iat' \in [Proof -> Nat]
      /\ \A q \in Proof : q # p => iat'[q] = iat[q]
      /\ UNCHANGED <<now, current, usedJtis, storedJtis, verifiers, proofUses, answeredUses,
                     ahead, parted>>
  BY ClockAssumption DEF ProofInv, ProofTypeOK, MakeProof
<1>2. ProofTypeOK'
  BY <1>1 DEF ProofInv, ProofTypeOK
<1>3. RequestsInv'
  BY <1>1 DEF ProofInv, RequestsInv, Busy, InTolerance
<1>4. UnmadeInv'
  BY <1>1 DEF ProofInv, UnmadeInv
<1>5. MapsInv'
  BY <1>1 DEF ProofInv, UnmadeInv, MapsInv, Outlives
<1>6. (~parted => UsesInv)'
  BY <1>1 DEF ProofInv, UnmadeInv, UsesInv, Outlives, Busy
<1> QED
  BY <1>2, <1>3, <1>4, <1>5, <1>6 DEF ProofInv

\* A request that goes on without touching a map or a snapshot. It has no use then, or keeps
\* the one it had.
LEMMA MoveStep ==
  ASSUME ProofInv, NEW v \in Verifier, NEW r \in VerifierState,
         verifiers' = [verifiers EXCEPT ![v] = r],
         UNCHANGED <<now, iat, current, usedJtis, storedJtis, proofUses, answeredUses, ahead,
                     parted>>,
         r.at \in {"serving", "verifying", "leaving"},
         r.broker \in BrokerId,
         r.broker = verifiers[v].broker \/ r.broker = current,
         Busy(v) \/ r.broker = current,
         r.use = None,
         r.at = "verifying" => /\ r.proof \in Proof /\ iat[r.proof] # 0 /\ r.clock <= now
                               /\ InTolerance(r.clock, iat[r.proof])
  PROVE  ProofInv'
<1>1. ProofTypeOK'
  BY DEF ProofInv, ProofTypeOK
<1>2. \A w \in Verifier : verifiers'[w] = IF w = v THEN r ELSE verifiers[w]
  BY DEF ProofInv, ProofTypeOK
<1>3. RequestsInv'
  BY <1>2 DEF ProofInv, RequestsInv, Busy, InTolerance
<1>4. UnmadeInv'
  BY <1>2, ProofAssumption DEF ProofInv, UnmadeInv
<1>5. MapsInv'
  BY DEF ProofInv, MapsInv, Outlives
<1>6. (~parted => UsesInv)'
  <2> SUFFICES ASSUME ~parted, UsesInv PROVE UsesInv'
    BY DEF ProofInv
  <2>1. \A w \in Verifier : Busy(w)' => verifiers'[w].broker = current
    BY <1>2 DEF UsesInv, Busy
  <2>2. \A w \in Verifier, p \in Proof : verifiers'[w].use = p => w # v /\ verifiers[w].use = p
    BY <1>2, ProofAssumption
  <2> QED
    BY <1>2, <2>1, <2>2 DEF UsesInv, Outlives
<1> QED
  BY <1>1, <1>3, <1>4, <1>5, <1>6 DEF ProofInv

LEMMA GetBrokerStep ==
  ASSUME ProofInv, NEW v \in Verifier, GetBroker(v)
  PROVE  ProofInv'
<1> DEFINE r == RequestAt("serving", current, None, 0, None)
<1>1. current \in BrokerId
  BY DEF GetBroker, ProofInv, ProofTypeOK
<1>2. r \in VerifierState
  BY <1>1, RequestType
<1>3. /\ verifiers' = [verifiers EXCEPT ![v] = r]
      /\ UNCHANGED <<now, iat, current, usedJtis, storedJtis, proofUses, answeredUses, ahead,
                     parted>>
  BY DEF GetBroker
<1>4. /\ r.at \in {"serving", "verifying", "leaving"} /\ r.use = None
      /\ r.broker \in BrokerId /\ r.broker = current
  BY <1>1, RequestFields
<1>5. r.at = "verifying" => /\ r.proof \in Proof /\ iat[r.proof] # 0 /\ r.clock <= now
                            /\ InTolerance(r.clock, iat[r.proof])
  BY <1>1, RequestFields DEF GetBroker
<1> HIDE DEF r
<1> QED
  BY <1>1, <1>2, <1>3, <1>4, <1>5, MoveStep

LEMMA VerifyProofStep ==
  ASSUME ProofInv, NEW v \in Verifier, NEW p \in Proof, VerifyProof(v, p)
  PROVE  ProofInv'
<1> DEFINE r == RequestAt("verifying", verifiers[v].broker, p, now, None)
<1>1. Busy(v) /\ verifiers[v].broker \in BrokerId /\ now \in Nat
  BY DEF VerifyProof, Busy, ProofInv, RequestsInv, ProofTypeOK
<1>2. r \in VerifierState
  BY <1>1, RequestType
<1>3. /\ verifiers' = [verifiers EXCEPT ![v] = r]
      /\ UNCHANGED <<now, iat, current, usedJtis, storedJtis, proofUses, answeredUses, ahead,
                     parted>>
  BY DEF VerifyProof
<1>4. /\ r.at \in {"serving", "verifying", "leaving"} /\ r.use = None
      /\ r.broker \in BrokerId /\ r.broker = verifiers[v].broker
  BY <1>1, RequestFields
<1>5. r.at = "verifying" => /\ r.proof \in Proof /\ iat[r.proof] # 0 /\ r.clock <= now
                            /\ InTolerance(r.clock, iat[r.proof])
  BY <1>1, RequestFields DEF VerifyProof
<1> HIDE DEF r
<1> QED
  BY <1>1, <1>2, <1>3, <1>4, <1>5, MoveStep

LEMMA ServeOtherStep ==
  ASSUME ProofInv, NEW v \in Verifier, ServeOther(v)
  PROVE  ProofInv'
<1> DEFINE r == RequestAt("leaving", verifiers[v].broker, None, 0, None)
<1>1. Busy(v) /\ verifiers[v].broker \in BrokerId
  BY DEF ServeOther, Busy, ProofInv, RequestsInv
<1>2. r \in VerifierState
  BY <1>1, RequestType
<1>3. /\ verifiers' = [verifiers EXCEPT ![v] = r]
      /\ UNCHANGED <<now, iat, current, usedJtis, storedJtis, proofUses, answeredUses, ahead,
                     parted>>
  BY DEF ServeOther
<1>4. /\ r.at \in {"serving", "verifying", "leaving"} /\ r.use = None
      /\ r.broker \in BrokerId /\ r.broker = verifiers[v].broker
  BY <1>1, RequestFields
<1>5. r.at = "verifying" => /\ r.proof \in Proof /\ iat[r.proof] # 0 /\ r.clock <= now
                            /\ InTolerance(r.clock, iat[r.proof])
  BY <1>1, RequestFields DEF ServeOther
<1> HIDE DEF r
<1> QED
  BY <1>1, <1>2, <1>3, <1>4, <1>5, MoveStep

LEMMA MakeBrokerStep ==
  ASSUME ProofInv, NEW v \in Verifier, NEW b \in BrokerId, MakeBroker(v, b)
  PROVE  ProofInv'
<1> DEFINE r == RequestAt("serving", b, None, 0, None)
           left == Living(storedJtis, now)
<1>1. /\ ~Busy(v) /\ current = None /\ current' = b
      /\ \A w \in Verifier : Busy(w) => verifiers[w].broker # b
      /\ usedJtis' = [usedJtis EXCEPT ![b] = left]
      /\ proofUses' = [proofUses EXCEPT ![b] = NoEntries]
      /\ verifiers' = [verifiers EXCEPT ![v] = r]
      /\ UNCHANGED <<now, iat, storedJtis, answeredUses, ahead, parted>>
  BY DEF MakeBroker
<1>2. /\ r \in VerifierState /\ r.at = "serving" /\ r.broker = b /\ r.use = None
  BY RequestType, RequestFields
<1>3. /\ left \in Entries
      /\ \A p \in Proof : Outlives(storedJtis[p], p) => Outlives(left[p], p)
  BY LivingKeeps DEF ProofInv, ProofTypeOK
<1> HIDE DEF r, left
<1>4. NoEntries \in Counts /\ \A p \in Proof : NoEntries[p] = 0
  BY DEF NoEntries, Counts
<1>5. ProofTypeOK'
  BY <1>1, <1>2, <1>3, <1>4 DEF ProofInv, ProofTypeOK
<1>6. \A w \in Verifier : verifiers'[w] = IF w = v THEN r ELSE verifiers[w]
  BY <1>1 DEF ProofInv, ProofTypeOK
<1>7. RequestsInv'
  BY <1>1, <1>2, <1>6 DEF ProofInv, RequestsInv, Busy, InTolerance
<1>8. UnmadeInv'
  BY <1>1, <1>2, <1>4, <1>6, ProofAssumption DEF ProofInv, ProofTypeOK, UnmadeInv
<1>9. MapsInv'
  BY <1>1, <1>4 DEF ProofInv, ProofTypeOK, MapsInv, Outlives
<1>10. (~parted => UsesInv)'
  <2> SUFFICES ASSUME ~parted, UsesInv PROVE UsesInv'
    BY <1>1 DEF ProofInv
  <2>1. \A w \in Verifier : ~Busy(w) /\ verifiers[w].use = None
    BY <1>1, ProofAssumption DEF UsesInv, ProofInv, RequestsInv, Busy
  <2>2. \A w \in Verifier : verifiers'[w].use = None /\ (Busy(w)' => w = v)
    BY <1>2, <1>6, <2>1 DEF Busy
  <2>3. usedJtis'[b] = left
    BY <1>1 DEF ProofInv, ProofTypeOK
  <2> QED
    BY <1>1, <1>2, <1>3, <1>6, <2>2, <2>3, ProofAssumption DEF UsesInv, Outlives
<1> QED
  BY <1>5, <1>7, <1>8, <1>9, <1>10 DEF ProofInv

\* One Broker's map loses what has ended, and its request goes on with the use it had.
LEMMA PurgeStep ==
  ASSUME ProofInv, NEW v \in Verifier, NEW t \in Nat, t <= now, NEW r \in VerifierState,
         NEW b \in BrokerId, b = verifiers[v].broker, Busy(v),
         usedJtis' = [usedJtis EXCEPT ![b] = Living(usedJtis[b], t)],
         verifiers' = [verifiers EXCEPT ![v] = r],
         UNCHANGED <<now, iat, current, proofUses, answeredUses, ahead, parted>>,
         r.broker = b, r.use = verifiers[v].use,
         \/ r.at = "leaving" /\ storedJtis' = storedJtis
         \/ r.at = "stored" /\ storedJtis' = usedJtis'[b]
  PROVE  ProofInv'
<1>1. /\ usedJtis[b] \in Entries
      /\ Living(usedJtis[b], t) \in Entries
      /\ \A p \in Proof : Outlives(usedJtis[b][p], p) => Outlives(Living(usedJtis[b], t)[p], p)
  BY LivingKeeps DEF ProofInv, ProofTypeOK
<1>2. /\ usedJtis' \in [BrokerId -> Entries]
      /\ \A c \in BrokerId, p \in Proof :
           Outlives(usedJtis[c][p], p) => Outlives(usedJtis'[c][p], p)
  BY <1>1 DEF ProofInv, ProofTypeOK
<1>3. ProofTypeOK'
  BY <1>2 DEF ProofInv, ProofTypeOK
<1>4. \A w \in Verifier : verifiers'[w] = IF w = v THEN r ELSE verifiers[w]
  BY DEF ProofInv, ProofTypeOK
<1>5. RequestsInv'
  BY <1>4 DEF ProofInv, RequestsInv, Busy, InTolerance
<1>6. UnmadeInv'
  BY <1>4 DEF ProofInv, UnmadeInv
<1>7. MapsInv'
  BY <1>2 DEF ProofInv, MapsInv, Outlives
<1>8. (~parted => UsesInv)'
  <2> SUFFICES ASSUME ~parted, UsesInv PROVE UsesInv'
    BY DEF ProofInv
  <2>1. b = current /\ \A w \in Verifier : Busy(w)' => verifiers'[w].broker = current
    BY <1>4 DEF UsesInv, Busy
  <2>2. \A p \in Proof : Outlives(usedJtis[current][p], p) =>
          /\ Outlives(usedJtis'[current][p], p)
          /\ Outlives(storedJtis[p], p) => Outlives(storedJtis'[p], p)
          /\ r.at = "stored" => Outlives(storedJtis'[p], p)
    BY <1>2, <2>1
  <2>3. current # None
    BY <2>1, ProofAssumption
  <2> HIDE DEF Outlives
  <2>4. \A e, p : Outlives(e, p)' <=> Outlives(e, p)
    BY DEF Outlives
  <2> SUFFICES ASSUME NEW p \in Proof \ ahead
               PROVE  /\ \A w \in Verifier : verifiers'[w].use = p =>
                           /\ answeredUses[p] = 0
                           /\ Outlives(usedJtis'[current][p], p)
                           /\ verifiers'[w].at = "stored" => Outlives(storedJtis'[p], p)
                           /\ \A u \in Verifier : verifiers'[u].use = p => u = w
                      /\ answeredUses[p] <= 1
                      /\ answeredUses[p] = 1 =>
                           /\ Outlives(storedJtis'[p], p)
                           /\ current # None => Outlives(usedJtis'[current][p], p)
    BY <2>1 DEF UsesInv, Outlives
  <2>5. \A w \in Verifier : verifiers'[w].use = verifiers[w].use
    BY <1>4
  <2>6. \A w \in Verifier : verifiers'[w].at = "stored" =>
          verifiers[w].at = "stored" \/ r.at = "stored"
    BY <1>4
  <2> QED
    BY <2>2, <2>3, <2>5, <2>6 DEF UsesInv
<1> QED
  BY <1>3, <1>5, <1>6, <1>7, <1>8 DEF ProofInv

LEMMA RefuseProofStep ==
  ASSUME ProofInv, NEW v \in Verifier, RefuseProof(v)
  PROVE  ProofInv'
<1> DEFINE b == verifiers[v].broker
           t == verifiers[v].clock
           r == RequestAt("leaving", b, None, 0, None)
<1>1. Busy(v) /\ b \in BrokerId /\ t \in Nat /\ t <= now /\ verifiers[v].use = None
  BY VerifierFields DEF RefuseProof, Busy, ProofInv, RequestsInv
<1>2. r \in VerifierState /\ r.at = "leaving" /\ r.broker = b /\ r.use = None
  BY <1>1, RequestType, RequestFields
<1>3. /\ usedJtis' = [usedJtis EXCEPT ![b] = Living(usedJtis[b], t)]
      /\ verifiers' = [verifiers EXCEPT ![v] = r]
      /\ UNCHANGED <<now, iat, current, proofUses, answeredUses, ahead, parted>>
      /\ storedJtis' = storedJtis
  BY DEF RefuseProof
<1>4. b = verifiers[v].broker
  OBVIOUS
<1> HIDE DEF b, t, r
<1> QED
  BY <1>1, <1>2, <1>3, <1>4, PurgeStep

LEMMA PersistProofsStep ==
  ASSUME ProofInv, NEW v \in Verifier, PersistProofs(v)
  PROVE  ProofInv'
<1> DEFINE b == verifiers[v].broker
           t == now
           r == RequestAt("stored", b, None, 0, verifiers[v].use)
<1>1. /\ ProofInv /\ Busy(v) /\ b \in BrokerId /\ t \in Nat /\ t <= now
      /\ verifiers[v].use \in Proof \union {None}
  BY VerifierFields DEF PersistProofs, Busy, ProofInv, RequestsInv, ProofTypeOK
<1>2. r \in VerifierState /\ r.at = "stored" /\ r.broker = b /\ r.use = verifiers[v].use
  <2>1. r \in VerifierState
    BY <1>1, RequestType
  <2>2. r.at = "stored" /\ r.broker = b /\ r.use = verifiers[v].use
    BY RequestFields
  <2> QED
    BY <2>1, <2>2
<1>3. /\ usedJtis' = [usedJtis EXCEPT ![b] = Living(usedJtis[b], t)]
      /\ verifiers' = [verifiers EXCEPT ![v] = r]
      /\ UNCHANGED <<now, iat, current, proofUses, answeredUses, ahead, parted>>
      /\ storedJtis' = Living(usedJtis[b], t)
  BY DEF PersistProofs
<1>4. b = verifiers[v].broker
  OBVIOUS
<1> HIDE DEF b, t, r
<1>5. storedJtis' = usedJtis'[b]
  BY <1>1, <1>3 DEF ProofInv, ProofTypeOK
<1>6. \/ r.at = "leaving" /\ storedJtis' = storedJtis
      \/ r.at = "stored" /\ storedJtis' = usedJtis'[b]
  BY <1>2, <1>5
<1> QED
  BY <1>1, <1>2, <1>3, <1>4, <1>6, PurgeStep

\* A second use that is in time would find the entry of the first: that entry outlives the
\* proof, and the clock the request read was not past the proof's end.
LEMMA UseProofStep ==
  ASSUME ProofInv, NEW v \in Verifier, UseProof(v)
  PROVE  ProofInv'
<1> DEFINE b == verifiers[v].broker
           p == verifiers[v].proof
           t == verifiers[v].clock
           left == Living(usedJtis[b], t)
           inTime == now <= iat[p] + Tolerance
           use == IF inTime THEN p ELSE None
           r == RequestAt("leaving", b, None, 0, use)
<1>1. /\ Busy(v) /\ b \in BrokerId /\ p \in Proof /\ t \in Nat /\ t <= now /\ iat[p] # 0
      /\ t <= iat[p] + Tolerance /\ verifiers[v].use = None
  BY VerifierFields DEF UseProof, Busy, ProofInv, RequestsInv, InTolerance
<1>2. /\ left[p] = 0
      /\ usedJtis' = [usedJtis EXCEPT ![b] = [left EXCEPT ![p] = t + Tolerance]]
      /\ verifiers' = [verifiers EXCEPT ![v] = r]
      /\ proofUses' = IF inTime THEN [proofUses EXCEPT ![b][p] = Twice(@)]
                      ELSE proofUses
      /\ ahead' = IF t <= iat[p] THEN ahead \union {p} ELSE ahead
      /\ UNCHANGED <<now, iat, current, storedJtis, answeredUses, parted>>
  BY DEF UseProof
<1>3. use \in Proof \union {None}
  BY <1>1
<1>4. r \in VerifierState /\ r.at = "leaving" /\ r.broker = b /\ r.use = use
  <2>1. r \in VerifierState
    <3> HIDE DEF use
    <3> QED
      BY <1>1, <1>3, RequestType
  <2>2. r.at = "leaving" /\ r.broker = b /\ r.use = use
    <3> HIDE DEF use
    <3> QED
      BY RequestFields
  <2> QED
    BY <2>1, <2>2
<1>5. /\ usedJtis[b] \in Entries
      /\ left \in Entries
      /\ \A q \in Proof : Outlives(usedJtis[b][q], q) => Outlives(left[q], q)
      /\ left[p] = IF usedJtis[b][p] > t THEN usedJtis[b][p] ELSE 0
  BY <1>1, LivingKeeps DEF ProofInv, ProofTypeOK
<1>6. use = (IF now <= iat[p] + Tolerance THEN p ELSE None) /\ b = verifiers[v].broker
  OBVIOUS
<1> HIDE DEF b, p, t, left, use, r
<1>7. /\ usedJtis' \in [BrokerId -> Entries]
      /\ \A c \in BrokerId, q \in Proof :
           usedJtis'[c][q] = IF c = b THEN IF q = p THEN t + Tolerance ELSE left[q]
                             ELSE usedJtis[c][q]
  <2>1. [left EXCEPT ![p] = t + Tolerance] \in Entries
    BY <1>1, <1>5, ProofAssumption DEF Entries
  <2> QED
    BY <1>1, <1>2, <1>5, <2>1 DEF ProofInv, ProofTypeOK, Entries
<1>8. inTime => ~Outlives(usedJtis[b][p], p)
  BY <1>1, <1>2, <1>5, ProofAssumption DEF ProofInv, ProofTypeOK, Entries, Outlives
<1>9. t > iat[p] => Outlives(t + Tolerance, p)
  BY <1>1, ProofAssumption DEF ProofInv, ProofTypeOK, Outlives
<1>10. \A c \in BrokerId, q \in Proof :
         Outlives(usedJtis[c][q], q) /\ (q = p => t > iat[p]) => Outlives(usedJtis'[c][q], q)
  BY <1>5, <1>7, <1>9
<1>11. /\ proofUses' \in [BrokerId -> Counts]
       /\ \A c \in BrokerId, q \in Proof :
            proofUses'[c][q] = IF inTime /\ c = b /\ q = p THEN Twice(proofUses[c][q])
                               ELSE proofUses[c][q]
  <2>1. proofUses \in [BrokerId -> Counts]
    BY DEF ProofInv, ProofTypeOK
  <2>2. \A n \in 0..2 : Twice(n) \in 0..2
    BY DEF Twice
  <2>3. [proofUses[b] EXCEPT ![p] = Twice(proofUses[b][p])] \in Counts
    BY <1>1, <2>1, <2>2 DEF Counts
  <2> DEFINE f == [proofUses[b] EXCEPT ![p] = Twice(proofUses[b][p])]
  <2>4. CASE inTime
    <3>1. \A q \in Proof : f[q] = IF q = p THEN Twice(proofUses[b][q]) ELSE proofUses[b][q]
      BY <1>1, <2>1 DEF Counts
    <3>2. proofUses' = [proofUses EXCEPT ![b] = f]
      BY <1>2, <2>4
    <3>3. f \in Counts
      BY <2>3
    <3> HIDE DEF f, inTime
    <3>4. proofUses' \in [BrokerId -> Counts]
      BY <2>1, <3>2, <3>3
    <3>5. \A c \in BrokerId : proofUses'[c] = IF c = b THEN f ELSE proofUses[c]
      BY <2>1, <3>2
    <3> QED
      BY <2>4, <3>1, <3>4, <3>5
  <2>5. CASE ~inTime
    BY <1>2, <2>1, <2>5
  <2> QED
    BY <2>4, <2>5
<1>12. ahead \subseteq ahead' /\ ahead' \subseteq Proof /\ (p \notin ahead' => t > iat[p])
  <2>1. t \in Nat /\ iat[p] \in Nat
    BY <1>1 DEF ProofInv, ProofTypeOK
  <2> QED
    BY <1>1, <1>2, <2>1 DEF ProofInv, ProofTypeOK
<1>13. \A w \in Verifier : verifiers'[w] = IF w = v THEN r ELSE verifiers[w]
  BY <1>2 DEF ProofInv, ProofTypeOK
<1>14. ProofTypeOK'
  BY <1>2, <1>4, <1>7, <1>11, <1>12 DEF ProofInv, ProofTypeOK
<1>15. RequestsInv'
  BY <1>1, <1>2, <1>4, <1>13 DEF ProofInv, RequestsInv, Busy, InTolerance
<1>16. UnmadeInv'
  BY <1>1, <1>2, <1>4, <1>6, <1>11, <1>13, ProofAssumption DEF ProofInv, UnmadeInv
<1> HIDE DEF inTime
<1>17. MapsInv'
  <2> SUFFICES ASSUME NEW q \in Proof \ ahead', NEW c \in BrokerId
               PROVE  /\ proofUses'[c][q] <= 1
                      /\ proofUses'[c][q] = 1 => Outlives(usedJtis'[c][q], q)
    BY <1>2 DEF MapsInv, Outlives
  <2>1. /\ proofUses[c][q] <= 1
        /\ proofUses[c][q] = 1 => Outlives(usedJtis[c][q], q)
        /\ q = p => t > iat[p]
        /\ proofUses[c][q] \in 0..2
    BY <1>12 DEF ProofInv, MapsInv, ProofTypeOK, Counts
  <2>2. CASE inTime /\ c = b /\ q = p
    <3>1. proofUses[c][q] = 0
      BY <1>8, <2>1, <2>2
    <3>2. Outlives(usedJtis'[c][q], q)
      BY <1>7, <1>9, <2>1, <2>2
    <3> QED
      BY <1>11, <2>2, <3>1, <3>2 DEF Twice
  <2>3. CASE ~(inTime /\ c = b /\ q = p)
    BY <1>10, <1>11, <2>1, <2>3
  <2> QED
    BY <2>2, <2>3
<1>18. (~parted => UsesInv)'
  <2> SUFFICES ASSUME ~parted, UsesInv PROVE UsesInv'
    BY <1>2 DEF ProofInv
  <2>1. b = current /\ \A w \in Verifier : Busy(w)' => verifiers'[w].broker = current
    BY <1>1, <1>4, <1>6, <1>13 DEF UsesInv, Busy
  <2> SUFFICES ASSUME NEW q \in Proof \ ahead'
               PROVE  /\ \A w \in Verifier : verifiers'[w].use = q =>
                           /\ answeredUses[q] = 0
                           /\ Outlives(usedJtis'[current][q], q)
                           /\ verifiers'[w].at = "stored" => Outlives(storedJtis[q], q)
                           /\ \A u \in Verifier : verifiers'[u].use = q => u = w
                      /\ answeredUses[q] <= 1
                      /\ answeredUses[q] = 1 =>
                           /\ Outlives(storedJtis[q], q)
                           /\ current # None => Outlives(usedJtis'[current][q], q)
    BY <1>2, <2>1 DEF UsesInv, Outlives
  <2>2. q \notin ahead /\ (q = p => t > iat[p]) /\ b \in BrokerId
    BY <1>1, <1>12
  <2>3. Outlives(usedJtis[current][q], q) => Outlives(usedJtis'[current][q], q)
    BY <1>10, <2>1, <2>2
  <2>4. CASE r.use = q
    <3>1. q = p /\ ~Outlives(usedJtis[current][q], q)
      BY <1>4, <1>6, <1>8, <2>1, <2>4, ProofAssumption DEF inTime
    <3>2. answeredUses[q] = 0 /\ \A w \in Verifier : verifiers[w].use # q
      BY <2>1, <2>2, <3>1, ProofAssumption DEF UsesInv, ProofInv, ProofTypeOK, Counts
    <3>3. Outlives(usedJtis'[current][q], q)
      BY <1>7, <1>9, <2>1, <2>2, <3>1
    <3> QED
      BY <1>4, <1>13, <3>2, <3>3
  <2>5. CASE r.use # q
    <3>1. \A w \in Verifier : verifiers'[w].use = q => w # v /\ verifiers'[w] = verifiers[w]
      BY <1>13, <2>5
    <3> QED
      BY <2>2, <2>3, <3>1 DEF UsesInv
  <2> QED
    BY <2>4, <2>5
<1> QED
  BY <1>14, <1>15, <1>16, <1>17, <1>18 DEF ProofInv

LEMMA AnswerRequestStep ==
  ASSUME ProofInv, NEW v \in Verifier, AnswerRequest(v)
  PROVE  ProofInv'
<1> DEFINE use == verifiers[v].use
<1>1. /\ verifiers[v].at = "stored"
      /\ verifiers' = [verifiers EXCEPT ![v] = NotVerifying]
      /\ answeredUses' = IF use = None THEN answeredUses
                         ELSE [answeredUses EXCEPT ![use] = Twice(@)]
      /\ UNCHANGED <<now, iat, current, usedJtis, storedJtis, proofUses, ahead, parted>>
  BY DEF AnswerRequest
<1>2. NotVerifying \in VerifierState /\ NotVerifying.at = "idle" /\ NotVerifying.use = None
  BY RequestType, RequestFields DEF NotVerifying
<1>3. \A w \in Verifier : verifiers'[w] = IF w = v THEN NotVerifying ELSE verifiers[w]
  BY <1>1 DEF ProofInv, ProofTypeOK
<1>4. /\ answeredUses' \in Counts
      /\ \A p \in Proof : answeredUses'[p] = IF p = use THEN Twice(answeredUses[p])
                                             ELSE answeredUses[p]
  <2>1. answeredUses \in Counts /\ use \in Proof \union {None}
    BY VerifierFields DEF ProofInv, ProofTypeOK
  <2>2. \A n \in 0..2 : Twice(n) \in 0..2
    BY DEF Twice
  <2> HIDE DEF use
  <2>3. CASE use = None
    BY <1>1, <2>1, <2>3, ProofAssumption
  <2>4. CASE use # None
    BY <1>1, <2>1, <2>2, <2>4 DEF Counts
  <2> QED
    BY <2>3, <2>4
<1>5. ProofTypeOK'
  BY <1>1, <1>2, <1>4 DEF ProofInv, ProofTypeOK
<1>6. RequestsInv'
  BY <1>1, <1>2, <1>3 DEF ProofInv, RequestsInv, Busy, InTolerance
<1>7. UnmadeInv'
  BY <1>1, <1>2, <1>3, <1>4, ProofAssumption DEF ProofInv, UnmadeInv
<1>8. MapsInv'
  BY <1>1 DEF ProofInv, MapsInv, Outlives
<1>9. (~parted => UsesInv)'
  <2> SUFFICES ASSUME ~parted, UsesInv PROVE UsesInv'
    BY <1>1 DEF ProofInv
  <2>1. \A w \in Verifier : Busy(w)' => verifiers'[w].broker = current
    BY <1>2, <1>3 DEF UsesInv, Busy
  <2> SUFFICES ASSUME NEW p \in Proof \ ahead
               PROVE  /\ \A w \in Verifier : verifiers'[w].use = p =>
                           /\ answeredUses'[p] = 0
                           /\ Outlives(usedJtis[current][p], p)
                           /\ verifiers'[w].at = "stored" => Outlives(storedJtis[p], p)
                           /\ \A u \in Verifier : verifiers'[u].use = p => u = w
                      /\ answeredUses'[p] <= 1
                      /\ answeredUses'[p] = 1 =>
                           /\ Outlives(storedJtis[p], p)
                           /\ current # None => Outlives(usedJtis[current][p], p)
    BY <1>1, <2>1 DEF UsesInv, Outlives
  <2>2. \A w \in Verifier : verifiers'[w].use = p => w # v /\ verifiers'[w] = verifiers[w]
    BY <1>2, <1>3, ProofAssumption
  <2>3. CASE use = p
    <3>1. \A w \in Verifier : verifiers'[w].use # p
      BY <2>2, <2>3 DEF UsesInv
    <3>2. answeredUses'[p] = 1
      BY <1>4, <2>3 DEF UsesInv, Twice
    <3> QED
      BY <1>1, <2>3, <3>1, <3>2 DEF UsesInv
  <2>4. CASE use # p
    BY <1>4, <2>2, <2>4 DEF UsesInv
  <2> QED
    BY <2>3, <2>4
<1> QED
  BY <1>5, <1>6, <1>7, <1>8, <1>9 DEF ProofInv

\* Nobody is left in progress: what was answered is still in the snapshot.
LEMMA NobodyLeft ==
  ASSUME ProofInv, verifiers' \in [Verifier -> VerifierState],
         \A w \in Verifier : verifiers'[w] \in {NotVerifying, verifiers[w]},
         current' = None,
         UNCHANGED <<now, iat, usedJtis, storedJtis, proofUses, answeredUses, ahead>>,
         parted' \in BOOLEAN,
         ~parted' => ~parted /\ \A w \in Verifier : verifiers'[w].at = "idle"
  PROVE  ProofInv'
<1>1. NotVerifying.at = "idle" /\ NotVerifying.use = None
  BY RequestFields DEF NotVerifying
<1>2. ProofTypeOK'
  BY DEF ProofInv, ProofTypeOK
<1>3. RequestsInv'
  BY <1>1 DEF ProofInv, RequestsInv, Busy, InTolerance
<1>4. UnmadeInv'
  BY <1>1, ProofAssumption DEF ProofInv, UnmadeInv
<1>5. MapsInv'
  BY DEF ProofInv, MapsInv, Outlives
<1>6. (~parted => UsesInv)'
  <2> SUFFICES ASSUME ~parted' PROVE UsesInv'
    OBVIOUS
  <2>1. UsesInv
    BY DEF ProofInv
  <2>2. \A w \in Verifier : verifiers'[w].use = None /\ ~Busy(w)'
    BY <1>3 DEF RequestsInv, Busy
  <2>3. \A p \in Proof : p # None
    BY ProofAssumption
  <2> QED
    BY <2>1, <2>2, <2>3 DEF UsesInv, Outlives
<1> QED
  BY <1>2, <1>3, <1>4, <1>5, <1>6 DEF ProofInv

LEMMA RequestFailsStep ==
  ASSUME ProofInv, NEW v \in Verifier, RequestFails(v)
  PROVE  ProofInv'
<1>1. NotVerifying \in VerifierState /\ NotVerifying.at = "idle" /\ NotVerifying.use = None
  BY RequestType, RequestFields DEF NotVerifying
<1>2. /\ verifiers' = [verifiers EXCEPT ![v] = NotVerifying]
      /\ current' = None
      /\ parted' = (parted \/ \E w \in Verifier \ {v} : Busy(w))
      /\ UNCHANGED <<now, iat, usedJtis, storedJtis, proofUses, answeredUses, ahead>>
  BY DEF RequestFails
<1>3. /\ verifiers' \in [Verifier -> VerifierState]
      /\ \A w \in Verifier : verifiers'[w] = IF w = v THEN NotVerifying ELSE verifiers[w]
      /\ parted' \in BOOLEAN
  BY <1>1, <1>2 DEF ProofInv, ProofTypeOK
<1>4. ~parted' => ~parted /\ \A w \in Verifier : verifiers'[w].at = "idle"
  BY <1>1, <1>2, <1>3 DEF Busy
<1>5. \A w \in Verifier : verifiers'[w] \in {NotVerifying, verifiers[w]}
  BY <1>3
<1> QED
  BY <1>2, <1>3, <1>4, <1>5, NobodyLeft

LEMMA EvictBrokersStep ==
  ASSUME ProofInv, EvictBrokers
  PROVE  ProofInv'
<1>1. NotVerifying \in VerifierState /\ NotVerifying.at = "idle"
  BY RequestType, RequestFields DEF NotVerifying
<1>2. /\ verifiers' = [v \in Verifier |-> NotVerifying] /\ current' = None
      /\ UNCHANGED <<now, iat, usedJtis, storedJtis, proofUses, answeredUses, ahead, parted>>
  BY DEF EvictBrokers
<1>3. /\ verifiers' \in [Verifier -> VerifierState]
      /\ \A w \in Verifier : verifiers'[w] = NotVerifying
      /\ parted' \in BOOLEAN
  BY <1>1, <1>2 DEF ProofInv, ProofTypeOK
<1>4. /\ ~parted' => ~parted /\ \A w \in Verifier : verifiers'[w].at = "idle"
      /\ \A w \in Verifier : verifiers'[w] \in {NotVerifying, verifiers[w]}
  BY <1>1, <1>2, <1>3
<1> QED
  BY <1>2, <1>3, <1>4, NobodyLeft

LEMMA ProofTickStep ==
  ASSUME ProofInv, ProofTick
  PROVE  ProofInv'
<1>1. now \in Nat /\ now' = now + 1 /\ UNCHANGED proofVars
  BY DEF ProofInv, ProofTypeOK, ProofTick, Tick
<1>2. \A e \in Nat, p \in Proof : Outlives(e, p) => Outlives(e, p)'
  BY <1>1, ProofAssumption DEF ProofInv, ProofTypeOK, Outlives, proofVars
<1>3. ProofTypeOK'
  BY <1>1 DEF ProofInv, ProofTypeOK, proofVars
<1>4. RequestsInv'
  <2>1. \A v \in Verifier : verifiers[v].clock \in Nat
    BY VerifierFields DEF ProofInv
  <2> QED
    BY <1>1, <2>1 DEF ProofInv, RequestsInv, proofVars, Busy, InTolerance
<1>5. UnmadeInv'
  BY <1>1 DEF ProofInv, UnmadeInv, proofVars
<1>6. \A p \in Proof : storedJtis[p] \in Nat /\ \A b \in BrokerId : usedJtis[b][p] \in Nat
  BY DEF ProofInv, ProofTypeOK, Entries
<1> HIDE DEF Outlives
<1>7. MapsInv'
  BY <1>1, <1>2, <1>6 DEF ProofInv, MapsInv, proofVars
<1>8. (~parted => UsesInv)'
  <2> SUFFICES ASSUME ~parted, UsesInv PROVE UsesInv'
    BY <1>1 DEF ProofInv, proofVars
  <2>1. current \in BrokerId \union {None} /\ None \notin BrokerId \union Proof
    BY ProofAssumption DEF ProofInv, ProofTypeOK
  <2>2. \A v \in Verifier, p \in Proof : verifiers[v].use = p => current \in BrokerId
    <3> SUFFICES ASSUME NEW v \in Verifier, NEW p \in Proof, verifiers[v].use = p
                 PROVE  current \in BrokerId
      OBVIOUS
    <3>1. Busy(v)
      BY <2>1 DEF ProofInv, RequestsInv, Busy
    <3> QED
      BY <3>1 DEF UsesInv, ProofInv, RequestsInv
  <2> QED
    BY <1>1, <1>2, <1>6, <2>1, <2>2 DEF UsesInv, proofVars, Busy
<1> QED
  BY <1>3, <1>4, <1>5, <1>7, <1>8 DEF ProofInv

LEMMA ProofInvariance == ProofSpec => []ProofInv
<1>1. ClockInit /\ ProofInit => ProofInv
  <2> SUFFICES ASSUME ClockInit, ProofInit PROVE ProofInv
    OBVIOUS
  <2>1. NotVerifying \in VerifierState /\ NotVerifying.at = "idle" /\ NotVerifying.use = None
    BY RequestType, RequestFields DEF NotVerifying
  <2>2. NoEntries \in Entries /\ NoEntries \in Counts /\ \A p \in Proof : NoEntries[p] = 0
    BY DEF NoEntries, Entries, Counts
  <2>3. ProofTypeOK
    BY <2>1, <2>2 DEF ClockInit, ProofInit, ProofTypeOK, Entries
  <2>4. RequestsInv
    BY <2>1 DEF ProofInit, RequestsInv, Busy
  <2>5. UnmadeInv /\ MapsInv
    BY <2>1, <2>2, ProofAssumption DEF ProofInit, UnmadeInv, MapsInv
  <2>6. UsesInv
    BY <2>1, <2>2, ProofAssumption DEF ProofInit, UsesInv, Busy
  <2> QED
    BY <2>3, <2>4, <2>5, <2>6 DEF ProofInv
<1>2. ProofInv /\ [ProofNext]_<<now, proofVars>> => ProofInv'
  <2> SUFFICES ASSUME ProofInv, [ProofNext]_<<now, proofVars>> PROVE ProofInv'
    OBVIOUS
  <2>1. CASE ProofNext
    BY <2>1, MakeProofStep, GetBrokerStep, MakeBrokerStep, VerifyProofStep, ServeOtherStep,
       RefuseProofStep, UseProofStep, PersistProofsStep, AnswerRequestStep, RequestFailsStep,
       EvictBrokersStep, ProofTickStep DEF ProofNext, ServeRequest
  <2>2. CASE UNCHANGED <<now, proofVars>>
    BY <2>2 DEF proofVars, ProofInv, ProofTypeOK, RequestsInv, UnmadeInv, MapsInv, UsesInv,
       Outlives, Busy, InTolerance
  <2> QED
    BY <2>1, <2>2
<1> QED
  BY <1>1, <1>2, PTL DEF ProofSpec

\* A proof first used after its iat is accepted at most once by each Broker, also by Brokers
\* that are at work side by side, however requests that read different clocks overlap; and
\* one use of it is answered at most, through any Brokers, failures and evictions, unless a
\* failure has left two Brokers at work.
THEOREM ProofsAreAcceptedOnce == ProofSpec => []ProofAcceptedOnce
<1>1. ProofInv => ProofAcceptedOnce
  BY DEF ProofInv, MapsInv, UsesInv, ProofAcceptedOnce
<1> QED
  BY <1>1, ProofInvariance, PTL
=============================================================================
