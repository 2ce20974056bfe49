----------------------------- MODULE ProofReplay -----------------------------
(***************************************************************************)
(* The one-time use of DPoP proofs: verifyDpopProof (crypto.ts) as consume *)
(* and completeAuthenticated call it, with the memory of used ids that     *)
(* each Broker object keeps and the coordinator (runtime.ts) stores with   *)
(* its snapshot.                                                           *)
(*                                                                         *)
(* A request keeps the Broker it got, also when a reset has replaced that  *)
(* Broker for later requests: both then accept proofs by their own maps,   *)
(* and either may store its map over the other's. The clock is read before *)
(* the signature is awaited; what follows the last await is one step on    *)
(* the Broker's map.                                                       *)
(***************************************************************************)
EXTENDS Clock

CONSTANTS
  Proof,      \* proofs, each with its jti
  Verifier,   \* the requests that can be in progress at once
  BrokerId,   \* the Broker objects that can be alive at once
  None,       \* an absent value
  Tolerance   \* how far iat may be from the clock, and how long a jti is kept (300 s)

ASSUME ProofAssumption == Tolerance \in Nat /\ None \notin Proof \union BrokerId

VARIABLES
  iat,           \* Proof -> the time its client put in, 0 until it is made
  current,       \* brokerPromise: the Broker a new request gets
  usedJtis,      \* BrokerId -> Proof -> when its entry ends, 0 if there is none
  storedJtis,    \* the entries of the stored snapshot, likewise
  verifiers,     \* Verifier -> the request
  proofUses,     \* history: BrokerId -> Proof -> uses this Broker accepted up to iat + Tolerance
  answeredUses,  \* history: Proof -> such uses whose request was answered
  ahead,         \* history: proofs used when the clock was not yet past their iat
  parted         \* history: a failure met another request in progress

proofVars == <<iat, current, usedJtis, storedJtis, verifiers,
               proofUses, answeredUses, ahead, parted>>

Entries == [Proof -> Nat]
NoEntries == [p \in Proof |-> 0]

\* Uses are counted up to two.
Counts == [Proof -> 0..2]
Twice(n) == IF n < 2 THEN n + 1 ELSE n

\* use: the proof the request had accepted in its time, if any.
RequestAt(at, b, p, t, use) == [at |-> at, broker |-> b, proof |-> p, clock |-> t, use |-> use]
NotVerifying == RequestAt("idle", None, None, 0, None)
VerifierState == [at: {"idle", "serving", "verifying", "leaving", "stored"},
                  broker: BrokerId \union {None},
                  proof: Proof \union {None},
                  clock: Nat,
                  use: Proof \union {None}]

Busy(v) == verifiers[v].at # "idle"

ProofTypeOK ==
  /\ now \in Nat
  /\ iat \in [Proof -> Nat]
  /\ current \in BrokerId \union {None}
  /\ usedJtis \in [BrokerId -> Entries]
  /\ storedJtis \in Entries
  /\ verifiers \in [Verifier -> VerifierState]
  /\ proofUses \in [BrokerId -> Counts]
  /\ answeredUses \in Counts
  /\ ahead \subseteq Proof
  /\ parted \in BOOLEAN

ProofInit ==
  /\ iat = NoEntries
  /\ current = None
  /\ usedJtis = [b \in BrokerId |-> NoEntries]
  /\ storedJtis = NoEntries
  /\ verifiers = [v \in Verifier |-> NotVerifying]
  /\ proofUses = [b \in BrokerId |-> NoEntries]
  /\ answeredUses = NoEntries
  /\ ahead = {}
  /\ parted = FALSE

\* The entries of f that have not ended at t.
LivingJustEnded(f, t) == [p \in Proof |-> IF f[p] > t + 1 THEN f[p] ELSE 0]  \* fault: too early
Living(f, t) == [p \in Proof |-> IF f[p] > t THEN f[p] ELSE 0]

\* The client's clock need not agree with the broker's.
MakeProof(p) ==
  /\ iat[p] = 0
  /\ \E t \in 1..MaxTime : iat' = [iat EXCEPT ![p] = t]
  /\ UNCHANGED <<now, current, usedJtis, storedJtis, verifiers, proofUses, answeredUses, ahead, parted>>

\* fetch: the request gets the Broker of brokerPromise. Without one it makes a Broker from
\* the stored snapshot, leaving out what has ended (how requests share a Broker that is
\* still being made is module Coordinator).
GetBroker(v) ==
  /\ ~Busy(v)
  /\ current # None
  /\ verifiers' = [verifiers EXCEPT ![v] = RequestAt("serving", current, None, 0, None)]
  /\ UNCHANGED <<now, iat, current, usedJtis, storedJtis, proofUses, answeredUses, ahead, parted>>

MakeBroker(v, b) ==
  /\ ~Busy(v)
  /\ current = None
  /\ \A w \in Verifier : Busy(w) => verifiers[w].broker # b
  /\ current' = b
  /\ usedJtis' = [usedJtis EXCEPT ![b] = Living(storedJtis, now)]
  /\ proofUses' = [proofUses EXCEPT ![b] = NoEntries]
  /\ verifiers' = [verifiers EXCEPT ![v] = RequestAt("serving", b, None, 0, None)]
  /\ UNCHANGED <<now, iat, storedJtis, answeredUses, ahead, parted>>

InTolerance(t, issued) == t <= issued + Tolerance /\ issued <= t + Tolerance

\* The request brings a proof whose time is right; its signature is awaited.
VerifyProof(v, p) ==
  /\ verifiers[v].at = "serving"
  /\ iat[p] # 0 /\ InTolerance(now, iat[p])
  /\ verifiers' = [verifiers EXCEPT ![v] =
       RequestAt("verifying", verifiers[v].broker, p, now, None)]
  /\ UNCHANGED <<now, iat, current, usedJtis, storedJtis, proofUses, answeredUses, ahead, parted>>

\* Any other request, and one that is refused, only stores what its Broker has.
ServeOther(v) ==
  /\ verifiers[v].at \in {"serving", "verifying"}
  /\ verifiers' = [verifiers EXCEPT ![v] =
       RequestAt("leaving", verifiers[v].broker, None, 0, None)]
  /\ UNCHANGED <<now, iat, current, usedJtis, storedJtis, proofUses, answeredUses, ahead, parted>>

\* Entries that have ended by the clock this call read are removed first. An id that is
\* still there is refused.
RefuseProof(v) ==
  LET b == verifiers[v].broker  left == Living(usedJtis[b], verifiers[v].clock) IN
  /\ verifiers[v].at = "verifying"
  /\ left[verifiers[v].proof] # 0
  /\ usedJtis' = [usedJtis EXCEPT ![b] = left]
  /\ verifiers' = [verifiers EXCEPT ![v] = RequestAt("leaving", b, None, 0, None)]
  /\ UNCHANGED <<now, iat, current, storedJtis, proofUses, answeredUses, ahead, parted>>

UseProof(v) ==
  LET b == verifiers[v].broker
      p == verifiers[v].proof
      t == verifiers[v].clock
      left == Living(usedJtis[b], t)
      inTime == now <= iat[p] + Tolerance
  IN /\ verifiers[v].at = "verifying"
     /\ left[p] = 0
     /\ usedJtis' = [usedJtis EXCEPT ![b] = [left EXCEPT ![p] = t + Tolerance]]
     /\ verifiers' = [verifiers EXCEPT ![v] =
          RequestAt("leaving", b, None, 0, IF inTime THEN p ELSE None)]
     /\ proofUses' = IF inTime THEN [proofUses EXCEPT ![b][p] = Twice(@)] ELSE proofUses
     /\ ahead' = IF t <= iat[p] THEN ahead \union {p} ELSE ahead
     /\ UNCHANGED <<now, iat, current, storedJtis, answeredUses, parted>>

\* persist: the Broker's living entries replace the stored ones.
PersistProofs(v) ==
  LET b == verifiers[v].broker  left == Living(usedJtis[b], now) IN
  /\ verifiers[v].at = "leaving"
  /\ usedJtis' = [usedJtis EXCEPT ![b] = left]
  /\ storedJtis' = left
  /\ verifiers' = [verifiers EXCEPT ![v] = RequestAt("stored", b, None, 0, verifiers[v].use)]
  /\ UNCHANGED <<now, iat, current, proofUses, answeredUses, ahead, parted>>

AnswerRequest(v) ==
  /\ verifiers[v].at = "stored"
  /\ verifiers' = [verifiers EXCEPT ![v] = NotVerifying]
  /\ answeredUses' = IF verifiers[v].use = None THEN answeredUses
                 ELSE [answeredUses EXCEPT ![verifiers[v].use] = Twice(@)]
  /\ UNCHANGED <<now, iat, current, usedJtis, storedJtis, proofUses, ahead, parted>>

\* resetBroker, in the catch of fetch: whichever Broker is current goes, also when the
\* request that failed was still on an older one. The others keep theirs.
RequestFails(v) ==
  /\ Busy(v)
  /\ verifiers' = [verifiers EXCEPT ![v] = NotVerifying]
  /\ current' = None
  /\ parted' = (parted \/ \E w \in Verifier \ {v} : Busy(w))
  /\ UNCHANGED <<now, iat, usedJtis, storedJtis, proofUses, answeredUses, ahead>>

\* The platform removes the Durable Object, with all of its requests.
EvictBrokers ==
  /\ current' = None
  /\ verifiers' = [v \in Verifier |-> NotVerifying]
  /\ UNCHANGED <<now, iat, usedJtis, storedJtis, proofUses, answeredUses, ahead, parted>>

ProofTick == Tick /\ UNCHANGED proofVars

ServeRequest(v) ==
  \/ \E p \in Proof : VerifyProof(v, p)
  \/ ServeOther(v)
  \/ RefuseProof(v)
  \/ UseProof(v)
  \/ PersistProofs(v)
  \/ AnswerRequest(v)
  \/ RequestFails(v)

ProofNext ==
  \/ \E p \in Proof : MakeProof(p)
  \/ \E v \in Verifier : GetBroker(v) \/ (\E b \in BrokerId : MakeBroker(v, b)) \/ ServeRequest(v)
  \/ EvictBrokers
  \/ ProofTick

ProofSpec == ClockInit /\ ProofInit /\ [][ProofNext]_<<now, proofVars>>

\* docs/spec/completion-scoped-grants.md:86, :126: a replayed proof is refused. A Broker
\* accepts a proof once while it is in time, however requests that read different clocks
\* overlap and remove ended entries, and also when it was replaced meanwhile. And through
\* all Brokers, failures and evictions one use of it is answered, unless a failure has left
\* two Brokers at work. This is of proofs first used after their iat: see ReplayRefused.
ProofAcceptedOnce ==
  \A p \in Proof \ ahead :
    /\ \A b \in BrokerId : proofUses[b][p] <= 1
    /\ ~parted => answeredUses[p] <= 1

\* The same for one Broker and every proof. It fails: the entry of a proof that was used at
\* its iat or before ends when the proof can still be presented.
ReplayRefused == \A b \in BrokerId, p \in Proof : proofUses[b][p] <= 1
=============================================================================
