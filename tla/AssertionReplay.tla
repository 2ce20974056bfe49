--------------------------- MODULE AssertionReplay ---------------------------
(***************************************************************************)
(* The one-time use of signed assertions: verifyJwt (jose.ts) with a       *)
(* replay repository, behind registration, the JWT bearer grant and the    *)
(* receiver of security events (whose ids have a prefix of their own), on  *)
(* the memory store and on D1 (repository.ts), where markIfUnused is two   *)
(* queries, each of them with the clock its caller read.                   *)
(***************************************************************************)
EXTENDS Clock

CONSTANTS
  Assertion,    \* replay ids: issuer and jti, with "set:" for events
  Presentation  \* the calls that can be in progress at once

VARIABLES
  replayStore,    \* which repository is deployed
  expiry,         \* Assertion -> exp, 0 until it is signed
  rows,           \* Assertion -> expires_at of its row in assertion_replays, 0 if none
  presentations,  \* Presentation -> the call
  accepted        \* history: Assertion -> uses that were recorded before it expired

replayVars == <<replayStore, expiry, rows, presentations, accepted>>

Idle == [at |-> "idle"]
PresentationState ==
  {Idle} \union [at: {"verified"}, id: Assertion]
         \union [at: {"asked", "cleaned"}, id: Assertion, clock: Nat]

ReplayTypeOK ==
  /\ now \in Nat
  /\ replayStore \in {"memory", "d1"}
  /\ expiry \in [Assertion -> Nat]
  /\ rows \in [Assertion -> Nat]
  /\ presentations \in [Presentation -> PresentationState]
  /\ accepted \in [Assertion -> Nat]

ReplayInit ==
  /\ replayStore \in {"memory", "d1"}
  /\ expiry = [a \in Assertion |-> 0]
  /\ rows = [a \in Assertion |-> 0]
  /\ presentations = [p \in Presentation |-> Idle]
  /\ accepted = [a \in Assertion |-> 0]

Sign(a) ==
  /\ expiry[a] = 0
  /\ \E e \in (now + 1)..MaxTime : expiry' = [expiry EXCEPT ![a] = e]
  /\ UNCHANGED <<now, replayStore, rows, presentations, accepted>>

\* Issuer, audience and times are compared; then the key is resolved and the signature awaited.
VerifyAssertion(p, a) ==
  /\ presentations[p] = Idle
  /\ expiry[a] > now
  /\ presentations' = [presentations EXCEPT ![p] = [at |-> "verified", id |-> a]]
  /\ UNCHANGED <<now, replayStore, expiry, rows, accepted>>

RecordUse(p, a) ==
  /\ rows' = [rows EXCEPT ![a] = expiry[a]]
  /\ accepted' = [accepted EXCEPT ![a] = IF now < expiry[a] THEN @ + 1 ELSE @]
  /\ presentations' = [presentations EXCEPT ![p] = Idle]
  /\ UNCHANGED <<now, replayStore, expiry>>

RefuseReplay(p) ==
  /\ presentations' = [presentations EXCEPT ![p] = Idle]
  /\ UNCHANGED <<now, replayStore, expiry, rows, accepted>>

\* InMemoryServiceStore.markIfUnused: one step
MarkInMemory(p) ==
  /\ presentations[p].at = "verified" /\ replayStore = "memory"
  /\ LET a == presentations[p].id IN
     IF rows[a] > now THEN RefuseReplay(p) ELSE RecordUse(p, a)

\* D1ServiceStore.markIfUnused: the clock is read, then two queries are awaited.
AskDatabase(p) ==
  /\ presentations[p].at = "verified" /\ replayStore = "d1"
  /\ presentations' = [presentations EXCEPT ![p] = [at |-> "asked", id |-> @.id, clock |-> now]]
  /\ UNCHANGED <<now, replayStore, expiry, rows, accepted>>

OutdatedEarly(a, t) == rows[a] <= t + 1  \* fault: the row goes while its assertion is valid
Outdated(a, t) == rows[a] <= t

\* The first query removes the rows of every assertion that has expired.
DeleteOutdated(p) ==
  /\ presentations[p].at = "asked"
  /\ rows' = [a \in Assertion |-> IF Outdated(a, presentations[p].clock) THEN 0 ELSE rows[a]]
  /\ presentations' = [presentations EXCEPT ![p].at = "cleaned"]
  /\ UNCHANGED <<now, replayStore, expiry, accepted>>

InsertOrIgnore(p) ==
  /\ presentations[p].at = "cleaned"
  /\ LET a == presentations[p].id IN
     IF rows[a] # 0 THEN RefuseReplay(p) ELSE RecordUse(p, a)

ReplayTick == Tick /\ UNCHANGED replayVars

ReplayNext ==
  \/ \E a \in Assertion : Sign(a)
  \/ \E p \in Presentation :
       \/ \E a \in Assertion : VerifyAssertion(p, a)
       \/ MarkInMemory(p)
       \/ AskDatabase(p)
       \/ DeleteOutdated(p)
       \/ InsertOrIgnore(p)
  \/ ReplayTick

ReplaySpec == ClockInit /\ ReplayInit /\ [][ReplayNext]_<<now, replayVars>>

\* However presentations and the removal of outdated rows overlap, an assertion is accepted
\* once while it is valid. A call that verified it in time and records it after its expiry can
\* be a second one: by then its row may be gone.
AssertionAcceptedOnce == \A a \in Assertion : accepted[a] <= 1
=============================================================================
