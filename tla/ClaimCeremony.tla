--------------------------- MODULE ClaimCeremony ---------------------------
(***************************************************************************)
(* Claims: ClaimCeremony (claim.ts) over DurableObjectClaimState           *)
(* (repository.ts), the D1 routes that lead a request to the object of its *)
(* registration (router.ts), the exchange of a claim grant for a token     *)
(* (service.ts), and the alarm that removes expired claims                 *)
(* (claim-durable-object.ts). One registration's object is modelled.       *)
(*                                                                         *)
(* A call reads the claim and later writes it with a compare-and-set on    *)
(* its version; ClaimRepository lets other calls in between. Storage calls *)
(* that follow each other inside createClaim and removeExpiredClaims are   *)
(* not interleaved (the object's input gate), but may be cut short.        *)
(*                                                                         *)
(* Left out: the limiters (module RateLimit; a refused call changes no     *)
(* claim), scopes and resources (module TokenService), and two checks that *)
(* never decide: userCodeUsedAt and verificationAttempts change only with  *)
(* the status that ends "pending".                                         *)
(***************************************************************************)
EXTENDS Naturals, FiniteSetsExt

CONSTANTS
  Claim,      \* claim ids, each with its device and user code
  Active,     \* bound: the claims anybody verifies, decides, polls or uses
  Call,       \* the calls that can be in progress at once
  None,       \* no claim
  Lifetime,   \* expiresInSeconds
  Interval,   \* initialIntervalSeconds
  SlowDown,   \* what a poll that comes too early adds to the interval
  MaxTime,    \* bound: the clock
  MaxWrites,  \* bound: successful compare-and-sets
  MaxFaults   \* bound: storage sequences cut short and failed route removals

ASSUME ClaimAssumption ==
  /\ Lifetime \in Nat \ {0} /\ Interval \in Nat \ {0} /\ SlowDown \in Nat
  /\ MaxTime \in Nat \ {0} /\ MaxWrites \in Nat /\ MaxFaults \in Nat
  /\ Active \subseteq Claim /\ None \notin Claim

VARIABLES
  now,         \* the clock, from 1
  claims,      \* Claim -> its record in the object's storage
  active,      \* claim:active-ids
  nextExpiry,  \* claim:next-expiry
  alarm,       \* the object's alarm
  routes,      \* Claim -> expires_at of its row in claim_routes
  calls,       \* Call -> what it is doing
  writes,      \* successful compare-and-sets so far
  faults,      \* faults so far
  cut,         \* history: a sequence was cut where no later step repairs it
  grants,      \* history: Claim -> expiry of the claim grant handed to its poller
  decided,     \* history: Claim -> the decisions that were answered with success
  tokens       \* history: Claim -> tokens issued for its grant

stored == <<claims, active, nextExpiry, alarm, routes>>
history == <<grants, decided, tokens>>
vars == <<now, stored, calls, writes, faults, cut, history>>

(***************************************************************************)
(* Types                                                                   *)
(***************************************************************************)

Unset == 0  \* an absent time
Time == Nat

ClaimStatus == {"none", "pending", "user_verified", "approved", "denied", "expired", "removed"}
ClaimRecord == [status: ClaimStatus, expiresAt: Time, interval: Nat,
                lastPoll: Time, used: BOOLEAN, version: Nat]
NoClaim == [status |-> "none", expiresAt |-> Unset, interval |-> 0,
            lastPoll |-> Unset, used |-> FALSE, version |-> 0]
Removed == [NoClaim EXCEPT !.status = "removed"]

Op == {"start", "verify", "approve", "deny", "poll", "use"}
CallState == [at: {"idle", "called", "routed", "writing"}, op: Op, claim: Claim \union {None},
              copy: ClaimRecord, clock: Time]
IdleCall == [at |-> "idle", op |-> "start", claim |-> None, copy |-> NoClaim, clock |-> Unset]

TypeOK ==
  /\ now \in Time
  /\ claims \in [Claim -> ClaimRecord]
  /\ active \subseteq Claim
  /\ nextExpiry \in Time /\ alarm \in Time
  /\ routes \in [Claim -> Time]
  /\ calls \in [Call -> CallState]
  /\ writes \in Nat /\ faults \in Nat /\ cut \in BOOLEAN
  /\ grants \in [Claim -> Time]
  /\ decided \in [Claim -> SUBSET {"approved", "denied"}]
  /\ tokens \in [Claim -> Nat]

Init ==
  /\ now = 1
  /\ claims = [c \in Claim |-> NoClaim]
  /\ active = {}
  /\ nextExpiry = Unset
  /\ alarm = Unset
  /\ routes = [c \in Claim |-> Unset]
  /\ calls = [r \in Call |-> IdleCall]
  /\ writes = 0
  /\ faults = 0
  /\ cut = FALSE
  /\ grants = [c \in Claim |-> Unset]
  /\ decided = [c \in Claim |-> {}]
  /\ tokens = [c \in Claim |-> 0]

Stored(c) == claims[c].status \notin {"none", "removed"}
Earlier(s, t) == IF s < t THEN s ELSE t
Done(r) == calls' = [calls EXCEPT ![r] = IdleCall]
Fault == faults < MaxFaults /\ faults' = faults + 1

(***************************************************************************)
(* Starting a claim                                                        *)
(***************************************************************************)

\* start reads the clock before the limiter, the hashes and the route are awaited.
Start(r, c) ==
  /\ calls[r].at = "idle"
  /\ claims[c].status = "none" /\ routes[c] = Unset
  /\ \A s \in Call : calls[s].claim # c
  /\ calls' = [calls EXCEPT ![r] = [IdleCall EXCEPT !.at = "called", !.claim = c, !.clock = now]]
  /\ UNCHANGED <<now, stored, writes, faults, cut, history>>

NewClaim(t) == [status |-> "pending", expiresAt |-> t + Lifetime, interval |-> Interval,
                lastPoll |-> Unset, used |-> FALSE, version |-> 1]

\* ClaimStateServiceStore.createClaim writes the route first.
AddRoute(r) ==
  /\ calls[r].at = "called" /\ calls[r].op = "start"
  /\ routes' = [routes EXCEPT ![calls[r].claim] = calls[r].clock + Lifetime]
  /\ calls' = [calls EXCEPT ![r].at = "routed"]
  /\ UNCHANGED <<now, claims, active, nextExpiry, alarm, writes, faults, cut, history>>

AlarmIsLaterWrong(e) == nextExpiry = Unset  \* fault: an earlier claim leaves the alarm alone
AlarmIsLater(e) == nextExpiry = Unset \/ e < nextExpiry

\* createClaim: record, indexes and next expiry in one put, then the alarm.
PutClaim(r) ==
  LET claim == NewClaim(calls[r].clock) IN
  /\ calls[r].at = "routed"
  /\ claims' = [claims EXCEPT ![calls[r].claim] = claim]
  /\ active' = active \union {calls[r].claim}
  /\ nextExpiry' = IF nextExpiry = Unset THEN claim.expiresAt
                   ELSE Earlier(nextExpiry, claim.expiresAt)
  /\ Done(r)
  /\ UNCHANGED <<now, routes, writes, history>>

StoreClaim(r) ==
  LET e == calls[r].clock + Lifetime IN
  /\ PutClaim(r)
  /\ alarm' = IF AlarmIsLater(e) THEN e ELSE alarm
  /\ UNCHANGED <<faults, cut>>

\* The object dies before the alarm is set: no later claim sets it in its stead.
StoreClaimCut(r) ==
  /\ AlarmIsLater(calls[r].clock + Lifetime)
  /\ PutClaim(r)
  /\ Fault
  /\ cut' = TRUE
  /\ UNCHANGED alarm

(***************************************************************************)
(* Calls about a claim                                                     *)
(***************************************************************************)

\* The worker finds the object through a route that has not expired, and otherwise
\* answers invalid_grant.
Lookup(r, c, op) ==
  /\ calls[r].at = "idle"
  /\ op \in Op \ {"start", "use"}
  /\ routes[c] > now
  /\ writes < MaxWrites
  /\ calls' = [calls EXCEPT ![r] = [IdleCall EXCEPT !.at = "called", !.op = op, !.claim = c]]
  /\ UNCHANGED <<now, stored, writes, faults, cut, history>>

\* A claim grant names its claim and registration; verifyJwt refuses it once it expired.
Present(r, c) ==
  /\ calls[r].at = "idle"
  /\ grants[c] > now
  /\ writes < MaxWrites
  /\ calls' = [calls EXCEPT ![r] = [IdleCall EXCEPT !.at = "called", !.op = "use", !.claim = c]]
  /\ UNCHANGED <<now, stored, writes, faults, cut, history>>

\* expireIfNeeded
Expiring(claim, t) ==
  /\ claim.expiresAt <= t
  /\ claim.status # "expired"
  /\ ~(claim.status = "approved" /\ claim.used)

AcceptsUsed(op, claim) ==  \* fault: a used grant is used again
  \/ op = "verify" /\ claim.status = "pending"
  \/ op \in {"approve", "deny"} /\ claim.status = "user_verified"
  \/ op = "poll" /\ claim.status \notin {"expired", "denied"}
  \/ op = "use" /\ claim.status = "approved"
Accepts(op, claim) ==
  \/ op = "verify" /\ claim.status = "pending"
  \/ op \in {"approve", "deny"} /\ claim.status = "user_verified"
  \/ op = "poll" /\ claim.status \notin {"expired", "denied"}
  \/ op = "use" /\ claim.status = "approved" /\ ~claim.used

TooEarlyAtFirst(claim, t) ==  \* fault: slow_down has no effect
  claim.lastPoll # Unset /\ t < claim.lastPoll + Interval
TooEarly(claim, t) == claim.lastPoll # Unset /\ t < claim.lastPoll + claim.interval

\* The record that transition asks for.
Changed(op, claim, t) ==
  IF Expiring(claim, t) THEN [claim EXCEPT !.status = "expired"]
  ELSE CASE op = "verify" -> [claim EXCEPT !.status = "user_verified"]
         [] op = "approve" -> [claim EXCEPT !.status = "approved"]
         [] op = "deny" -> [claim EXCEPT !.status = "denied"]
         [] op = "use" -> [claim EXCEPT !.used = TRUE]
         [] op = "poll" -> IF TooEarly(claim, t) THEN [claim EXCEPT !.interval = @ + SlowDown]
                                                 ELSE [claim EXCEPT !.lastPoll = t]

Read(r) ==
  LET claim == claims[calls[r].claim] IN
  /\ calls[r].at = "called" /\ calls[r].op # "start"
  /\ IF Stored(calls[r].claim) /\ (Expiring(claim, now) \/ Accepts(calls[r].op, claim))
     THEN calls' = [calls EXCEPT ![r] = [@ EXCEPT !.at = "writing", !.copy = claim, !.clock = now]]
     ELSE Done(r)
  /\ UNCHANGED <<now, stored, writes, faults, cut, history>>

MatchesAny(c, copy) == Stored(c)  \* fault: the version is not compared
Matches(c, copy) == Stored(c) /\ claims[c].version = copy.version

\* What the caller is told once the claim has changed. After the use of a grant the
\* exchange checks identity, scope and resource, and only then creates the token.
Answer(op, c, copy, t) ==
  /\ grants' = IF op = "poll" /\ copy.status = "approved" /\ ~Expiring(copy, t) /\ ~TooEarly(copy, t)
               THEN [grants EXCEPT ![c] = copy.expiresAt] ELSE grants
  /\ decided' = IF op \in {"approve", "deny"} /\ ~Expiring(copy, t)
                THEN [decided EXCEPT ![c] = @ \union {Changed(op, copy, t).status}] ELSE decided
  /\ \/ UNCHANGED tokens
     \/ op = "use" /\ ~Expiring(copy, t) /\ tokens' = [tokens EXCEPT ![c] = @ + 1]

Swap(r) ==
  LET c == calls[r].claim  copy == calls[r].copy IN
  /\ calls[r].at = "writing"
  /\ Matches(c, copy)
  /\ claims' = [claims EXCEPT ![c] =
       [Changed(calls[r].op, copy, calls[r].clock) EXCEPT !.version = copy.version + 1]]
  /\ Answer(calls[r].op, c, copy, calls[r].clock)
  /\ writes' = writes + 1
  /\ Done(r)
  /\ UNCHANGED <<now, active, nextExpiry, alarm, routes, faults, cut>>

\* temporarily_unavailable, or invalid_grant if the claim is gone
SwapRefused(r) ==
  /\ calls[r].at = "writing"
  /\ ~Matches(calls[r].claim, calls[r].copy)
  /\ Done(r)
  /\ UNCHANGED <<now, stored, writes, faults, cut, history>>

(***************************************************************************)
(* The alarm                                                               *)
(***************************************************************************)

Due == alarm # Unset /\ alarm <= now
ExpiredBefore ==  \* fault: what expires at this very moment stays, and loses its index
  {c \in active : Stored(c) /\ claims[c].expiresAt < now}
Expired == {c \in active : Stored(c) /\ claims[c].expiresAt <= now}
Remaining == {c \in active : Stored(c) /\ claims[c].expiresAt > now}
FirstExpiry == IF Remaining = {} THEN Unset ELSE Min({claims[c].expiresAt : c \in Remaining})

Delete(gone) == claims' = [c \in Claim |-> IF c \in gone THEN Removed ELSE claims[c]]
AfterAlarm == UNCHANGED <<now, calls, writes, history>>

\* removeExpiredClaims up to its last statement, the alarm; without active ids it only
\* deletes the alarm.
Reindex ==
  /\ Delete(Expired)
  /\ active' = Remaining
  /\ nextExpiry' = IF active = {} THEN nextExpiry ELSE FirstExpiry

RouteIsOverEarly(c) == routes[c] <= now + 1  \* fault: a route goes before its claim expires
RouteIsOver(c) == routes[c] <= now

Sweep ==
  /\ Due
  /\ Reindex
  /\ alarm' = FirstExpiry
  /\ routes' = [c \in Claim |-> IF RouteIsOver(c) THEN Unset ELSE routes[c]]
  /\ UNCHANGED <<faults, cut>>
  /\ AfterAlarm

\* The handler fails or dies on its way, and the platform fires the alarm again: after some
\* deletions, before the alarm is set, or when the routes are to be removed.
SweepFails ==
  /\ Due
  /\ Fault
  /\ \/ \E gone \in SUBSET Expired : Delete(gone) /\ UNCHANGED <<active, nextExpiry>>
     \/ Reindex
  /\ UNCHANGED <<alarm, routes, cut>>
  /\ AfterAlarm

\* ... or between the deletion of the active ids and that of the next expiry: the next run
\* finds no ids and leaves the next expiry there.
SweepCut ==
  /\ Due
  /\ active # {} /\ Remaining = {}
  /\ Fault
  /\ Delete(Expired)
  /\ active' = {}
  /\ cut' = TRUE
  /\ UNCHANGED <<nextExpiry, alarm, routes>>
  /\ AfterAlarm

Tick ==
  /\ now < MaxTime
  /\ now' = now + 1
  /\ UNCHANGED <<stored, calls, writes, faults, cut, history>>

(***************************************************************************)
(* The system                                                              *)
(***************************************************************************)

Next ==
  \/ \E r \in Call :
       \/ \E c \in Claim : Start(r, c)
       \/ \E c \in Active : \/ \E op \in Op : Lookup(r, c, op)
                            \/ Present(r, c)
       \/ AddRoute(r)
       \/ StoreClaim(r)
       \/ StoreClaimCut(r)
       \/ Read(r)
       \/ Swap(r)
       \/ SwapRefused(r)
  \/ Sweep
  \/ SweepFails
  \/ SweepCut
  \/ Tick

Spec == Init /\ [][Next]_vars

\* The platform fires an alarm that is due, again after a failure.
FairSpec == Spec /\ WF_vars(Sweep)

(***************************************************************************)
(* Properties                                                              *)
(***************************************************************************)

\* A claim buys at most one token, and only if its user approved it and nobody else's
\* answer said that it was denied, however polls, decisions and exchanges overlap.
TokenFollowsApproval ==
  \A c \in Claim : tokens[c] <= 1 /\ (tokens[c] = 1 => decided[c] = {"approved"})

\* Polls that are let through keep the interval, which includes every slow_down answered in
\* between: of two polls that read the same record only one is. (A counted poll shows
\* by moving lastPoll on; a second one at the very same time would not.)
PollPace ==
  [][\A c \in Claim : Stored(c) /\ claims'[c].lastPoll > claims[c].lastPoll =>
       \/ claims[c].lastPoll = Unset
       \/ claims'[c].lastPoll >= claims[c].lastPoll + claims[c].interval]_vars

\* Every claim in the storage will be removed by an alarm that is set no later than its
\* expiry or is being retried, although claims may be stored in another order than they
\* were started. The two cut sequences are the exceptions.
ClaimsAreScheduled ==
  cut \/ \A c \in Claim : Stored(c) => alarm # Unset /\ alarm <= claims[c].expiresAt

\* A claim that has not expired can be found: its route was there first and stays.
ClaimsAreRouted ==
  \A c \in Claim : Stored(c) /\ claims[c].expiresAt > now => routes[c] = claims[c].expiresAt

\* docs/deploy.md:30: the object removes expired claim state with an alarm.
ExpiredClaimsLeave ==
  \A c \in Claim : (Stored(c) /\ claims[c].expiresAt <= now) ~> (cut \/ ~Stored(c))

StatusOf(claim) == IF claim.used THEN "used" ELSE claim.status
StatusMap == [c \in Claim |-> StatusOf(claims[c])]
Lifecycle == INSTANCE ClaimLifecycle WITH status <- StatusMap

\* The ceremony implements its promise.
ImplementsLifecycle == Lifecycle!Spec
=============================================================================
