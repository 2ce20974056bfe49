---------------------------- MODULE ClaimProofs ----------------------------
(***************************************************************************)
(* Proofs about ClaimCeremony, for any number of claims and calls and any  *)
(* lifetime, interval, clock and number of faults.                         *)
(***************************************************************************)
EXTENDS ClaimCeremony, WellFoundedInduction, TLAPS

-----------------------------------------------------------------------------
(* The inductive invariant *)

Starting(r) == calls[r].op = "start" /\ calls[r].at \in {"called", "routed"}

\* What a call that is about to write knows of its copy: it is acceptable, and whoever
\* wrote since then has raised the version.
CopyInv(r) ==
  LET c == calls[r].claim  copy == calls[r].copy IN
  /\ copy.status \notin {"none", "removed"}
  /\ Expiring(copy, calls[r].clock) \/ Accepts(calls[r].op, copy)
  /\ claims[c].status # "none"
  /\ Stored(c) => \/ copy.version < claims[c].version
                  \/ copy.version = claims[c].version /\ copy = claims[c]

CallsInv ==
  \A r \in Call :
    /\ calls[r].at # "idle" => calls[r].claim \in Claim
    /\ Starting(r) => claims[calls[r].claim].status = "none"
    /\ calls[r].at = "routed" =>
         /\ calls[r].op = "start"
         /\ \/ routes[calls[r].claim] = calls[r].clock + Lifetime
            \/ calls[r].clock + Lifetime <= now
    /\ calls[r].at = "writing" => calls[r].op # "start" /\ CopyInv(r)

\* No claim is started twice.
StartersInv ==
  \A r, s \in Call : Starting(r) /\ Starting(s) /\ r # s => calls[r].claim # calls[s].claim

\* The decisions that were answered are those the record tells.
DecidedInv ==
  \A c \in Claim :
    /\ claims[c].used => claims[c].status = "approved"
    /\ claims[c].status \in {"none", "pending", "user_verified"} => decided[c] = {}
    /\ claims[c].status = "approved" => decided[c] = {"approved"}

\* A token leaves behind a used claim, until the claim is removed.
TokensInv ==
  \A c \in Claim :
    \/ tokens[c] = 0
    \/ /\ tokens[c] = 1
       /\ decided[c] = {"approved"}
       /\ claims[c].status = "removed" \/ claims[c].used

CoreInv == /\ TypeOK
           /\ CallsInv
           /\ StartersInv
           /\ DecidedInv
           /\ TokensInv
           /\ ClaimsAreRouted

\* Unless a sequence was cut short: every stored claim is indexed, and neither the next
\* expiry nor the alarm is later than its own.
ScheduleInv ==
  cut \/ /\ \A c \in Claim : Stored(c) =>
              c \in active /\ nextExpiry # Unset /\ nextExpiry <= claims[c].expiresAt
         /\ active = {} => nextExpiry = Unset
         /\ nextExpiry # Unset => alarm # Unset /\ alarm <= nextExpiry

IInv == CoreInv /\ ScheduleInv

-----------------------------------------------------------------------------
(* Records *)

LEMMA Records ==
  /\ NoClaim \in ClaimRecord /\ Removed \in ClaimRecord
  /\ Removed.status = "removed" /\ Removed.used = FALSE /\ NoClaim.status = "none"
  /\ IdleCall \in CallState /\ IdleCall.at = "idle"
BY DEF NoClaim, Removed, ClaimRecord, ClaimStatus, Time, Unset, IdleCall, CallState, Op

LEMMA NewClaimFields ==
  ASSUME NEW t \in Nat
  PROVE  /\ NewClaim(t) \in ClaimRecord
         /\ NewClaim(t).status = "pending" /\ NewClaim(t).used = FALSE
         /\ NewClaim(t).expiresAt = t + Lifetime
         /\ t + Lifetime \in Nat /\ t + Lifetime # Unset
BY ClaimAssumption DEF NewClaim, ClaimRecord, ClaimStatus, Time, Unset

LEMMA CallFields ==
  ASSUME TypeOK, NEW r \in Call
  PROVE  /\ calls[r] \in CallState
         /\ calls[r].op \in Op /\ calls[r].clock \in Nat /\ calls[r].copy \in ClaimRecord
         /\ calls[r].at \in {"idle", "called", "routed", "writing"}
BY DEF TypeOK, CallState, Time

\* The step of the ceremony that takes a record to its new value.
StepOf(op, claim, t, new) ==
  /\ new.expiresAt = claim.expiresAt
  /\ \/ new.lastPoll = claim.lastPoll
     \/ op = "poll" /\ new.lastPoll = t /\ ~TooEarly(claim, t)
  /\ \/ Expiring(claim, t) /\ new.status = "expired" /\ new.used = claim.used
     \/ /\ ~Expiring(claim, t) /\ new.used = claim.used
        /\ \/ op = "verify" /\ claim.status = "pending" /\ new.status = "user_verified"
           \/ op = "approve" /\ claim.status = "user_verified" /\ new.status = "approved"
           \/ op = "deny" /\ claim.status = "user_verified" /\ new.status = "denied"
           \/ op = "poll" /\ new.status = claim.status
     \/ /\ ~Expiring(claim, t) /\ op = "use" /\ claim.status = "approved" /\ ~claim.used
        /\ new.status = "approved" /\ new.used = TRUE

LEMMA ChangedFields ==
  ASSUME NEW op \in Op, NEW claim \in ClaimRecord, NEW t \in Nat, op # "start",
         Expiring(claim, t) \/ Accepts(op, claim)
  PROVE  Changed(op, claim, t) \in ClaimRecord /\ StepOf(op, claim, t, Changed(op, claim, t))
<1> DEFINE n == Changed(op, claim, t)
<1>1. CASE Expiring(claim, t)
  <2>1. n = [claim EXCEPT !.status = "expired"]
    BY <1>1 DEF Changed
  <2> QED
    BY <1>1, <2>1 DEF ClaimRecord, ClaimStatus, StepOf
<1>2. CASE ~Expiring(claim, t) /\ op = "verify"
  <2>1. n = [claim EXCEPT !.status = "user_verified"]
    BY <1>2 DEF Changed
  <2> QED
    BY <1>2, <2>1 DEF ClaimRecord, ClaimStatus, Accepts, StepOf
<1>3. CASE ~Expiring(claim, t) /\ op = "approve"
  <2>1. n = [claim EXCEPT !.status = "approved"]
    BY <1>3 DEF Changed
  <2> QED
    BY <1>3, <2>1 DEF ClaimRecord, ClaimStatus, Accepts, StepOf
<1>4. CASE ~Expiring(claim, t) /\ op = "deny"
  <2>1. n = [claim EXCEPT !.status = "denied"]
    BY <1>4 DEF Changed
  <2> QED
    BY <1>4, <2>1 DEF ClaimRecord, ClaimStatus, Accepts, StepOf
<1>5. CASE ~Expiring(claim, t) /\ op = "use"
  <2>1. n = [claim EXCEPT !.used = TRUE]
    BY <1>5 DEF Changed
  <2> QED
    BY <1>5, <2>1 DEF ClaimRecord, ClaimStatus, Accepts, StepOf
<1>6. CASE ~Expiring(claim, t) /\ op = "poll" /\ TooEarly(claim, t)
  <2>1. n = [claim EXCEPT !.interval = @ + SlowDown]
    BY <1>6 DEF Changed
  <2> QED
    BY <1>6, <2>1, ClaimAssumption DEF ClaimRecord, ClaimStatus, StepOf
<1>7. CASE ~Expiring(claim, t) /\ op = "poll" /\ ~TooEarly(claim, t)
  <2>1. n = [claim EXCEPT !.lastPoll = t]
    BY <1>7 DEF Changed
  <2> QED
    BY <1>7, <2>1 DEF ClaimRecord, ClaimStatus, Time, StepOf
<1> QED
  BY <1>1, <1>2, <1>3, <1>4, <1>5, <1>6, <1>7 DEF Op

-----------------------------------------------------------------------------
(* Calls *)

\* A call that reads, starts or returns touches nothing but its own record.
LEMMA CallGoesOn ==
  ASSUME CoreInv, NEW r \in Call, NEW k \in CallState,
         calls' = [calls EXCEPT ![r] = k],
         UNCHANGED <<now, stored, writes, faults, cut, history>>,
         k.at # "idle" => k.claim \in Claim,
         k.at # "routed",
         k.op = "start" /\ k.at = "called" =>
           claims[k.claim].status = "none" /\ \A s \in Call : calls[s].claim # k.claim,
         k.at = "writing" =>
           /\ k.op # "start" /\ Stored(k.claim) /\ k.copy = claims[k.claim]
           /\ Expiring(k.copy, k.clock) \/ Accepts(k.op, k.copy)
  PROVE  CoreInv'
<1>1. calls'[r] = k /\ \A q \in Call : q # r => calls'[q] = calls[q]
  BY DEF CoreInv, TypeOK
<1>2. TypeOK'
  BY DEF CoreInv, TypeOK, stored, history
<1>3. CallsInv'
  <2> SUFFICES ASSUME NEW q \in Call
               PROVE  /\ calls'[q].at # "idle" => calls'[q].claim \in Claim
                      /\ Starting(q)' => claims'[calls'[q].claim].status = "none"
                      /\ calls'[q].at = "routed" =>
                           /\ calls'[q].op = "start"
                           /\ \/ routes'[calls'[q].claim] = calls'[q].clock + Lifetime
                              \/ calls'[q].clock + Lifetime <= now'
                      /\ calls'[q].at = "writing" => calls'[q].op # "start" /\ CopyInv(q)'
    BY DEF CallsInv
  <2>1. CASE q = r
    BY <2>1, <1>1 DEF Starting, CopyInv, Stored, stored
  <2>2. CASE q # r
    BY <2>2, <1>1 DEF CoreInv, CallsInv, Starting, CopyInv, Stored, stored
  <2> QED
    BY <2>1, <2>2
<1>4. StartersInv'
  BY <1>1 DEF CoreInv, StartersInv, Starting
<1>5. DecidedInv' /\ TokensInv' /\ ClaimsAreRouted'
  BY DEF CoreInv, DecidedInv, TokensInv, ClaimsAreRouted, Stored, stored, history
<1> QED
  BY <1>2, <1>3, <1>4, <1>5 DEF CoreInv

LEMMA StartStep ==
  ASSUME CoreInv, NEW r \in Call, NEW c \in Claim, Start(r, c)
  PROVE  CoreInv'
<1> DEFINE k == [IdleCall EXCEPT !.at = "called", !.claim = c, !.clock = now]
<1>1. k \in CallState /\ k.at = "called" /\ k.op = "start" /\ k.claim = c
  BY Records DEF CallState, IdleCall, CoreInv, TypeOK
<1>2. calls' = [calls EXCEPT ![r] = k] /\ UNCHANGED <<now, stored, writes, faults, cut, history>>
  BY DEF Start
<1>3. claims[c].status = "none" /\ \A s \in Call : calls[s].claim # c
  BY DEF Start
<1> HIDE DEF k
<1> QED
  BY <1>1, <1>2, <1>3, CallGoesOn

LEMMA LookupStep ==
  ASSUME CoreInv, NEW r \in Call, NEW c \in Claim, NEW op \in Op,
         Lookup(r, c, op) \/ (Present(r, c) /\ op = "use")
  PROVE  CoreInv'
<1> DEFINE k == [IdleCall EXCEPT !.at = "called", !.op = op, !.claim = c]
<1>1. k \in CallState /\ k.at = "called" /\ k.op # "start" /\ k.claim = c
  BY Records DEF CallState, IdleCall, Lookup
<1>2. calls' = [calls EXCEPT ![r] = k] /\ UNCHANGED <<now, stored, writes, faults, cut, history>>
  BY DEF Lookup, Present
<1> HIDE DEF k
<1> QED
  BY <1>1, <1>2, CallGoesOn

LEMMA ReturnStep ==
  ASSUME CoreInv, NEW r \in Call, Done(r),
         UNCHANGED <<now, stored, writes, faults, cut, history>>
  PROVE  CoreInv'
BY Records, CallGoesOn DEF Done

LEMMA ReadStep ==
  ASSUME CoreInv, NEW r \in Call, Read(r)
  PROVE  CoreInv'
<1> DEFINE c == calls[r].claim
           found == Stored(c) /\ (Expiring(claims[c], now) \/ Accepts(calls[r].op, claims[c]))
<1>1. CASE ~found
  BY <1>1, ReturnStep DEF Read
<1>2. CASE found
  <2> DEFINE k == [calls[r] EXCEPT !.at = "writing", !.copy = claims[c], !.clock = now]
  <2>1. calls[r].at = "called" /\ calls[r].op # "start" /\ c \in Claim
    BY DEF Read, CoreInv, CallsInv
  <2>2. /\ k \in CallState /\ k.at = "writing" /\ k.op = calls[r].op /\ k.claim = c
        /\ k.copy = claims[c] /\ k.clock = now
    BY <2>1, CallFields DEF CallState, CoreInv, TypeOK
  <2>3. calls' = [calls EXCEPT ![r] = k] /\ UNCHANGED <<now, stored, writes, faults, cut, history>>
    BY <1>2 DEF Read, CoreInv, TypeOK
  <2> HIDE DEF k
  <2> QED
    BY <1>2, <2>1, <2>2, <2>3, CallGoesOn
<1> QED
  BY <1>1, <1>2

LEMMA AddRouteStep ==
  ASSUME CoreInv, NEW r \in Call, AddRoute(r)
  PROVE  CoreInv'
<1> DEFINE c == calls[r].claim
           k == [calls[r] EXCEPT !.at = "routed"]
           e == calls[r].clock + Lifetime
<1>1. /\ Starting(r) /\ calls[r].at = "called"
      /\ c \in Claim /\ claims[c].status = "none" /\ e \in Nat
  BY CallFields, ClaimAssumption DEF AddRoute, Starting, CoreInv, CallsInv
<1>2. /\ k \in CallState /\ k.at = "routed" /\ k.op = "start" /\ k.claim = c
      /\ k.clock + Lifetime = e
  BY <1>1, CallFields DEF CallState, AddRoute, CoreInv
<1>3. /\ routes' = [routes EXCEPT ![c] = e]
      /\ calls' = [calls EXCEPT ![r] = k]
      /\ UNCHANGED <<now, claims, active, nextExpiry, alarm, writes, faults, cut, history>>
  BY DEF AddRoute
<1> HIDE DEF c, k, e
<1>4. calls'[r] = k /\ \A q \in Call : q # r => calls'[q] = calls[q]
  BY <1>3 DEF CoreInv, TypeOK
<1>5. TypeOK'
  BY <1>1, <1>2, <1>3 DEF CoreInv, TypeOK, Time, history
<1>6. CallsInv'
  <2> SUFFICES ASSUME NEW q \in Call
               PROVE  /\ calls'[q].at # "idle" => calls'[q].claim \in Claim
                      /\ Starting(q)' => claims'[calls'[q].claim].status = "none"
                      /\ calls'[q].at = "routed" =>
                           /\ calls'[q].op = "start"
                           /\ \/ routes'[calls'[q].claim] = calls'[q].clock + Lifetime
                              \/ calls'[q].clock + Lifetime <= now'
                      /\ calls'[q].at = "writing" => calls'[q].op # "start" /\ CopyInv(q)'
    BY DEF CallsInv
  <2>1. CASE q = r
    BY <2>1, <1>1, <1>2, <1>3, <1>4 DEF CoreInv, TypeOK
  <2>2. CASE q # r
    <3>1. calls'[q] = calls[q]
      BY <2>2, <1>4
    <3>2. calls[q].at = "routed" => calls[q].claim # c
      BY <2>2, <1>1 DEF CoreInv, StartersInv, CallsInv, Starting, c
    <3> QED
      BY <1>3, <3>1, <3>2 DEF CoreInv, TypeOK, CallsInv, Starting, CopyInv, Stored
  <2> QED
    BY <2>1, <2>2
<1>7. StartersInv'
  BY <1>1, <1>2, <1>4 DEF CoreInv, StartersInv, Starting, c
<1>8. DecidedInv' /\ TokensInv'
  BY <1>3 DEF CoreInv, DecidedInv, TokensInv, history
<1>9. ClaimsAreRouted'
  BY <1>1, <1>3 DEF CoreInv, TypeOK, ClaimsAreRouted, Stored
<1> QED
  BY <1>5, <1>6, <1>7, <1>8, <1>9 DEF CoreInv

\* The claim that is stored was neither read nor decided by anybody before.
LEMMA PutStep ==
  ASSUME CoreInv, NEW r \in Call, PutClaim(r),
         alarm' \in Nat, faults' \in Nat, cut' \in BOOLEAN
  PROVE  CoreInv'
<1> DEFINE c == calls[r].claim
           new == NewClaim(calls[r].clock)
           e == calls[r].clock + Lifetime
<1>1. /\ calls[r].at = "routed" /\ Starting(r) /\ c \in Claim /\ claims[c].status = "none"
      /\ routes[c] = e \/ e <= now
  BY DEF PutClaim, Starting, CoreInv, CallsInv
<1>2. /\ new \in ClaimRecord /\ new.status = "pending" /\ new.used = FALSE
      /\ new.expiresAt = e /\ e \in Nat
  BY CallFields, NewClaimFields DEF CoreInv
<1>3. /\ claims' = [claims EXCEPT ![c] = new]
      /\ active' = active \union {c}
      /\ nextExpiry' = IF nextExpiry = Unset THEN e ELSE Earlier(nextExpiry, e)
      /\ calls' = [calls EXCEPT ![r] = IdleCall]
      /\ UNCHANGED <<now, routes, writes, history>>
  BY <1>2 DEF PutClaim, Done
<1> HIDE DEF c, new, e
<1>4. calls'[r] = IdleCall /\ \A q \in Call : q # r => calls'[q] = calls[q]
  BY <1>3 DEF CoreInv, TypeOK
<1>5. claims'[c] = new /\ \A d \in Claim : d # c => claims'[d] = claims[d]
  BY <1>1, <1>3 DEF CoreInv, TypeOK
<1>6. TypeOK'
  <2>1. nextExpiry' \in Nat
    BY <1>2, <1>3 DEF CoreInv, TypeOK, Time, Earlier
  <2>2. calls' \in [Call -> CallState] /\ claims' \in [Claim -> ClaimRecord]
    BY <1>2, <1>3, Records DEF CoreInv, TypeOK
  <2> QED
    BY <1>1, <1>3, <2>1, <2>2 DEF CoreInv, TypeOK, Time, history
<1>7. CallsInv'
  <2> SUFFICES ASSUME NEW q \in Call
               PROVE  /\ calls'[q].at # "idle" => calls'[q].claim \in Claim
                      /\ Starting(q)' => claims'[calls'[q].claim].status = "none"
                      /\ calls'[q].at = "routed" =>
                           /\ calls'[q].op = "start"
                           /\ \/ routes'[calls'[q].claim] = calls'[q].clock + Lifetime
                              \/ calls'[q].clock + Lifetime <= now'
                      /\ calls'[q].at = "writing" => calls'[q].op # "start" /\ CopyInv(q)'
    BY DEF CallsInv
  <2>1. CASE q = r
    BY <2>1, <1>4, Records DEF Starting
  <2>2. CASE q # r
    <3>1. calls'[q] = calls[q]
      BY <2>2, <1>4
    <3>2. Starting(q) \/ calls[q].at = "writing" => calls[q].claim \in Claim /\ calls[q].claim # c
      BY <2>2, <1>1 DEF CoreInv, StartersInv, CallsInv, CopyInv, Starting, c
    <3>3. Starting(q) \/ calls[q].at = "writing" => claims'[calls[q].claim] = claims[calls[q].claim]
      BY <3>2, <1>5
    <3> QED
      BY <1>3, <3>1, <3>3 DEF CoreInv, CallsInv, Starting, CopyInv, Stored
  <2> QED
    BY <2>1, <2>2
<1>8. StartersInv'
  BY <1>4, Records DEF CoreInv, StartersInv, Starting
<1>9. DecidedInv' /\ TokensInv'
  BY <1>1, <1>2, <1>3, <1>5 DEF CoreInv, DecidedInv, TokensInv, history
<1>10. ClaimsAreRouted'
  <2> SUFFICES ASSUME NEW d \in Claim, Stored(d)', claims'[d].expiresAt > now
               PROVE  routes[d] = claims'[d].expiresAt
    BY <1>3 DEF ClaimsAreRouted
  <2>1. CASE d = c
    <3>1. claims'[d].expiresAt = e /\ now \in Nat
      BY <2>1, <1>2, <1>5 DEF CoreInv, TypeOK, Time
    <3> QED
      BY <2>1, <3>1, <1>1, <1>2
  <2>2. CASE d # c
    BY <2>2, <1>5 DEF CoreInv, ClaimsAreRouted, Stored
  <2> QED
    BY <2>1, <2>2
<1> QED
  BY <1>6, <1>7, <1>8, <1>9, <1>10 DEF CoreInv

\* The winner of the compare-and-set writes what its copy allowed; every other copy of the
\* claim is outdated from then on.
LEMMA SwapFields ==
  ASSUME CoreInv, NEW r \in Call, Swap(r), NEW c \in Claim, c = calls[r].claim
  PROVE  /\ calls[r].at = "writing" /\ calls[r].copy = claims[c]
         /\ Stored(c) /\ claims'[c].status \notin {"none", "removed"}
         /\ claims' = [claims EXCEPT ![c] = claims'[c]]
         /\ claims'[c] \in ClaimRecord /\ claims'[c].version = claims[c].version + 1
         /\ StepOf(calls[r].op, claims[c], calls[r].clock, claims'[c])
         /\ Changed(calls[r].op, claims[c], calls[r].clock).status = claims'[c].status
<1>0. PICK op, old, t : op = calls[r].op /\ old = claims[c] /\ t = calls[r].clock
  OBVIOUS
<1>1. calls[r].at = "writing" /\ op # "start" /\ CopyInv(r) /\ Matches(c, calls[r].copy)
  BY <1>0 DEF Swap, CoreInv, CallsInv
<1>2. Stored(c) /\ calls[r].copy = old /\ (Expiring(old, t) \/ Accepts(op, old))
  <2>1. old \in ClaimRecord /\ calls[r].copy \in ClaimRecord
    BY <1>0, CallFields DEF CoreInv, TypeOK
  <2>2. old.version \in Nat /\ ~(old.version < old.version)
    BY <2>1 DEF ClaimRecord
  <2> QED
    BY <1>0, <1>1, <2>2 DEF CopyInv, Matches
<1>3. op \in Op /\ old \in ClaimRecord /\ t \in Nat
  BY <1>0, CallFields DEF CoreInv, TypeOK
<1>4. PICK n \in ClaimRecord : n = Changed(op, old, t) /\ StepOf(op, old, t, n)
  BY <1>1, <1>2, <1>3, ChangedFields
<1> DEFINE new == [n EXCEPT !.version = old.version + 1]
<1>5. claims' = [claims EXCEPT ![c] = new]
  BY <1>0, <1>2, <1>4 DEF Swap
<1>6. /\ new \in ClaimRecord /\ new.version = old.version + 1
      /\ new.expiresAt = n.expiresAt /\ new.lastPoll = n.lastPoll
      /\ new.status = n.status /\ new.used = n.used
  BY <1>3, <1>4 DEF ClaimRecord
<1> HIDE DEF new
<1>7. claims'[c] = new
  BY <1>5 DEF CoreInv, TypeOK
<1>8. StepOf(op, old, t, new)
  BY <1>4, <1>6 DEF StepOf
<1>9. new.status \notin {"none", "removed"}
  BY <1>0, <1>2, <1>8 DEF StepOf, Stored
<1> QED
  BY <1>0, <1>1, <1>2, <1>4, <1>5, <1>6, <1>7, <1>8, <1>9

LEMMA SwapStep ==
  ASSUME CoreInv, NEW r \in Call, Swap(r)
  PROVE  CoreInv'
<1>a. PICK c \in Claim : c = calls[r].claim
  BY DEF Swap, CoreInv, CallsInv
<1>0. PICK op, old, t, new :
        /\ c \in Claim
        /\ c = calls[r].claim /\ op = calls[r].op /\ t = calls[r].clock
        /\ old = claims[c] /\ new = claims'[c]
  BY <1>a
<1>1. /\ calls[r].at = "writing" /\ Stored(c) /\ new.status \notin {"none", "removed"}
      /\ claims' = [claims EXCEPT ![c] = new]
      /\ new \in ClaimRecord /\ new.expiresAt = old.expiresAt /\ new.version = old.version + 1
  BY <1>0, SwapFields DEF StepOf
<1>2. \/ Expiring(old, t) /\ new.status = "expired" /\ new.used = old.used
      \/ /\ ~Expiring(old, t) /\ new.used = old.used
         /\ \/ op = "verify" /\ old.status = "pending" /\ new.status = "user_verified"
            \/ op = "approve" /\ old.status = "user_verified" /\ new.status = "approved"
            \/ op = "deny" /\ old.status = "user_verified" /\ new.status = "denied"
            \/ op = "poll" /\ new.status = old.status
      \/ /\ ~Expiring(old, t) /\ op = "use" /\ old.status = "approved" /\ ~old.used
         /\ new.status = "approved" /\ new.used = TRUE
  <2>1. StepOf(op, old, t, new)
    BY <1>0, SwapFields
  <2> QED
    BY <2>1 DEF StepOf
<1>3. /\ calls' = [calls EXCEPT ![r] = IdleCall]
      /\ writes' = writes + 1
      /\ UNCHANGED <<now, active, nextExpiry, alarm, routes, faults, cut>>
  BY DEF Swap, Done
<1>4. /\ grants' = IF op = "poll" /\ old.status = "approved" /\ ~Expiring(old, t) /\ ~TooEarly(old, t)
                   THEN [grants EXCEPT ![c] = old.expiresAt] ELSE grants
      /\ decided' = IF op \in {"approve", "deny"} /\ ~Expiring(old, t)
                    THEN [decided EXCEPT ![c] = @ \union {new.status}] ELSE decided
      /\ \/ UNCHANGED tokens
         \/ op = "use" /\ ~Expiring(old, t) /\ tokens' = [tokens EXCEPT ![c] = @ + 1]
  <2>1. calls[r].copy = old /\ Changed(op, old, t).status = new.status
    BY <1>0, SwapFields
  <2> QED
    BY <1>0, <2>1 DEF Swap, Answer
<1>5. old \in ClaimRecord
  BY <1>0 DEF CoreInv, TypeOK
<1>6. \A d \in Claim : d # c =>
        claims'[d] = claims[d] /\ decided'[d] = decided[d] /\ tokens'[d] = tokens[d]
  BY <1>1, <1>4 DEF CoreInv, TypeOK
<1>7. calls'[r] = IdleCall /\ \A q \in Call : q # r => calls'[q] = calls[q]
  BY <1>3 DEF CoreInv, TypeOK
<1>8. TypeOK'
  <2>1. calls' \in [Call -> CallState] /\ claims' \in [Claim -> ClaimRecord] /\ writes' \in Nat
    BY <1>1, <1>3, Records DEF CoreInv, TypeOK
  <2>2. grants' \in [Claim -> Nat]
    BY <1>4, <1>5 DEF CoreInv, TypeOK, ClaimRecord, Time
  <2>3. decided' \in [Claim -> SUBSET {"approved", "denied"}]
    BY <1>2, <1>4 DEF CoreInv, TypeOK
  <2>4. tokens' \in [Claim -> Nat]
    BY <1>4 DEF CoreInv, TypeOK
  <2> QED
    BY <1>3, <2>1, <2>2, <2>3, <2>4 DEF CoreInv, TypeOK, Time
<1>9. CallsInv'
  <2> SUFFICES ASSUME NEW q \in Call
               PROVE  /\ calls'[q].at # "idle" => calls'[q].claim \in Claim
                      /\ Starting(q)' => claims'[calls'[q].claim].status = "none"
                      /\ calls'[q].at = "routed" =>
                           /\ calls'[q].op = "start"
                           /\ \/ routes'[calls'[q].claim] = calls'[q].clock + Lifetime
                              \/ calls'[q].clock + Lifetime <= now'
                      /\ calls'[q].at = "writing" => calls'[q].op # "start" /\ CopyInv(q)'
    BY DEF CallsInv
  <2>1. CASE q = r
    BY <2>1, <1>7, Records DEF Starting
  <2>2. CASE q # r /\ calls[q].claim = c
    <3>1. calls'[q] = calls[q] /\ ~Starting(q)
      BY <2>2, <1>0, <1>1, <1>7 DEF CoreInv, CallsInv, Stored
    <3>2. CASE calls[q].at = "writing"
      <4>1. CopyInv(q) /\ calls[q].copy \in ClaimRecord
        BY <3>2, CallFields DEF CoreInv, CallsInv
      <4>2. calls[q].copy.version < claims'[c].version
        BY <2>2, <4>1, <1>0, <1>1, <1>5 DEF CopyInv, ClaimRecord
      <4>3. CopyInv(q)'
        BY <2>2, <3>1, <4>1, <4>2, <1>0, <1>1 DEF CopyInv, Stored
      <4> QED
        BY <3>1, <3>2, <4>3 DEF CoreInv, CallsInv, Starting
    <3>3. CASE calls[q].at # "writing"
      BY <3>1, <3>3, <1>3 DEF CoreInv, CallsInv, Starting
    <3> QED
      BY <3>2, <3>3
  <2>3. CASE q # r /\ calls[q].claim # c
    <3>1. calls'[q] = calls[q]
      BY <2>3, <1>7
    <3>2. calls[q].at # "idle" => claims'[calls[q].claim] = claims[calls[q].claim]
      BY <2>3, <1>6 DEF CoreInv, CallsInv
    <3> QED
      BY <3>1, <3>2, <1>3 DEF CoreInv, CallsInv, Starting, CopyInv, Stored
  <2> QED
    BY <2>1, <2>2, <2>3
<1>10. StartersInv'
  BY <1>7, Records DEF CoreInv, StartersInv, Starting
<1>11. DecidedInv'
  <2>1. /\ old.used => old.status = "approved"
        /\ old.status \in {"none", "pending", "user_verified"} => decided[c] = {}
        /\ old.status = "approved" => decided[c] = {"approved"}
    BY <1>0, <1>1 DEF CoreInv, DecidedInv
  <2>2. decided'[c] = IF op \in {"approve", "deny"} /\ ~Expiring(old, t)
                      THEN decided[c] \union {new.status} ELSE decided[c]
    BY <1>1, <1>4 DEF CoreInv, TypeOK
  <2>3. /\ new.used => new.status = "approved"
        /\ new.status \in {"none", "pending", "user_verified"} => decided'[c] = {}
        /\ new.status = "approved" => decided'[c] = {"approved"}
    BY <1>2, <1>5, <2>1, <2>2 DEF Expiring
  <2> QED
    BY <1>0, <1>6, <2>3 DEF CoreInv, DecidedInv
<1>12. TokensInv'
  <2>1. /\ old.used => old.status = "approved"
        /\ old.status = "approved" => decided[c] = {"approved"}
        /\ tokens[c] = 0 \/ (tokens[c] = 1 /\ decided[c] = {"approved"} /\ old.used)
        /\ tokens[c] \in Nat
    BY <1>0, <1>1 DEF CoreInv, DecidedInv, TokensInv, TypeOK, Stored
  <2>2. decided'[c] = IF op \in {"approve", "deny"} /\ ~Expiring(old, t)
                      THEN decided[c] \union {new.status} ELSE decided[c]
    BY <1>1, <1>4 DEF CoreInv, TypeOK
  <2>3. \/ tokens'[c] = tokens[c]
        \/ op = "use" /\ ~Expiring(old, t) /\ tokens'[c] = tokens[c] + 1
    BY <1>1, <1>4 DEF CoreInv, TypeOK
  <2>4. \/ tokens'[c] = 0
        \/ tokens'[c] = 1 /\ decided'[c] = {"approved"} /\ new.used
    <3>1. CASE old.used
      BY <3>1, <1>2, <2>1, <2>2, <2>3 DEF Expiring
    <3>2. CASE ~old.used
      <4>1. tokens[c] = 0
        BY <3>2, <2>1
      <4> QED
        BY <4>1, <1>2, <2>1, <2>2, <2>3
    <3> QED
      BY <3>1, <3>2
  <2> QED
    BY <1>0, <1>6, <2>4 DEF CoreInv, TokensInv
<1>13. ClaimsAreRouted'
  BY <1>0, <1>1, <1>3, <1>6 DEF CoreInv, ClaimsAreRouted, Stored
<1> QED
  BY <1>8, <1>9, <1>10, <1>11, <1>12, <1>13 DEF CoreInv

-----------------------------------------------------------------------------
(* The alarm *)

LEMMA MinIsLeast ==
  ASSUME NEW S \in SUBSET Nat, S # {}
  PROVE  Min(S) \in S /\ \A x \in S : Min(S) <= x
<1>1. OpToRel(<, Nat) = {ss \in Nat \X Nat : ss[1] < ss[2]}
  BY Zenon DEF OpToRel
<1>2. \A a, b \in Nat : a < b => <<a, b>> \in {ss \in Nat \X Nat : ss[1] < ss[2]}
  OBVIOUS
<1>3. PICK x \in S : \A y \in S : ~(<<y, x>> \in OpToRel(<, Nat))
  BY NatLessThanWellFounded, WFMin
<1>4. \A y \in S : ~(y < x)
  BY <1>1, <1>2, <1>3, Zenon
<1>5. \A y \in S : x <= y
  BY <1>4
<1> QED
  BY <1>5 DEF Min

\* The next expiry is that of the first of the claims that stay, and lies ahead.
LEMMA FirstExpiryFields ==
  ASSUME CoreInv
  PROVE  /\ FirstExpiry \in Nat
         /\ Remaining = {} => FirstExpiry = Unset
         /\ Remaining # {} => FirstExpiry > now
         /\ \A c \in Remaining : FirstExpiry <= claims[c].expiresAt
<1> DEFINE S == {claims[c].expiresAt : c \in Remaining}
<1>1. S \in SUBSET Nat /\ \A x \in S : x > now
  BY DEF CoreInv, TypeOK, Remaining, ClaimRecord, Time
<1>2. CASE Remaining = {}
  BY <1>2 DEF FirstExpiry, Unset
<1>3. CASE Remaining # {}
  <2>1. S # {} /\ FirstExpiry = Min(S)
    BY <1>3 DEF FirstExpiry
  <2>2. Min(S) \in S /\ \A x \in S : Min(S) <= x
    BY <1>1, <2>1, MinIsLeast
  <2> HIDE DEF S
  <2>3. FirstExpiry \in Nat /\ FirstExpiry > now
    BY <1>1, <2>1, <2>2
  <2> QED
    BY <1>3, <2>1, <2>2, <2>3 DEF S
<1> QED
  BY <1>2, <1>3

\* Whatever a run of the alarm gets done, only what has expired goes.
LEMMA RemovalStep ==
  ASSUME CoreInv, NEW gone \in SUBSET Expired, Delete(gone), AfterAlarm,
         active' \subseteq Claim, nextExpiry' \in Nat, alarm' \in Nat,
         routes' \in [Claim -> Nat], faults' \in Nat, cut' \in BOOLEAN,
         \A c \in Claim : routes'[c] = routes[c] \/ routes[c] <= now
  PROVE  CoreInv'
<1>1. /\ UNCHANGED <<now, calls, writes, history>>
      /\ \A c \in Claim : \/ claims'[c] = claims[c]
                          \/ Stored(c) /\ claims[c].expiresAt <= now /\ claims'[c] = Removed
  BY DEF AfterAlarm, Delete, Expired
<1>2. TypeOK'
  BY <1>1, Records DEF CoreInv, TypeOK, Time, history, Delete
<1>3. CallsInv'
  <2> SUFFICES ASSUME NEW q \in Call
               PROVE  /\ calls[q].at # "idle" => calls[q].claim \in Claim
                      /\ Starting(q) => claims'[calls[q].claim].status = "none"
                      /\ calls[q].at = "routed" =>
                           /\ calls[q].op = "start"
                           /\ \/ routes'[calls[q].claim] = calls[q].clock + Lifetime
                              \/ calls[q].clock + Lifetime <= now
                      /\ calls[q].at = "writing" => calls[q].op # "start" /\ CopyInv(q)'
    BY <1>1 DEF CallsInv, Starting
  <2>1. calls[q].at # "idle" => calls[q].claim \in Claim
    BY DEF CoreInv, CallsInv
  <2>2. Starting(q) => claims'[calls[q].claim].status = "none"
    BY <1>1, <2>1 DEF CoreInv, CallsInv, Starting, Stored
  <2>3. calls[q].at = "routed" =>
          /\ calls[q].op = "start"
          /\ \/ routes'[calls[q].claim] = calls[q].clock + Lifetime
             \/ calls[q].clock + Lifetime <= now
    BY <2>1 DEF CoreInv, CallsInv
  <2>4. calls[q].at = "writing" => calls[q].op # "start" /\ CopyInv(q)'
    BY <1>1, <2>1, Records DEF CoreInv, CallsInv, CopyInv, Stored
  <2> QED
    BY <2>1, <2>2, <2>3, <2>4
<1>4. StartersInv'
  BY <1>1 DEF CoreInv, StartersInv, Starting
<1>5. DecidedInv' /\ TokensInv'
  BY <1>1, Records DEF CoreInv, DecidedInv, TokensInv, history
<1>6. ClaimsAreRouted'
  <2> SUFFICES ASSUME NEW c \in Claim, Stored(c)', claims'[c].expiresAt > now
               PROVE  routes'[c] = claims'[c].expiresAt
    BY <1>1 DEF ClaimsAreRouted
  <2>1. claims'[c] = claims[c] /\ Stored(c)
    BY <1>1, Records DEF Stored
  <2>2. routes[c] = claims[c].expiresAt /\ claims[c].expiresAt \in Nat /\ now \in Nat
    BY <2>1 DEF CoreInv, TypeOK, ClaimsAreRouted, ClaimRecord, Time
  <2> QED
    BY <2>1, <2>2
<1> QED
  BY <1>2, <1>3, <1>4, <1>5, <1>6 DEF CoreInv

LEMMA SweepStep ==
  ASSUME CoreInv, Sweep \/ SweepFails \/ SweepCut
  PROVE  CoreInv'
<1>1. PICK gone \in SUBSET Expired : Delete(gone)
  BY DEF Sweep, SweepFails, SweepCut, Reindex
<1>2. AfterAlarm
  BY DEF Sweep, SweepFails, SweepCut
<1>3. active' \subseteq Claim /\ nextExpiry' \in Nat
  BY FirstExpiryFields DEF CoreInv, TypeOK, Time, Sweep, SweepFails, SweepCut, Reindex, Remaining
<1>4. alarm' \in Nat /\ faults' \in Nat /\ cut' \in BOOLEAN
  <2>1. alarm' \in Nat
    BY FirstExpiryFields DEF CoreInv, TypeOK, Time, Sweep, SweepFails, SweepCut
  <2>2. faults' \in {faults, faults + 1} /\ cut' \in {cut, TRUE}
    BY DEF Sweep, SweepFails, SweepCut, Fault
  <2>3. faults' \in Nat
    BY <2>2 DEF CoreInv, TypeOK
  <2>4. cut' \in BOOLEAN
    BY <2>2, Zenon DEF CoreInv, TypeOK
  <2> QED
    BY <2>1, <2>3, <2>4
<1>5. /\ routes' \in [Claim -> Nat]
      /\ \A c \in Claim : routes'[c] = routes[c] \/ routes[c] <= now
  BY DEF CoreInv, TypeOK, Time, Sweep, SweepFails, SweepCut, RouteIsOver, Unset
<1> QED
  BY <1>1, <1>2, <1>3, <1>4, <1>5, RemovalStep

LEMMA TickStep ==
  ASSUME CoreInv, Tick
  PROVE  CoreInv'
<1>1. now \in Nat /\ now' = now + 1 /\ UNCHANGED <<stored, calls, writes, faults, cut, history>>
  BY DEF CoreInv, TypeOK, Time, Tick
<1>2. TypeOK'
  BY <1>1 DEF CoreInv, TypeOK, Time, stored, history
<1>3. CallsInv'
  <2>1. \A r \in Call : calls[r].clock + Lifetime <= now => calls[r].clock + Lifetime <= now + 1
    BY CallFields, ClaimAssumption, <1>1 DEF CoreInv
  <2> QED
    BY <1>1, <2>1 DEF CoreInv, CallsInv, Starting, CopyInv, Stored, stored
<1>4. StartersInv' /\ DecidedInv' /\ TokensInv'
  BY <1>1 DEF CoreInv, StartersInv, Starting, DecidedInv, TokensInv, stored, history
<1>5. ClaimsAreRouted'
  BY <1>1 DEF CoreInv, TypeOK, ClaimRecord, Time, ClaimsAreRouted, Stored, stored
<1> QED
  BY <1>2, <1>3, <1>4, <1>5 DEF CoreInv

-----------------------------------------------------------------------------
(* The schedule *)

LEMMA ScheduleKept ==
  ASSUME ScheduleInv, UNCHANGED <<active, nextExpiry, alarm, cut>>,
         \A c \in Claim : Stored(c)' => Stored(c) /\ claims'[c].expiresAt = claims[c].expiresAt
  PROVE  ScheduleInv'
BY DEF ScheduleInv

LEMMA SwapKeepsSchedule ==
  ASSUME IInv, NEW r \in Call, Swap(r)
  PROVE  ScheduleInv'
<1>1. PICK c \in Claim : c = calls[r].claim
  BY DEF Swap, IInv, CoreInv, CallsInv
<1>2. Stored(c) /\ claims' = [claims EXCEPT ![c] = claims'[c]]
  BY <1>1, SwapFields DEF IInv
<1>3. claims'[c].expiresAt = claims[c].expiresAt
  BY <1>1, SwapFields DEF IInv, StepOf
<1>4. \A d \in Claim : d # c => claims'[d] = claims[d]
  BY <1>2 DEF IInv, CoreInv, TypeOK
<1>5. UNCHANGED <<active, nextExpiry, alarm, cut>>
  BY DEF Swap
<1>6. \A d \in Claim : Stored(d)' => Stored(d) /\ claims'[d].expiresAt = claims[d].expiresAt
  BY <1>2, <1>3, <1>4 DEF Stored
<1> QED
  BY <1>5, <1>6, ScheduleKept DEF IInv

LEMMA StoreSchedules ==
  ASSUME IInv, NEW r \in Call, StoreClaim(r), ~cut
  PROVE  ScheduleInv'
<1>1. PICK c \in Claim, e \in Nat : c = calls[r].claim /\ e = calls[r].clock + Lifetime
  BY CallFields, ClaimAssumption DEF StoreClaim, PutClaim, IInv, CoreInv, CallsInv
<1>2. e # Unset /\ NewClaim(calls[r].clock).expiresAt = e
  BY <1>1, CallFields, NewClaimFields DEF IInv, CoreInv
<1>3. /\ claims' = [claims EXCEPT ![c] = NewClaim(calls[r].clock)]
      /\ active' = active \union {c}
      /\ nextExpiry' = IF nextExpiry = Unset THEN e ELSE Earlier(nextExpiry, e)
      /\ alarm' = IF nextExpiry = Unset \/ e < nextExpiry THEN e ELSE alarm
  BY <1>1, <1>2 DEF StoreClaim, PutClaim, AlarmIsLater
<1>4. claims'[c].expiresAt = e /\ \A d \in Claim : d # c => claims'[d] = claims[d]
  BY <1>2, <1>3 DEF IInv, CoreInv, TypeOK
<1>5. nextExpiry \in Nat /\ alarm \in Nat
  BY DEF IInv, CoreInv, TypeOK, Time
<1>6. \A d \in Claim : Stored(d) =>
        d \in active /\ nextExpiry # Unset /\ nextExpiry <= claims[d].expiresAt
  BY DEF IInv, ScheduleInv
<1>7. /\ nextExpiry' \in Nat /\ nextExpiry' # Unset /\ nextExpiry' <= e
      /\ nextExpiry # Unset => nextExpiry' <= nextExpiry
      /\ alarm' # Unset /\ alarm' <= nextExpiry'
  <2>1. CASE nextExpiry = Unset \/ e < nextExpiry
    BY <1>2, <1>3, <1>5, <2>1 DEF Earlier
  <2>2. CASE nextExpiry # Unset /\ ~(e < nextExpiry)
    <3>1. alarm # Unset /\ alarm <= nextExpiry
      BY <2>2 DEF IInv, ScheduleInv
    <3> QED
      BY <1>3, <1>5, <2>2, <3>1 DEF Earlier
  <2> QED
    BY <2>1, <2>2
<1>8. ASSUME NEW d \in Claim, Stored(d)'
      PROVE  d \in active' /\ nextExpiry' <= claims'[d].expiresAt
  <2>1. CASE d = c
    BY <2>1, <1>3, <1>4, <1>7
  <2>2. CASE d # c
    <3>1. Stored(d) /\ claims'[d].expiresAt = claims[d].expiresAt /\ claims[d].expiresAt \in Nat
      BY <1>4, <1>8, <2>2 DEF Stored, IInv, CoreInv, TypeOK, ClaimRecord, Time
    <3> QED
      BY <1>3, <1>5, <1>6, <1>7, <3>1
  <2> QED
    BY <2>1, <2>2
<1> QED
  BY <1>3, <1>7, <1>8 DEF ScheduleInv

LEMMA ReindexSchedules ==
  ASSUME IInv, ~cut, Reindex, alarm' = FirstExpiry \/ (alarm' = alarm /\ Due)
  PROVE  ScheduleInv'
<1>1. /\ FirstExpiry \in Nat
      /\ Remaining = {} => FirstExpiry = Unset
      /\ Remaining # {} => FirstExpiry > now
      /\ \A c \in Remaining : FirstExpiry <= claims[c].expiresAt
  BY FirstExpiryFields DEF IInv
<1>2. now \in Nat /\ alarm \in Nat
  BY DEF IInv, CoreInv, TypeOK, Time
<1>3. active' = Remaining /\ nextExpiry' = FirstExpiry
  BY <1>1 DEF Reindex, Remaining, IInv, ScheduleInv
<1>4. ASSUME NEW c \in Claim, Stored(c)'
      PROVE  c \in Remaining /\ claims'[c] = claims[c]
  <2>1. claims'[c] = claims[c] /\ c \notin Expired /\ Stored(c)
    BY <1>4, Records DEF Reindex, Delete, Stored
  <2>2. c \in active /\ claims[c].expiresAt \in Nat
    BY <2>1 DEF IInv, ScheduleInv, CoreInv, TypeOK, ClaimRecord, Time
  <2> QED
    BY <1>2, <2>1, <2>2 DEF Expired, Remaining
<1>5. FirstExpiry # Unset => alarm' # Unset /\ alarm' <= FirstExpiry
  BY <1>1, <1>2 DEF Due
<1>6. Remaining # {} => FirstExpiry # Unset
  BY <1>1, <1>2 DEF Unset
<1> HIDE DEF FirstExpiry
<1> QED
  BY <1>1, <1>3, <1>4, <1>5, <1>6 DEF ScheduleInv

LEMMA AlarmKeepsSchedule ==
  ASSUME IInv, Sweep \/ SweepFails \/ SweepCut
  PROVE  ScheduleInv'
<1>1. CASE cut \/ SweepCut
  BY <1>1 DEF ScheduleInv, Sweep, SweepFails, SweepCut
<1>2. CASE ~cut /\ Sweep
  BY <1>2, ReindexSchedules DEF Sweep
<1>3. CASE ~cut /\ SweepFails /\ Reindex
  BY <1>3, ReindexSchedules DEF SweepFails
<1>4. CASE SweepFails /\ ~Reindex
  <2>1. PICK gone \in SUBSET Expired : Delete(gone)
    BY <1>4 DEF SweepFails
  <2>2. UNCHANGED <<active, nextExpiry, alarm, cut>>
    BY <1>4 DEF SweepFails
  <2>3. \A c \in Claim : Stored(c)' => Stored(c) /\ claims'[c].expiresAt = claims[c].expiresAt
    BY <2>1, Records DEF Delete, Stored
  <2> QED
    BY <2>2, <2>3, ScheduleKept DEF IInv
<1> QED
  BY <1>1, <1>2, <1>3, <1>4

-----------------------------------------------------------------------------
(* The theorems *)

LEMMA InitHolds == Init => IInv
<1> SUFFICES ASSUME Init PROVE IInv
  OBVIOUS
<1>1. TypeOK
  BY Records DEF Init, TypeOK, Time, Unset
<1>2. CallsInv /\ StartersInv
  BY Records DEF Init, CallsInv, StartersInv, Starting
<1>3. \A c \in Claim : claims[c].status = "none" /\ claims[c].used = FALSE /\ ~Stored(c)
  BY DEF Init, NoClaim, Stored
<1>4. DecidedInv /\ TokensInv /\ ClaimsAreRouted
  BY <1>3 DEF Init, DecidedInv, TokensInv, ClaimsAreRouted
<1>5. ScheduleInv
  BY <1>3 DEF Init, ScheduleInv
<1> QED
  BY <1>1, <1>2, <1>4, <1>5 DEF IInv, CoreInv

LEMMA StoreStep ==
  ASSUME IInv, NEW r \in Call, StoreClaim(r) \/ StoreClaimCut(r)
  PROVE  IInv'
<1>1. PutClaim(r) /\ faults' \in {faults, faults + 1} /\ cut' \in {cut, TRUE}
  BY DEF StoreClaim, StoreClaimCut, Fault
<1>2. alarm' = alarm \/ alarm' = calls[r].clock + Lifetime
  BY DEF StoreClaim, StoreClaimCut
<1>3. alarm' \in Nat /\ faults' \in Nat
  BY <1>1, <1>2, CallFields, ClaimAssumption DEF IInv, CoreInv, TypeOK, Time
<1>4. cut' \in BOOLEAN
  BY <1>1, Zenon DEF IInv, CoreInv, TypeOK
<1>5. CoreInv'
  BY <1>1, <1>3, <1>4, PutStep DEF IInv
<1>6. CASE StoreClaim(r) /\ ~cut
  BY <1>5, <1>6, StoreSchedules DEF IInv
<1>7. CASE StoreClaimCut(r) \/ cut
  <2>1. cut'
    BY <1>7 DEF StoreClaim, StoreClaimCut
  <2> QED
    BY <1>5, <2>1 DEF IInv, ScheduleInv
<1> QED
  BY <1>6, <1>7

\* Steps that leave the claims and their schedule alone.
LEMMA QuietStep ==
  ASSUME IInv, CoreInv', UNCHANGED <<claims, active, nextExpiry, alarm, cut>>
  PROVE  IInv'
<1>1. ScheduleInv'
  BY ScheduleKept DEF Stored, IInv
<1> QED
  BY <1>1 DEF IInv

LEMMA NextKeeps == IInv /\ [Next]_vars => IInv'
<1> SUFFICES ASSUME IInv, [Next]_vars PROVE IInv'
  OBVIOUS
<1>0. CoreInv
  BY DEF IInv
<1>1. ASSUME NEW r \in Call, NEW c \in Claim, Start(r, c)
      PROVE  IInv'
  <2>1. CoreInv'
    BY <1>0, <1>1, StartStep
  <2> QED
    BY <1>1, <2>1, QuietStep DEF Start, stored
<1>2. ASSUME NEW r \in Call, NEW c \in Active, NEW op \in Op, Lookup(r, c, op)
      PROVE  IInv'
  <2>1. CoreInv'
    BY <1>0, <1>2, LookupStep, ClaimAssumption
  <2> QED
    BY <1>2, <2>1, QuietStep DEF Lookup, stored
<1>3. ASSUME NEW r \in Call, NEW c \in Active, Present(r, c)
      PROVE  IInv'
  <2>1. CoreInv'
    BY <1>0, <1>3, LookupStep, ClaimAssumption DEF Op
  <2> QED
    BY <1>3, <2>1, QuietStep DEF Present, stored
<1>4. ASSUME NEW r \in Call, AddRoute(r)
      PROVE  IInv'
  <2>1. CoreInv'
    BY <1>0, <1>4, AddRouteStep
  <2> QED
    BY <1>4, <2>1, QuietStep DEF AddRoute
<1>5. ASSUME NEW r \in Call, StoreClaim(r) \/ StoreClaimCut(r)
      PROVE  IInv'
  BY <1>5, StoreStep
<1>6. ASSUME NEW r \in Call, Read(r)
      PROVE  IInv'
  <2>1. CoreInv'
    BY <1>0, <1>6, ReadStep
  <2> QED
    BY <1>6, <2>1, QuietStep DEF Read, stored
<1>7. ASSUME NEW r \in Call, Swap(r)
      PROVE  IInv'
  BY <1>0, <1>7, SwapStep, SwapKeepsSchedule DEF IInv
<1>8. ASSUME NEW r \in Call, SwapRefused(r)
      PROVE  IInv'
  <2>1. CoreInv'
    BY <1>0, <1>8, ReturnStep DEF SwapRefused
  <2> QED
    BY <1>8, <2>1, QuietStep DEF SwapRefused, stored
<1>9. CASE Sweep \/ SweepFails \/ SweepCut
  BY <1>0, <1>9, SweepStep, AlarmKeepsSchedule DEF IInv
<1>10. CASE Tick
  <2>1. CoreInv'
    BY <1>0, <1>10, TickStep
  <2> QED
    BY <1>10, <2>1, QuietStep DEF Tick, stored
<1>11. CASE UNCHANGED vars
  <2>1. UNCHANGED <<now, stored, calls, writes, faults, cut, history>>
    BY <1>11 DEF vars
  <2>2. TypeOK' /\ CallsInv' /\ StartersInv'
    BY <1>0, <2>1 DEF CoreInv, TypeOK, CallsInv, StartersInv, Starting, CopyInv, Stored, stored, history
  <2>3. DecidedInv' /\ TokensInv' /\ ClaimsAreRouted'
    BY <1>0, <2>1 DEF CoreInv, DecidedInv, TokensInv, ClaimsAreRouted, Stored, stored, history
  <2> QED
    BY <2>1, <2>2, <2>3, QuietStep DEF CoreInv, stored
<1> QED
  BY <1>1, <1>2, <1>3, <1>4, <1>5, <1>6, <1>7, <1>8, <1>9, <1>10, <1>11 DEF Next

LEMMA Invariance == Spec => []IInv
<1> QED
  BY InitHolds, NextKeeps, PTL DEF Spec

\* Type correctness of the ceremony.
THEOREM TypeCorrect == Spec => []TypeOK
<1>1. IInv => TypeOK
  BY DEF IInv, CoreInv
<1> QED
  BY <1>1, Invariance, PTL

\* However polls, decisions and exchanges of a claim overlap, it buys at most one token,
\* and only after the one decision that was answered approved it.
THEOREM TokensFollowApprovals == Spec => []TokenFollowsApproval
<1>1. IInv => TokenFollowsApproval
  BY DEF IInv, CoreInv, TokensInv, TokenFollowsApproval
<1> QED
  BY <1>1, Invariance, PTL

\* The worker finds every claim that has not expired.
THEOREM RoutesLeadToClaims == Spec => []ClaimsAreRouted
<1>1. IInv => ClaimsAreRouted
  BY DEF IInv, CoreInv
<1> QED
  BY <1>1, Invariance, PTL

\* In whatever order claims are stored and alarms fail, the object's alarm is set no later
\* than the first expiry of a stored claim, except after the two sequences that are cut.
THEOREM AlarmCoversClaims == Spec => []ClaimsAreScheduled
<1>1. IInv => ClaimsAreScheduled
  <2> SUFFICES ASSUME IInv, ~cut, NEW c \in Claim, Stored(c)
               PROVE  alarm # Unset /\ alarm <= claims[c].expiresAt
    BY DEF ClaimsAreScheduled
  <2>1. /\ nextExpiry # Unset /\ nextExpiry <= claims[c].expiresAt
        /\ alarm # Unset /\ alarm <= nextExpiry
    BY DEF IInv, ScheduleInv
  <2>2. alarm \in Nat /\ nextExpiry \in Nat /\ claims[c].expiresAt \in Nat
    BY DEF IInv, CoreInv, TypeOK, ClaimRecord, Time
  <2> QED
    BY <2>1, <2>2
<1> QED
  BY <1>1, Invariance, PTL

-----------------------------------------------------------------------------
(* The refinement: every step is a step of ClaimLifecycle or a stutter *)

LEMMA MapInit == Init => Lifecycle!Init
<1> SUFFICES ASSUME Init PROVE Lifecycle!Init
  OBVIOUS
<1>1. \A c \in Claim : StatusOf(claims[c]) = "none"
  BY DEF Init, NoClaim, StatusOf
<1> QED
  BY <1>1 DEF Init, Lifecycle!Init, StatusMap

\* Steps that change neither a record nor the tokens.
LEMMA MapQuiet ==
  ASSUME UNCHANGED <<claims, tokens>>
  PROVE  UNCHANGED Lifecycle!vars
BY DEF Lifecycle!vars, StatusMap

\* The step that takes claim c to status s and changes no other claim.
LEMMA MapWrite ==
  ASSUME CoreInv, NEW c \in Claim, NEW new, claims' = [claims EXCEPT ![c] = new]
  PROVE  StatusMap' = [StatusMap EXCEPT ![c] = StatusOf(new)]
<1>1. \A d \in Claim : claims'[d] = IF d = c THEN new ELSE claims[d]
  BY DEF CoreInv, TypeOK
<1>2. StatusMap' = [d \in Claim |-> IF d = c THEN StatusOf(new) ELSE StatusOf(claims[d])]
  BY <1>1 DEF StatusMap
<1> QED
  BY <1>2 DEF StatusMap

LEMMA MapStore ==
  ASSUME CoreInv, NEW r \in Call, PutClaim(r)
  PROVE  Lifecycle!Next
<1>1. PICK c \in Claim : c = calls[r].claim /\ claims[c].status = "none"
  BY DEF PutClaim, CoreInv, CallsInv, Starting
<1>2. PICK new \in ClaimRecord : /\ new.status = "pending" /\ new.used = FALSE
                                 /\ claims' = [claims EXCEPT ![c] = new]
  BY <1>1, CallFields, NewClaimFields DEF PutClaim, CoreInv
<1>3. StatusMap' = [StatusMap EXCEPT ![c] = "pending"] /\ StatusMap[c] = "none"
  <2>1. ~claims[c].used
    BY <1>1 DEF CoreInv, DecidedInv
  <2>2. StatusOf(new) = "pending" /\ StatusOf(claims[c]) = "none"
    BY <1>1, <1>2, <2>1 DEF StatusOf
  <2> QED
    BY <1>2, <2>2, MapWrite DEF StatusMap
<1>4. UNCHANGED tokens
  BY DEF PutClaim, history
<1>5. Lifecycle!Start(c)
  BY <1>3, <1>4 DEF Lifecycle!Start, Lifecycle!Move
<1> QED
  BY <1>5 DEF Lifecycle!Next

LEMMA MapSwap ==
  ASSUME CoreInv, NEW r \in Call, Swap(r)
  PROVE  [Lifecycle!Next]_(Lifecycle!vars)
<1>a. PICK c \in Claim : c = calls[r].claim
  BY DEF Swap, CoreInv, CallsInv
<1>0. PICK op, old, t, new :
        /\ c \in Claim
        /\ c = calls[r].claim /\ op = calls[r].op /\ t = calls[r].clock
        /\ old = claims[c] /\ new = claims'[c]
  BY <1>a
<1>1. /\ calls[r].copy = old /\ Stored(c)
      /\ claims' = [claims EXCEPT ![c] = new]
      /\ new.status \notin {"none", "removed"}
      /\ StepOf(op, old, t, new)
  BY <1>0, SwapFields
<1>2. \/ UNCHANGED tokens
      \/ op = "use" /\ ~Expiring(old, t) /\ tokens' = [tokens EXCEPT ![c] = @ + 1]
  BY <1>0, <1>1 DEF Swap, Answer
<1>3. StatusMap' = [StatusMap EXCEPT ![c] = StatusOf(new)] /\ StatusMap[c] = StatusOf(old)
  BY <1>0, <1>1, MapWrite DEF StatusMap
<1>4. old \in ClaimRecord /\ (old.used => old.status = "approved")
  BY <1>0 DEF CoreInv, TypeOK, DecidedInv
<1>5. old.status \notin {"none", "removed"} /\ old.used \in BOOLEAN
  BY <1>0, <1>1, <1>4 DEF Stored, ClaimRecord
<1>6. CASE Expiring(old, t) /\ new.status = "expired" /\ new.used = old.used
  <2>1. ~old.used /\ old.status \in {"pending", "user_verified", "approved", "denied"}
    BY <1>4, <1>5, <1>6 DEF Expiring, ClaimRecord, ClaimStatus
  <2>2. StatusOf(new) = "expired" /\ StatusOf(old) = old.status /\ UNCHANGED tokens
    BY <1>2, <1>6, <2>1 DEF StatusOf
  <2>3. Lifecycle!Expire(c)
    BY <1>3, <2>1, <2>2 DEF Lifecycle!Expire, Lifecycle!Move
  <2> QED
    BY <2>3 DEF Lifecycle!Next
<1>7. CASE /\ ~Expiring(old, t) /\ new.used = old.used
           /\ op = "verify" /\ old.status = "pending" /\ new.status = "user_verified"
  <2>1. StatusOf(new) = "user_verified" /\ StatusOf(old) = "pending" /\ UNCHANGED tokens
    BY <1>2, <1>4, <1>7 DEF StatusOf
  <2>2. Lifecycle!Verify(c)
    BY <1>3, <2>1 DEF Lifecycle!Verify, Lifecycle!Move
  <2> QED
    BY <2>2 DEF Lifecycle!Next
<1>8. CASE /\ ~Expiring(old, t) /\ new.used = old.used
           /\ op \in {"approve", "deny"}
           /\ old.status = "user_verified" /\ new.status \in {"approved", "denied"}
  <2>1. StatusOf(new) = new.status /\ StatusOf(old) = "user_verified" /\ UNCHANGED tokens
    BY <1>2, <1>4, <1>8 DEF StatusOf
  <2>2. Lifecycle!Decide(c)
    BY <1>3, <1>8, <2>1 DEF Lifecycle!Decide, Lifecycle!Move
  <2> QED
    BY <2>2 DEF Lifecycle!Next
<1>9. CASE op = "poll" /\ new.used = old.used /\ new.status = old.status
  <2>1. StatusOf(new) = StatusOf(old) /\ UNCHANGED tokens
    BY <1>2, <1>9 DEF StatusOf
  <2>2. StatusMap' = StatusMap
    BY <1>3, <2>1 DEF StatusMap
  <2> QED
    BY <2>1, <2>2 DEF Lifecycle!vars
<1>10. CASE /\ ~Expiring(old, t) /\ op = "use" /\ old.status = "approved" /\ ~old.used
            /\ new.status = "approved" /\ new.used = TRUE
  <2>1. StatusOf(new) = "used" /\ StatusOf(old) = "approved"
    BY <1>10 DEF StatusOf
  <2>2. tokens[c] = 0 /\ tokens \in [Claim -> Nat]
    BY <1>0, <1>1, <1>10 DEF CoreInv, TypeOK, TokensInv, Stored
  <2>3. \E n \in {0, 1} : tokens' = [tokens EXCEPT ![c] = n]
    <3>1. CASE UNCHANGED tokens
      <4>1. tokens' = [tokens EXCEPT ![c] = 0]
        BY <3>1, <2>2
      <4> QED
        BY <4>1
    <3>2. CASE tokens' = [tokens EXCEPT ![c] = @ + 1]
      <4>1. tokens' = [tokens EXCEPT ![c] = 1]
        BY <3>2, <2>2
      <4> QED
        BY <4>1
    <3> QED
      BY <1>2, <3>1, <3>2
  <2>4. Lifecycle!Use(c)
    BY <1>3, <2>1, <2>3 DEF Lifecycle!Use
  <2> QED
    BY <2>4 DEF Lifecycle!Next
<1> QED
  BY <1>1, <1>6, <1>7, <1>8, <1>9, <1>10 DEF StepOf

LEMMA MapRemove ==
  ASSUME CoreInv, NEW gone \in SUBSET Expired, Delete(gone), UNCHANGED tokens
  PROVE  Lifecycle!Next
<1>1. ASSUME NEW c \in gone
      PROVE  c \in Claim /\ StatusMap[c] # "none"
  BY DEF CoreInv, TypeOK, Expired, StatusMap, StatusOf, Stored
<1>2. StatusMap' = [c \in Claim |-> IF c \in gone THEN "removed" ELSE StatusMap[c]]
  BY Records DEF Delete, StatusMap, StatusOf
<1> QED
  BY <1>1, <1>2 DEF Lifecycle!Next, Lifecycle!Remove

LEMMA MapStep ==
  ASSUME IInv, [Next]_vars
  PROVE  [Lifecycle!Next]_(Lifecycle!vars)
<1>0. CoreInv
  BY DEF IInv
<1>1. CASE UNCHANGED <<claims, tokens>>
  BY <1>1, MapQuiet
<1>2. ASSUME NEW r \in Call, StoreClaim(r) \/ StoreClaimCut(r)
      PROVE  Lifecycle!Next
  BY <1>0, <1>2, MapStore DEF StoreClaim, StoreClaimCut
<1>3. ASSUME NEW r \in Call, Swap(r)
      PROVE  [Lifecycle!Next]_(Lifecycle!vars)
  BY <1>0, <1>3, MapSwap
<1>4. CASE Sweep \/ SweepFails \/ SweepCut
  <2>1. PICK gone \in SUBSET Expired : Delete(gone)
    BY <1>4 DEF Sweep, SweepFails, SweepCut, Reindex
  <2>2. UNCHANGED tokens
    BY <1>4 DEF Sweep, SweepFails, SweepCut, AfterAlarm, history
  <2> QED
    BY <1>0, <2>1, <2>2, MapRemove
<1> QED
  BY <1>1, <1>2, <1>3, <1>4
  DEF Next, vars, stored, history, Start, Lookup, Present, AddRoute, Read, SwapRefused, Tick

\* The ceremony under any interleaving of calls and alarms keeps the promise of the
\* lifecycle: one verification, one decision, one use of the grant, after an approval.
THEOREM Refinement == Spec => ImplementsLifecycle
<1>1. IInv /\ [Next]_vars => [Lifecycle!Next]_(Lifecycle!vars)
  BY MapStep
<1> QED
  BY <1>1, MapInit, Invariance, PTL DEF Spec, ImplementsLifecycle, Lifecycle!Spec

-----------------------------------------------------------------------------

\* What one step may do to the time of a claim's last poll.
Paced(c) ==
  Stored(c) /\ claims'[c].lastPoll > claims[c].lastPoll =>
    \/ claims[c].lastPoll = Unset
    \/ claims'[c].lastPoll >= claims[c].lastPoll + claims[c].interval

LEMMA SwapIsPaced ==
  ASSUME CoreInv, NEW r \in Call, Swap(r), NEW d \in Claim
  PROVE  Paced(d)
<1>a. PICK c \in Claim : c = calls[r].claim
  BY DEF Swap, CoreInv, CallsInv
<1>1. PICK op, old, t, new :
        /\ c \in Claim
        /\ c = calls[r].claim /\ op = calls[r].op /\ t = calls[r].clock
        /\ old = claims[c] /\ new = claims'[c]
  BY <1>a
<1>2. claims' = [claims EXCEPT ![c] = new] /\ StepOf(op, old, t, new)
  BY <1>1, SwapFields
<1>3. /\ new.lastPoll = old.lastPoll \/ (new.lastPoll = t /\ ~TooEarly(old, t))
      /\ t \in Nat /\ old \in ClaimRecord /\ claims[d] \in ClaimRecord
  BY <1>1, <1>2, CallFields DEF StepOf, CoreInv, TypeOK
<1>4. CASE d = c
  BY <1>1, <1>3, <1>4 DEF Paced, TooEarly, ClaimRecord, Time
<1>5. CASE d # c
  <2>1. claims'[d] = claims[d]
    BY <1>2, <1>5 DEF CoreInv, TypeOK
  <2> QED
    BY <1>3, <2>1 DEF Paced, ClaimRecord, Time
<1> QED
  BY <1>4, <1>5

LEMMA StepIsPaced ==
  ASSUME CoreInv, [Next]_vars, NEW c \in Claim
  PROVE  Paced(c)
<1>0. claims[c].lastPoll \in Nat
  BY DEF CoreInv, TypeOK, ClaimRecord, Time
<1>1. CASE UNCHANGED claims
  BY <1>0, <1>1 DEF Paced
<1>2. ASSUME NEW r \in Call, PutClaim(r)
      PROVE  Paced(c)
  <2>1. claims[calls[r].claim].status = "none"
    BY <1>2 DEF PutClaim, CoreInv, CallsInv, Starting
  <2>2. Stored(c) => claims'[c] = claims[c]
    BY <1>2, <2>1 DEF PutClaim, Stored, CoreInv, TypeOK
  <2> QED
    BY <1>0, <2>2 DEF Paced
<1>3. ASSUME NEW r \in Call, Swap(r)
      PROVE  Paced(c)
  BY <1>3, SwapIsPaced
<1>4. CASE Sweep \/ SweepFails \/ SweepCut
  <2>1. claims'[c] \in {claims[c], Removed}
    BY <1>4 DEF Sweep, SweepFails, SweepCut, Reindex, Delete
  <2>2. Removed.lastPoll = 0
    BY DEF Removed, NoClaim, Unset
  <2> QED
    BY <1>0, <2>1, <2>2 DEF Paced
<1> QED
  BY <1>1, <1>2, <1>3, <1>4
  DEF Next, vars, stored, Start, Lookup, Present, AddRoute, StoreClaim, StoreClaimCut, Read,
      SwapRefused, Tick

\* Of the polls that are let through, each keeps the interval that the record asked for when
\* it was written, however many of them read the same record.
THEOREM PollsKeepTheirPace == Spec => PollPace
<1>1. IInv /\ [Next]_vars => [\A c \in Claim : Paced(c)]_vars
  BY StepIsPaced DEF IInv
<1> QED
  BY <1>1, Invariance, PTL DEF Spec, PollPace, Paced
=============================================================================
