----------------------------- MODULE PartsProofs -----------------------------
(***************************************************************************)
(* Proofs about the components that share no state with any other one: the *)
(* rate limiters, the policy engine, the client of a grant and the         *)
(* conformance check; for every clock, limit, window, document, number of  *)
(* runs and of attempts.                                                   *)
(***************************************************************************)
EXTENDS RateLimit, Policy, CompletionClient, ConformanceCheck, FiniteSetTheorems, TLAPS

-----------------------------------------------------------------------------
(* The client of a grant *)

ClientSpec == ClientInit /\ [][ClientNext]_clientVars

Completer == Run \union Retrier

ClientTypeOK ==
  /\ grants \in [Run -> {"none", "proposed", "denied", "approved", "consumed", "ended"}]
  /\ runs \in [Run -> {"idle", "approving", "calling", "completing", "ended"}]
  /\ requests \in [Run -> {"none", "sent", "refused", "consumed", "handled"}]
  /\ completing \in [Completer -> [grant : Run \union {NoRun}, attempt : Nat]]
  /\ queues \in [Retrier -> SUBSET Run]
  /\ buffer \subseteq Run
  /\ died \in BOOLEAN
  /\ handled \in [Run -> Nat]

\* A run asks the resource only once it has a credential, and completes its own grant.
RunsInv ==
  /\ \A r \in Run :
       /\ runs[r] = "idle" => grants[r] = "none"
       /\ runs[r] \in {"idle", "approving"} => requests[r] = "none"
       /\ runs[r] = "completing" => completing[r].grant = r
       /\ completing[r].grant \in {r, NoRun}
       /\ completing[r].grant = r => runs[r] = "completing"
  /\ died => \A r \in Run : runs[r] = "ended"
  /\ \A r \in buffer : runs[r] = "ended"
  /\ \A x \in Retrier : \A r \in Run :
       r \in queues[x] \/ completing[x].grant = r => runs[r] = "ended"

\* The handler was started at most once, and a grant that let it start, or is about to, cannot
\* be consumed again.
HandledInv ==
  \A r \in Run :
    /\ handled[r] + (IF requests[r] = "consumed" THEN 1 ELSE 0) <= 1
    /\ handled[r] = 1 \/ requests[r] = "consumed" => grants[r] \in {"consumed", "ended"}

\* A run that may have used its grant and is over has ended it, or left it to somebody.
Accounted(r) == died \/ grants[r] = "ended" \/ r \in buffer \/ \E x \in Completer : completing[x].grant = r
EndsInv == \A r \in Run : requests[r] # "none" /\ runs[r] = "ended" => Accounted(r)

ClientInv == ClientTypeOK /\ RunsInv /\ HandledInv /\ EndsInv

LEMMA ClientInitOK == ClientInit => ClientInv
<1> SUFFICES ASSUME ClientInit PROVE ClientInv
  OBVIOUS
<1>1. completing \in [Completer -> [grant : Run \union {NoRun}, attempt : Nat]]
      /\ \A x \in Completer : completing[x].grant = NoRun
  BY DEF ClientInit, NotCompleting, Completer
<1>2. ClientTypeOK
  BY <1>1 DEF ClientInit, ClientTypeOK
<1>3. RunsInv
  BY <1>1, ClientAssumption DEF ClientInit, RunsInv, Completer
<1>4. HandledInv /\ EndsInv
  BY DEF ClientInit, HandledInv, EndsInv
<1> QED
  BY <1>2, <1>3, <1>4 DEF ClientInv

\* The runs: what the agent and the resource do with the grant of one run.
LEMMA RunStep ==
  ASSUME ClientInv, NEW r \in Run,
         Exchange(r) \/ ApproveGrant(r) \/ Call(r) \/ CallEnds(r) \/ Consume(r) \/ Handle(r)
           \/ TtlPasses(r) \/ EndElsewhere(r)
  PROVE  ClientInv'
<1> USE ClientAssumption DEF ClientInv, Completer
<1>1. ClientTypeOK /\ RunsInv /\ HandledInv /\ EndsInv /\ r \in Completer
  OBVIOUS
<1>2. CASE Exchange(r)
  <2>1. PICK status \in {"approved", "proposed", "denied"}, to \in {"calling", "approving", "ended"} :
          grants' = [grants EXCEPT ![r] = status] /\ runs' = [runs EXCEPT ![r] = to]
    BY <1>2 DEF Exchange
  <2>2. runs[r] = "idle" /\ requests[r] = "none" /\ grants[r] = "none"
        /\ UNCHANGED <<requests, completing, queues, buffer, died, handled>> /\ ~died
    BY <1>2 DEF Exchange, RunsInv
  <2>3. ClientTypeOK' /\ RunsInv'
    BY <2>1, <2>2 DEF ClientTypeOK, RunsInv
  <2>4. HandledInv' /\ EndsInv'
    BY <2>1, <2>2 DEF ClientTypeOK, HandledInv, EndsInv, Accounted
  <2> QED
    BY <2>3, <2>4
<1>3. CASE ApproveGrant(r)
  <2>1. PICK status \in {grants[r], "approved"}, to \in {"calling", "ended"} :
          /\ grants' = [grants EXCEPT ![r] = status] /\ runs' = [runs EXCEPT ![r] = to]
          /\ status # grants[r] => grants[r] = "proposed"
    BY <1>3 DEF ApproveGrant, ClientTypeOK
  <2>2. runs[r] = "approving" /\ requests[r] = "none"
        /\ UNCHANGED <<requests, completing, queues, buffer, died, handled>> /\ ~died
    BY <1>3 DEF ApproveGrant, RunsInv
  <2>3. ClientTypeOK' /\ RunsInv'
    BY <2>1, <2>2 DEF ClientTypeOK, RunsInv
  <2>4. HandledInv' /\ EndsInv'
    BY <2>1, <2>2 DEF ClientTypeOK, HandledInv, EndsInv, Accounted
  <2> QED
    BY <2>3, <2>4
<1>4. CASE Call(r)
  BY <1>4 DEF Call, ClientTypeOK, RunsInv, HandledInv, EndsInv, Accounted
<1>5. CASE CallEnds(r)
  <2>1. /\ runs' = [runs EXCEPT ![r] = "completing"] /\ runs[r] = "calling" /\ ~died
        /\ completing' = [completing EXCEPT ![r] = [grant |-> r, attempt |-> 0]]
        /\ UNCHANGED <<grants, requests, queues, buffer, died, handled>>
    BY <1>5 DEF CallEnds
  <2>2. completing[r].grant = NoRun
    BY <2>1 DEF RunsInv
  <2>3. ClientTypeOK' /\ RunsInv' /\ HandledInv'
    BY <2>1 DEF ClientTypeOK, RunsInv, HandledInv
  <2>4. \A q \in Run : Accounted(q) => Accounted(q)'
    BY <2>1, <2>2 DEF ClientTypeOK, Accounted
  <2>5. EndsInv'
    BY <2>1, <2>4 DEF ClientTypeOK, EndsInv
  <2> QED
    BY <2>3, <2>5
<1>6. CASE Consume(r)
  <2>1. PICK status \in {grants[r], "consumed"}, to \in {"consumed", "refused"} :
          /\ grants' = [grants EXCEPT ![r] = status] /\ requests' = [requests EXCEPT ![r] = to]
          /\ to = "consumed" => status = "consumed"
          /\ status # grants[r] \/ to = "consumed" => grants[r] = "approved"
    BY <1>6 DEF Consume, Consumes, ClientTypeOK
  <2>2. requests[r] = "sent" /\ UNCHANGED <<runs, completing, queues, buffer, died, handled>>
    BY <1>6 DEF Consume
  <2>3. ClientTypeOK' /\ RunsInv'
    BY <2>1, <2>2 DEF ClientTypeOK, RunsInv
  <2>4. HandledInv'
    BY <2>1, <2>2 DEF ClientTypeOK, HandledInv
  <2>5. EndsInv'
    BY <2>1, <2>2 DEF ClientTypeOK, EndsInv, Accounted
  <2> QED
    BY <2>3, <2>4, <2>5
<1>7. CASE Handle(r)
  <2>1. PICK n \in {handled[r], handled[r] + 1}, to \in {"handled", "refused"} :
          handled' = [handled EXCEPT ![r] = n] /\ requests' = [requests EXCEPT ![r] = to]
    BY <1>7 DEF Handle, ClientTypeOK
  <2>2. /\ requests[r] = "consumed"
        /\ UNCHANGED <<grants, runs, completing, queues, buffer, died>>
    BY <1>7 DEF Handle
  <2>3. ClientTypeOK' /\ RunsInv' /\ EndsInv'
    BY <2>1, <2>2 DEF ClientTypeOK, RunsInv, EndsInv, Accounted
  <2>4. HandledInv'
    BY <2>1, <2>2 DEF ClientTypeOK, HandledInv
  <2> QED
    BY <2>3, <2>4
<1>8. CASE TtlPasses(r)
  BY <1>8 DEF TtlPasses, ClientTypeOK, RunsInv, HandledInv, EndsInv, Accounted
<1>9. CASE EndElsewhere(r)
  BY <1>9 DEF EndElsewhere, ClientTypeOK, RunsInv, HandledInv, EndsInv, Accounted
<1> QED
  BY <1>2, <1>3, <1>4, <1>5, <1>6, <1>7, <1>8, <1>9

\* Whoever completes a grant leaves it ended or buffered.
LEMMA CompleterStep ==
  ASSUME ClientInv, NEW x \in Completer, Complete(x) \/ CompleteFails(x) \/ KeepForLater(x)
  PROVE  ClientInv'
<1> USE ClientAssumption DEF ClientInv, Completer
<1>0. completing[x].grant \in Run /\ ~died /\ UNCHANGED <<requests, queues, died, handled>>
  BY DEF Complete, CompleteFails, KeepForLater, ClientTypeOK
<1> PICK r \in Run : r = completing[x].grant
  BY <1>0
<1>1. /\ ~died /\ UNCHANGED <<requests, queues, died, handled>>
      /\ IF x \in Run THEN r = x /\ runs[r] = "completing" ELSE runs[r] = "ended"
  BY <1>0 DEF RunsInv
<1>2. CASE CompleteFails(x)
  <2>1. PICK status \in {grants[r], "ended"} : grants' = [grants EXCEPT ![r] = status]
    BY <1>1, <1>2 DEF CompleteFails, ClientTypeOK
  <2>2. completing' = [completing EXCEPT ![x].attempt = @ + 1] /\ UNCHANGED <<runs, buffer>>
    BY <1>2 DEF CompleteFails
  <2>3. /\ completing' \in [Completer -> [grant : Run \union {NoRun}, attempt : Nat]]
        /\ \A y \in Completer : completing'[y].grant = completing[y].grant
    BY <2>2 DEF ClientTypeOK
  <2>4. ClientTypeOK' /\ HandledInv'
    BY <1>1, <2>1, <2>2, <2>3 DEF ClientTypeOK, HandledInv
  <2>5. RunsInv'
    BY <1>1, <2>1, <2>2, <2>3 DEF ClientTypeOK, RunsInv
  <2>6. EndsInv'
    BY <1>1, <2>1, <2>2, <2>3 DEF ClientTypeOK, EndsInv, Accounted
  <2> QED
    BY <2>4, <2>5, <2>6
<1>3. CASE Complete(x) \/ KeepForLater(x)
  <2>1. /\ completing' = [completing EXCEPT ![x] = NotCompleting]
        /\ runs' = IF x \in Run THEN [runs EXCEPT ![x] = "ended"] ELSE runs
    BY <1>3 DEF Complete, KeepForLater, Leave
  <2>2. \/ grants' = [grants EXCEPT ![r] = "ended"] /\ buffer' = buffer \ {r}
        \/ grants' = grants /\ buffer' = buffer \union {r}
    BY <1>3 DEF Complete, KeepForLater, Buffered
  <2>3. NotCompleting \in [grant : Run \union {NoRun}, attempt : Nat] /\ NotCompleting.grant = NoRun
    BY DEF NotCompleting
  <2>4. \A y \in Completer : completing'[y].grant = IF y = x THEN NoRun ELSE completing[y].grant
    BY <2>1, <2>3 DEF ClientTypeOK
  <2>5. ClientTypeOK' /\ HandledInv'
    BY <1>1, <2>1, <2>2, <2>3 DEF ClientTypeOK, HandledInv
  <2>6. \A q \in Run : q # x => runs'[q] = runs[q]
    BY <2>1 DEF ClientTypeOK
  <2>7. x \in Run => runs'[x] = "ended" /\ runs[x] = "completing"
    BY <1>1, <2>1 DEF ClientTypeOK, RunsInv
  <2>8. \A q \in Run : grants'[q] = grants[q] \/ (q = r /\ grants'[q] = "ended")
    BY <1>1, <2>2 DEF ClientTypeOK
  <2>9. RunsInv'
    <3>1. ~died'
      BY <1>1
    <3>2. \A q \in buffer' : q \in Run /\ runs'[q] = "ended"
      BY <1>1, <2>2, <2>6, <2>7 DEF ClientTypeOK, RunsInv
    <3>3. \A y \in Retrier, q \in Run : q \in queues'[y] \/ completing'[y].grant = q => runs'[q] = "ended"
      BY <1>1, <2>4, <2>6, <2>7 DEF RunsInv
    <3>4. \A q \in Run :
            /\ runs'[q] = "completing" => completing'[q].grant = q
            /\ completing'[q].grant \in {q, NoRun}
            /\ completing'[q].grant = q => runs'[q] = "completing"
      BY <1>1, <2>4, <2>6, <2>7 DEF RunsInv
    <3>5. \A q \in Run :
            /\ runs'[q] = "idle" => grants'[q] = "none"
            /\ runs'[q] \in {"idle", "approving"} => requests'[q] = "none"
      BY <1>1, <2>6, <2>7, <2>8 DEF RunsInv
    <3> QED
      BY <3>1, <3>2, <3>3, <3>4, <3>5 DEF RunsInv
  <2>10. grants'[r] = "ended" \/ r \in buffer'
    BY <1>1, <2>2 DEF ClientTypeOK
  <2>11. \A q \in Run : q # r /\ Accounted(q) => Accounted(q)'
    BY <1>1, <2>2, <2>4, <2>8 DEF Accounted
  <2>12. Accounted(r)'
    BY <2>10 DEF Accounted
  <2>13. EndsInv'
    <3> SUFFICES ASSUME NEW q \in Run, requests[q] # "none", runs'[q] = "ended", q # r
                 PROVE  Accounted(q)'
      BY <1>1, <2>12 DEF EndsInv
    <3> QED
      BY <1>1, <2>6, <2>11 DEF EndsInv
  <2> QED
    BY <2>5, <2>9, <2>13
<1> QED
  BY <1>2, <1>3

LEMMA RetryStep ==
  ASSUME ClientInv, NEW x \in Retrier, StartRetry(x) \/ RetryNext(x)
  PROVE  ClientInv'
<1> USE ClientAssumption DEF ClientInv, Completer
<1>0. x \notin Run /\ x \in Completer /\ completing[x] = NotCompleting /\ ~died
  BY DEF StartRetry, RetryNext
<1>1. CASE StartRetry(x)
  BY <1>1 DEF StartRetry, ClientTypeOK, RunsInv, HandledInv, EndsInv, Accounted
<1>2. ASSUME NEW r \in Run, r \in queues[x], queues' = [queues EXCEPT ![x] = @ \ {r}],
             completing' = [completing EXCEPT ![x] = [grant |-> r, attempt |-> 0]],
             UNCHANGED <<grants, runs, requests, buffer, died, handled>>
      PROVE  ClientInv'
  <2>1. \A y \in Completer : completing'[y].grant = IF y = x THEN r ELSE completing[y].grant
    BY <1>0, <1>2 DEF ClientTypeOK
  <2>2. ClientTypeOK' /\ HandledInv'
    BY <1>0, <1>2 DEF ClientTypeOK, HandledInv
  <2>3. RunsInv'
    <3>1. runs[r] = "ended" /\ \A y \in Retrier : queues'[y] \subseteq queues[y]
      BY <1>2 DEF ClientTypeOK, RunsInv
    <3>2. \A y \in Retrier, q \in Run : q \in queues'[y] \/ completing'[y].grant = q => runs'[q] = "ended"
      BY <1>2, <2>1, <3>1 DEF RunsInv
    <3> QED
      BY <1>0, <1>2, <2>1, <3>2 DEF RunsInv
  <2>4. completing[x].grant = NoRun
    BY <1>0 DEF NotCompleting
  <2>5. EndsInv'
    BY <1>0, <1>2, <2>1, <2>4 DEF EndsInv, Accounted
  <2> QED
    BY <2>2, <2>3, <2>5
<1>3. CASE RetryNext(x)
  <2>1. \A r \in queues[x] : r \in Run
    BY DEF ClientTypeOK
  <2> QED
    BY <1>2, <1>3, <2>1 DEF RetryNext
<1> QED
  BY <1>1, <1>3

LEMMA LossStep == ClientInv /\ ProcessLost => ClientInv'
BY ClientAssumption DEF ClientInv, ProcessLost, ClientTypeOK, RunsInv, HandledInv, EndsInv, Accounted,
                        Completer, NotCompleting

LEMMA ClientInvHolds == ClientSpec => []ClientInv
<1>1. ClientInv /\ UNCHANGED clientVars => ClientInv'
  BY DEF ClientInv, clientVars, ClientTypeOK, RunsInv, HandledInv, EndsInv, Accounted
<1>2. ClientInv /\ [ClientNext]_clientVars => ClientInv'
  BY <1>1, RunStep, CompleterStep, RetryStep, LossStep DEF ClientNext, Completer
<1> QED
  BY <1>2, ClientInitOK, PTL DEF ClientSpec

\* However often the agent repeats its call, however many runs and retries complete the same
\* grants side by side, and whatever is lost on the way, the handler of a resource starts once
\* per grant, and a grant that was used is ended, buffered, about to be completed, or left to
\* its time-to-live by the loss of the process.
THEOREM GrantsAreUsedOnceAndEnded == ClientSpec => []UsesAndEndsItsGrant
<1>1. ClientInv => UsesAndEndsItsGrant
  BY DEF ClientInv, ClientTypeOK, HandledInv, EndsInv, Accounted, Completer, UsesAndEndsItsGrant
<1> QED
  BY <1>1, ClientInvHolds, PTL

-----------------------------------------------------------------------------
(* The policy engine *)

PolicySpec == PolicyInit /\ [][PolicyNext]_policyVars

PolicyTypeOK ==
  /\ hour \in Hour
  /\ document \in Seq(Rule)
  /\ position \in Nat /\ position <= Len(document) + 1
  /\ decision \in Nat \union {-1}
  /\ turned \in BOOLEAN

\* The rules before the one looked at next do not match, as long as the hour stands still.
PolicyInv ==
  /\ PolicyTypeOK
  /\ position = 0 => decision = -1
  /\ ~turned => \A i \in 1..(position - 1) : ~Matches(document[i], proposal, hour)
  /\ decision = 0 => position = Len(document) + 1
  /\ decision > 0 =>
       /\ decision = position /\ position <= Len(document)
       /\ FieldsMatch(document[decision], proposal)
       /\ ~turned => Matches(document[decision], proposal, hour)

\* The test of the code, which tells a window that spans midnight by its end before its start,
\* accepts the hours that a clock shows from the start of the window until its end.
LEMMA WindowIsWalked ==
  ASSUME NEW w \in Window24, NEW h \in Hour
  PROVE  InWindow(w, h) <=> h \in HoursOf(w)
<1> DEFINE length == (w.end + Day - w.start) % Day
           offset == IF h >= w.start THEN h - w.start ELSE h + Day - w.start
<1>1. Day \in Nat \ {0} /\ w.start \in Hour /\ w.end \in Hour
  BY PolicyAssumption DEF Window24
<1>2. length = IF w.end >= w.start THEN w.end - w.start ELSE w.end + Day - w.start
  BY <1>1 DEF Hour
<1>3. offset \in Hour
  BY <1>1 DEF Hour
<1>4. (w.start + offset) % Day = h
  BY <1>1 DEF Hour
<1>5. \A k \in Hour : (w.start + k) % Day = h => k = offset
  <2> SUFFICES ASSUME NEW k \in Hour, (w.start + k) % Day = h PROVE k = offset
    OBVIOUS
  <2>1. (w.start + k) % Day = IF w.start + k >= Day THEN w.start + k - Day ELSE w.start + k
    BY <1>1 DEF Hour
  <2> QED
    BY <1>1, <2>1 DEF Hour
<1>6. InWindow(w, h) <=> offset < length
  BY <1>1, <1>2 DEF InWindow, Hour
<1> HIDE DEF offset
<1>7. h \in HoursOf(w) <=> offset < length
  BY <1>3, <1>4, <1>5 DEF HoursOf
<1> QED
  BY <1>6, <1>7

LEMMA AppliesIsMatches ==
  ASSUME NEW rule \in Rule, hour \in Hour
  PROVE  Applies(rule) <=> Matches(rule, proposal, hour)
BY WindowIsWalked DEF Applies, Matches, Rule

LEMMA PolicyStep == PolicyInv /\ [PolicyNext]_policyVars => PolicyInv'
<1> SUFFICES ASSUME PolicyInv, [PolicyNext]_policyVars PROVE PolicyInv'
  OBVIOUS
<1> USE DEF PolicyInv, PolicyTypeOK
<1>1. ASSUME NEW rule \in Rule, ParseRule(rule) PROVE PolicyInv'
  <2>1. document' = Append(document, rule) /\ position = 0 /\ decision = -1
        /\ UNCHANGED <<hour, proposal, position, decision, turned>>
    BY <1>1 DEF ParseRule
  <2>2. document' \in Seq(Rule) /\ Len(document') = Len(document) + 1
    BY <2>1
  <2> QED
    BY <2>1, <2>2
<1>2. ASSUME NEW p \in [Field -> Value], Propose(p) PROVE PolicyInv'
  BY <1>2 DEF Propose
<1>3. CASE Evaluate
  <2>1. decision = -1 /\ position > 0 /\ UNCHANGED <<hour, document, proposal, turned>>
    BY <1>3 DEF Evaluate
  <2>2. CASE position > Len(document)
    BY <1>3, <2>1, <2>2 DEF Evaluate
  <2>3. CASE position <= Len(document) /\ Matches(document[position], proposal, hour)
    <3>1. decision' = position /\ position' = position
      BY <1>3, <2>3 DEF Evaluate
    <3> QED
      BY <2>1, <2>3, <3>1 DEF Matches
  <2>4. CASE position <= Len(document) /\ ~Matches(document[position], proposal, hour)
    <3>1. decision' = -1 /\ position' = position + 1
      BY <1>3, <2>1, <2>4 DEF Evaluate
    <3> QED
      BY <2>1, <2>4, <3>1
  <2> QED
    BY <2>2, <2>3, <2>4
<1>4. CASE HourTurns
  <2>1. (hour + 1) % Day \in Hour
    BY PolicyAssumption DEF Hour
  <2> QED
    BY <1>4, <2>1 DEF HourTurns
<1>5. CASE UNCHANGED policyVars
  BY <1>5 DEF policyVars
<1> QED
  BY <1>1, <1>2, <1>3, <1>4, <1>5 DEF PolicyNext

\* Whatever the document, the proposal and the hour: while the hour stands still, the decision is
\* that of the first rule that applies, where a window applies during the hours that a clock
\* shows between its ends; when the hour turns, the rule that decided still named the proposal.
THEOREM TheFirstMatchWins == PolicySpec => []FirstMatchWins
<1>1. PolicyInit => PolicyInv
  <2> SUFFICES ASSUME PolicyInit PROVE PolicyInv
    OBVIOUS
  <2>1. document \in Seq(Rule) /\ Len(document) = 0
    BY DEF PolicyInit
  <2>2. /\ hour \in Hour /\ turned \in BOOLEAN
        /\ position = 0 /\ decision = -1
    BY DEF PolicyInit
  <2>3. PolicyTypeOK
    BY <2>1, <2>2 DEF PolicyTypeOK
  <2>4. \A i \in 1..(position - 1) : FALSE
    BY <2>2
  <2>5. decision # 0 /\ ~(decision > 0)
    BY <2>2
  <2> QED
    BY <2>2, <2>3, <2>4, <2>5 DEF PolicyInv
<1>2. PolicyInv => FirstMatchWins
  <2> SUFFICES ASSUME PolicyInv, decision # -1
               PROVE  LET applying == {i \in 1..Len(document) : Applies(document[i])} IN
                      IF turned THEN decision > 0 => FieldsMatch(document[decision], proposal)
                      ELSE IF decision = 0 THEN applying = {}
                      ELSE decision \in applying /\ \A i \in applying : decision <= i
    BY DEF FirstMatchWins
  <2> DEFINE applying == {i \in 1..Len(document) : Applies(document[i])}
  <2>1. \A i \in 1..Len(document) : i \in applying <=> Matches(document[i], proposal, hour)
    BY AppliesIsMatches DEF PolicyInv, PolicyTypeOK
  <2>2. decision \in Nat /\ position \in Nat /\ Len(document) \in Nat /\ applying \subseteq 1..Len(document)
    BY DEF PolicyInv, PolicyTypeOK
  <2> HIDE DEF applying
  <2>3. ~turned /\ decision = 0 => applying = {}
    BY <2>1, <2>2 DEF PolicyInv
  <2>4. ~turned /\ decision > 0 => decision \in applying /\ \A i \in applying : decision <= i
    BY <2>1, <2>2 DEF PolicyInv
  <2>5. turned /\ decision > 0 => FieldsMatch(document[decision], proposal)
    BY DEF PolicyInv
  <2> USE DEF applying
  <2> QED
    BY <2>2, <2>3, <2>4, <2>5
<1> QED
  BY <1>1, <1>2, PolicyStep, PTL DEF PolicySpec

-----------------------------------------------------------------------------
(* The conformance check *)

CheckSpec == CheckInit /\ [][CheckNext]_checkVars

\* Every document that was had is one that a host serves, and what the validators said of it is
\* among the findings.
DocumentsInv ==
  /\ documents.authMd # NoDocument =>
       documents.authMd \in AuthMdDocs /\ ValidateAuthMd(documents.authMd) \subseteq findings.errors
  /\ documents.resource # NoDocument =>
       documents.resource \in ResourceDocs /\ ValidateResource(documents.resource) \subseteq findings.errors
  /\ documents.server # NoDocument =>
       /\ documents.server \in ServerDocs
       /\ ValidateServer(documents.server, documents.resource, documents.authMd) \subseteq findings.errors

\* A document is looked for after the ones before it were had, and before the ones after it; a
\* report without one has said so.
OrderInv ==
  /\ step \in {"args", "config", "authMd"} => documents = NotFound
  /\ step \in {"resource", "server"} => remoteSubject /\ documents.authMd # NoDocument
  /\ step = "resource" => documents.resource = NoDocument
  /\ step = "server" => documents.resource # NoDocument
  /\ step \in {"resource", "server"} => documents.server = NoDocument
  /\ step = "report" \/ (step = "exited" /\ exit = Success) =>
       \/ findings.errors # {}
       \/ NoDocument \notin {documents.authMd, documents.resource, documents.server}
       \/ ~remoteSubject

CheckTypeOK ==
  /\ step \in {"args", "config", "authMd", "resource", "server", "report", "exited", "helped"}
  /\ hops \in Nat /\ hops <= MaxRedirects
  /\ DOMAIN findings = {"errors", "warnings"}
  /\ DOMAIN documents = {"authMd", "resource", "server"}

CheckInv ==
  /\ CheckTypeOK /\ DocumentsInv /\ OrderInv
  /\ exit = Success => step = "helped" \/ (step = "exited" /\ ExitCode = Success)

LEMMA NoFinding ==
  ASSUME NEW rule, NEW condition \in BOOLEAN
  PROVE  Rules(rule, condition) = {} <=> ~condition
BY DEF Rules

\* Resource metadata without a finding names an authorization server, whose URL is the one the
\* check goes by.
LEMMA ServerIsDeclared ==
  ASSUME NEW r \in ResourceMetadata, ValidateResource(r) = {}
  PROVE  /\ r.resource = "subject" /\ r.servers # <<>>
         /\ DeclaredServer(r) = Head(r.servers) /\ DeclaredServer(r) \in Url
<1>1. r.resource \in {Absent, Malformed, "other", "subject"} /\ r.servers \in Seq({Malformed} \union Url)
  BY DEF ResourceMetadata
<1>2. /\ Rules("PRM_RESOURCE_REQUIRED", r.resource = Absent) = {}
      /\ Rules("PRM_RESOURCE_URL", r.resource = Malformed) = {}
      /\ Rules("PRM_RESOURCE_MISMATCH", r.resource = "other") = {}
      /\ Rules("PRM_AUTHORIZATION_SERVERS_REQUIRED", r.servers = <<>>) = {}
      /\ Rules("PRM_AUTHORIZATION_SERVER_URL", \E i \in DOMAIN r.servers : ~Valid(r.servers[i])) = {}
  BY DEF ValidateResource
<1>3. r.resource = "subject" /\ r.servers # <<>> /\ \A i \in DOMAIN r.servers : Valid(r.servers[i])
  BY <1>1, <1>2, NoFinding
<1> DEFINE valid == {i \in DOMAIN r.servers : Valid(r.servers[i])}
<1>4. 1 \in valid /\ \A j \in valid : j \in Nat /\ 1 <= j
  BY <1>1, <1>3
<1>5. (CHOOSE i \in valid : \A j \in valid : i <= j) = 1
  <2> HIDE DEF valid
  <2>1. \A i \in valid : (\A j \in valid : i <= j) => i = 1
    BY <1>4
  <2> QED
    BY <1>4, <2>1
<1>6. DeclaredServer(r) = r.servers[1]
  BY <1>4, <1>5 DEF DeclaredServer
<1>7. r.servers[1] = Head(r.servers) /\ r.servers[1] \in {Malformed} \union Url
  BY <1>1, <1>3
<1> QED
  BY <1>3, <1>4, <1>6, <1>7 DEF Valid

\* What the validators of the three documents together say nothing about, an agent can go by.
LEMMA NoFindingsLeadThrough ==
  ASSUME NEW d \in AuthMd, NEW r \in ResourceMetadata, NEW m \in ServerMetadata,
         ValidateAuthMd(d) = {}, ValidateResource(r) = {}, ValidateServer(m, r, d) = {}
  PROVE  AgentCanFollow(d, r, m)
<1>1. \A s \in Section : d.sections[s] = Good
  <2>1. \A s \in Section : d.sections[s] \in {Good, Absent, "empty", "duplicate"}
    BY DEF AuthMd
  <2>2. /\ Rules("AUTHMD_REQUIRED_SECTION", \E s \in Section : d.sections[s] = Absent) = {}
        /\ Rules("AUTHMD_DUPLICATE_SECTION", \E s \in Section : d.sections[s] = "duplicate") = {}
        /\ Rules("AUTHMD_EMPTY_SECTION", \E s \in Section : d.sections[s] = "empty") = {}
    BY DEF ValidateAuthMd
  <2> QED
    BY <2>1, <2>2, NoFinding
<1>2. /\ Rules("AS_ISSUER", ~Valid(m.issuer)) = {}
      /\ Rules("AS_ENDPOINT", \E f \in UrlField : m.urls[f] # Good) = {}
      /\ m.agentAuth /\ ValidateAgentAuth(m, d) = {}
      /\ ValidateGrantCoherence(m, d) = {}
      /\ Rules("AS_TOKEN_AUTH_PUBLIC_CLIENT", d.modes # {} /\ "none" \notin m.authMethods) = {}
      /\ Valid(m.issuer) => ValidateIdentityConsistency(m, r, d) = {}
  BY DEF ValidateServer
<1>3. /\ m.agentAuth \in BOOLEAN /\ m.modes \in SUBSET (Mode \union {"unknown"})
      /\ m.issuer \in {Absent, Malformed} \union Url /\ d.modes \in SUBSET Mode
      /\ m.skill \in {Absent, Malformed, "other", "fetched"}
      /\ \A e \in AgentEndpoint : m.endpoints[e] \in {Absent, Malformed} \union Url
  BY DEF ServerMetadata, AuthMd
<1>4. /\ Valid(m.issuer) /\ m.issuer \in Url /\ (d.modes # {} => "none" \in m.authMethods)
      /\ \A f \in UrlField : m.urls[f] = Good
  BY <1>2, <1>3, NoFinding DEF Valid
<1>5. /\ Rules("PRM_ISSUER_MISMATCH", Valid(DeclaredServer(r)) /\ ~SameUrl(DeclaredServer(r), m.issuer)) = {}
      /\ Rules("AUTHMD_ISSUER_MISMATCH", Valid(d.issuer) /\ ~SameUrl(d.issuer, m.issuer)) = {}
  BY <1>2, <1>4 DEF ValidateIdentityConsistency
<1>6. /\ r.resource = "subject" /\ r.servers # <<>> /\ SameUrl(Head(r.servers), m.issuer)
      /\ Valid(d.issuer) => SameUrl(d.issuer, m.issuer)
  BY <1>5, ServerIsDeclared, NoFinding, UrlAssumption DEF SameUrl
<1>7. /\ Rules("AGENT_AUTH_SKILL_URL", ~Valid(m.skill)) = {}
      /\ Rules("AGENT_AUTH_SKILL_MISMATCH", m.skill = "other") = {}
      /\ Rules("AGENT_AUTH_ENDPOINT_URL", \E e \in AgentEndpoint : ~Valid(m.endpoints[e])) = {}
      /\ Rules("AGENT_AUTH_ENDPOINT_ISSUER",
               /\ Valid(m.issuer)
               /\ \E e \in AgentEndpoint :
                    Valid(m.endpoints[e]) /\ ~SameOrigin(m.endpoints[e], m.issuer)) = {}
      /\ Rules("AUTHMD_REGISTRATION_MODE_MISMATCH", ~(d.modes \subseteq m.modes)) = {}
  BY <1>2 DEF ValidateAgentAuth
<1>8. /\ m.skill = "fetched" /\ d.modes \subseteq m.modes
      /\ \A e \in AgentEndpoint : m.endpoints[e] \in Url /\ SameOrigin(m.endpoints[e], m.issuer)
  BY <1>3, <1>4, <1>7, NoFinding DEF Valid, SameOrigin
<1>9. /\ "identity_assertion" \in d.modes => "jwt_bearer" \in m.grants
      /\ {"anonymous", "service_auth"} \intersect d.modes # {} => "claim" \in m.grants
  BY <1>2, NoFinding DEF ValidateGrantCoherence
<1>10. \A mode \in d.modes :
         mode \in m.modes /\ (IF mode = "identity_assertion" THEN "jwt_bearer" ELSE "claim") \in m.grants
  BY <1>3, <1>8, <1>9 DEF Mode
<1> QED
  BY <1>1, <1>2, <1>4, <1>6, <1>8, <1>10 DEF AgentCanFollow

LEMMA CheckInitOK == CheckInit => CheckInv
BY CheckAssumption DEF CheckInit, CheckInv, CheckTypeOK, DocumentsInv, OrderInv, NotFound, Running, Success

\* What every way on does: errors are only added, and the next step finds its documents.
LEMMA CandidateFailsStep ==
  ASSUME CheckInv, NEW rule, CandidateFails(rule), step \in {"authMd", "resource", "server"}
  PROVE  CheckInv'
<1> USE CheckAssumption DEF CheckInv
<1>1. UNCHANGED <<failOn, remoteSubject, documents, exit>> /\ exit # Success
  BY DEF CandidateFails
<1>2. CASE candidates > 1
  <2>1. hops' = 0 /\ UNCHANGED <<step, findings>>
    BY <1>2 DEF CandidateFails
  <2> QED
    BY <1>1, <2>1 DEF CheckTypeOK, DocumentsInv, OrderInv, ExitCode
<1>3. CASE ~(candidates > 1)
  <2>1. hops' = 0 /\ step' = "report" /\ findings' = [findings EXCEPT !.errors = @ \union {rule}]
    BY <1>3 DEF CandidateFails, Proceed, AddErrors, Reported
  <2>2. /\ DOMAIN findings' = {"errors", "warnings"}
        /\ findings.errors \subseteq findings'.errors /\ rule \in findings'.errors
    BY <2>1 DEF CheckTypeOK
  <2> QED
    BY <1>1, <2>1, <2>2 DEF CheckTypeOK, DocumentsInv, OrderInv
<1> QED
  BY <1>2, <1>3

LEMMA ReadStep == CheckInv /\ (ReadAuthMd \/ ReadResource \/ ReadServer) => CheckInv'
<1> SUFFICES ASSUME CheckInv, ReadAuthMd \/ ReadResource \/ ReadServer PROVE CheckInv'
  OBVIOUS
<1> USE CheckAssumption DEF CheckInv
<1>1. /\ UNCHANGED <<failOn, remoteSubject, exit>> /\ exit # Success /\ hops' = 0
      /\ step \in {"authMd", "resource", "server"}
  BY DEF ReadAuthMd, ReadResource, ReadServer, Proceed
<1>2. CASE ReadAuthMd
  <2>1. PICK d \in AuthMdDocs : Validated(d) /\ documents' = [documents EXCEPT !.authMd = d]
    BY <1>2 DEF ReadAuthMd
  <2>2. /\ DOMAIN findings' = {"errors", "warnings"}
        /\ ValidateAuthMd(d) \subseteq findings'.errors
    BY <2>1 DEF Validated
  <2>3. /\ DOMAIN documents' = {"authMd", "resource", "server"}
        /\ documents'.authMd = d /\ documents'.resource = NoDocument /\ documents'.server = NoDocument
    BY <1>2, <2>1 DEF ReadAuthMd, OrderInv, NotFound, CheckTypeOK
  <2>4. step' = IF remoteSubject THEN "resource" ELSE "report"
    BY <1>2 DEF ReadAuthMd, Proceed
  <2>5. CheckTypeOK' /\ DocumentsInv'
    BY <1>1, <2>2, <2>3, <2>4 DEF CheckTypeOK, DocumentsInv
  <2>6. OrderInv'
    BY <1>1, <2>3, <2>4 DEF OrderInv
  <2> QED
    BY <1>1, <2>5, <2>6
<1>3. CASE ReadResource
  <2>1. PICK r \in ResourceDocs :
          /\ AddErrors(ValidateResource(r)) /\ documents' = [documents EXCEPT !.resource = r]
          /\ step' = IF DeclaredServer(r) = Absent THEN "report" ELSE "server"
    BY <1>3 DEF ReadResource, Proceed
  <2>2. /\ DOMAIN findings' = {"errors", "warnings"}
        /\ findings'.errors = findings.errors \union ValidateResource(r)
    BY <2>1 DEF AddErrors, CheckTypeOK
  <2>3. /\ DOMAIN documents' = {"authMd", "resource", "server"}
        /\ documents'.authMd = documents.authMd /\ documents'.resource = r
        /\ documents'.server = NoDocument
        /\ remoteSubject /\ documents.authMd # NoDocument
    BY <1>3, <2>1 DEF ReadResource, OrderInv, CheckTypeOK
  <2>4. CheckTypeOK' /\ DocumentsInv'
    BY <1>1, <2>1, <2>2, <2>3 DEF CheckTypeOK, DocumentsInv
  <2>5. DeclaredServer(r) = Absent => findings'.errors # {}
    BY <2>2, ServerIsDeclared, UrlAssumption DEF Valid
  <2>6. OrderInv'
    BY <1>1, <2>1, <2>3, <2>5 DEF OrderInv
  <2> QED
    BY <1>1, <2>4, <2>6
<1>4. CASE ReadServer
  <2>1. PICK m \in ServerDocs :
          /\ AddErrors(ValidateServer(m, documents.resource, documents.authMd))
          /\ documents' = [documents EXCEPT !.server = m] /\ step' = "report"
    BY <1>4 DEF ReadServer, Proceed
  <2>2. /\ DOMAIN findings' = {"errors", "warnings"}
        /\ findings'.errors = findings.errors \union ValidateServer(m, documents.resource, documents.authMd)
    BY <2>1 DEF AddErrors, CheckTypeOK
  <2>3. /\ DOMAIN documents' = {"authMd", "resource", "server"}
        /\ documents'.authMd = documents.authMd /\ documents'.resource = documents.resource
        /\ documents'.server = m
        /\ NoDocument \notin {documents.authMd, documents.resource}
    BY <1>4, <2>1 DEF ReadServer, OrderInv, CheckTypeOK
  <2>4. CheckTypeOK' /\ DocumentsInv'
    BY <1>1, <2>1, <2>2, <2>3 DEF CheckTypeOK, DocumentsInv
  <2>5. OrderInv'
    BY <1>1, <2>1, <2>3 DEF OrderInv
  <2> QED
    BY <1>1, <2>4, <2>5
<1> QED
  BY <1>2, <1>3, <1>4

LEMMA CheckStep == CheckInv /\ [CheckNext]_checkVars => CheckInv'
<1> SUFFICES ASSUME CheckInv, [CheckNext]_checkVars PROVE CheckInv'
  OBVIOUS
<1> USE CheckAssumption DEF Success, Usage, Internal, Findings, Running, Exit
<1>1. CASE ParseArgs
  BY <1>1 DEF ParseArgs, CheckInv, CheckTypeOK, DocumentsInv, OrderInv, NotFound
<1>2. CASE LoadConfig
  BY <1>2 DEF LoadConfig, CheckInv, CheckTypeOK, DocumentsInv, OrderInv, NotFound
<1>3. ASSUME NEW a \in Answer, FollowRedirect(a) PROVE CheckInv'
  BY <1>3 DEF FollowRedirect, Fetching, Follows, CheckInv, CheckTypeOK, DocumentsInv, OrderInv
<1>4. ASSUME NEW a \in Answer, FetchFails(a) PROVE CheckInv'
  BY <1>4, CandidateFailsStep DEF FetchFails, Fetching
<1>5. CASE ReadFails
  BY <1>5 DEF ReadFails, CheckInv, CheckTypeOK, DocumentsInv, OrderInv
<1>6. CASE NotAnObject
  BY <1>6, CandidateFailsStep DEF NotAnObject
<1>7. CASE Report
  <2>1. step = "report" /\ UNCHANGED <<failOn, remoteSubject, candidates, hops, findings, documents>>
    BY <1>7 DEF Report
  <2>2. ExitCode' = ExitCode /\ step' = "exited" /\ exit' \in {ExitCode, Internal}
    BY <1>7, <2>1 DEF Report, ExitCode
  <2> QED
    BY <2>1, <2>2 DEF CheckInv, CheckTypeOK, DocumentsInv, OrderInv
<1>8. CASE UNCHANGED checkVars
  BY <1>8 DEF checkVars, CheckInv, CheckTypeOK, DocumentsInv, OrderInv, ExitCode
<1> QED
  BY <1>1, <1>2, <1>3, <1>4, <1>5, <1>6, <1>7, <1>8, ReadStep DEF CheckNext

\* Whatever the hosts answer, with whatever documents and redirects: a check of a URL that may fail
\* and reports success had all three documents, within the limit of redirects, and an agent can
\* go by them.
THEOREM SuccessIsEarned == CheckSpec => []CleanReportIsEarned
<1>1. CheckInv => CleanReportIsEarned
  <2> SUFFICES ASSUME CheckInv, step = "exited", exit = Success, failOn # "never"
               PROVE  /\ findings.errors = {}
                      /\ remoteSubject =>
                           /\ NoDocument \notin {documents.resource, documents.server}
                           /\ AgentCanFollow(documents.authMd, documents.resource, documents.server)
    BY DEF CleanReportIsEarned, CheckInv, CheckTypeOK
  <2>1. findings.errors = {}
    BY DEF CheckInv, ExitCode, Success, Findings
  <2>2. ASSUME remoteSubject
        PROVE  /\ NoDocument \notin {documents.authMd, documents.resource, documents.server}
               /\ AgentCanFollow(documents.authMd, documents.resource, documents.server)
    <3>1. NoDocument \notin {documents.authMd, documents.resource, documents.server}
      BY <2>1, <2>2 DEF CheckInv, OrderInv
    <3>2. /\ documents.authMd \in AuthMd /\ ValidateAuthMd(documents.authMd) = {}
          /\ documents.resource \in ResourceMetadata /\ ValidateResource(documents.resource) = {}
          /\ documents.server \in ServerMetadata
          /\ ValidateServer(documents.server, documents.resource, documents.authMd) = {}
      BY <2>1, <3>1, CheckAssumption DEF CheckInv, DocumentsInv
    <3> QED
      BY <3>1, <3>2, NoFindingsLeadThrough
  <2> QED
    BY <2>1, <2>2
<1> QED
  BY <1>1, CheckInitOK, CheckStep, PTL DEF CheckSpec

-----------------------------------------------------------------------------
(* The rate limiters *)

LimitSpec == ClockInit /\ LimitInit /\ [][LimitNext]_<<now, limitVars>>

Admission == [at : 1..MaxTime, start : Nat, nth : 1..Limit]

LimitTypeOK ==
  /\ now \in 1..MaxTime
  /\ limiter \in {"memory", "d1"}
  /\ bucket \in [start : Nat, count : Nat]
  /\ takers \in [Taker -> 0..MaxTime]
  /\ admitted \in Seq(Admission)
  /\ disordered \in BOOLEAN

\* The window of the memory limiter has begun, and nobody waits for it; those of D1 start at
\* multiples of their length.
StartInv ==
  /\ limiter = "memory" => bucket.start <= now /\ \A t \in Taker : takers[t] = 0
  /\ limiter = "d1" => \E q \in Nat : bucket.start = q * Window

\* Two windows do not overlap, and a number is given once in each.
Apart(e, f) ==
  \/ e.start = f.start /\ e.nth # f.nth
  \/ e.start + Window <= f.start
  \/ f.start + Window <= e.start

\* An admitted request is in its window, which is the present one or over.
Admitted(e, b) ==
  /\ e.start <= e.at /\ e.at < e.start + Window
  /\ b.count > 0
  /\ (e.start = b.start /\ e.nth <= b.count) \/ e.start + Window <= b.start

WindowsInv ==
  \A i \in DOMAIN admitted :
    /\ Admitted(admitted[i], bucket)
    /\ \A j \in DOMAIN admitted : i # j => Apart(admitted[i], admitted[j])

LimitInv == LimitTypeOK /\ StartInv /\ (disordered \/ WindowsInv)

LEMMA AdmittedIsTyped == LimitInv => \A i \in DOMAIN admitted : admitted[i] \in Admission
BY DEF LimitInv, LimitTypeOK

\* Counting on in the same window, or going on to one that starts where the present one is over,
\* leaves the requests that were admitted in order.
LEMMA WindowsAfterBucket ==
  ASSUME LimitInv, WindowsInv, UNCHANGED admitted, bucket' \in [start : Nat, count : Nat],
         bucket'.count > 0,
         \/ bucket'.start = bucket.start /\ bucket'.count >= bucket.count
         \/ bucket.count > 0 => bucket.start + Window <= bucket'.start
  PROVE  WindowsInv'
<1>1. \A i \in DOMAIN admitted : Admitted(admitted[i], bucket) => Admitted(admitted[i], bucket')
  <2> SUFFICES ASSUME NEW i \in DOMAIN admitted, Admitted(admitted[i], bucket)
               PROVE  Admitted(admitted[i], bucket')
    OBVIOUS
  <2>1. admitted[i] \in Admission /\ bucket \in [start : Nat, count : Nat]
    BY DEF LimitInv, LimitTypeOK
  <2> QED
    BY <2>1, LimitAssumption DEF Admitted, Admission
<1>2. \A i \in DOMAIN admitted :
        /\ Admitted(admitted[i], bucket')
        /\ \A j \in DOMAIN admitted : i # j => Apart(admitted[i], admitted[j])
  BY <1>1 DEF WindowsInv
<1> QED
  BY <1>2 DEF WindowsInv

\* A request that is admitted is the next one of its window.
LEMMA WindowsAfterAdmission ==
  ASSUME LimitInv, WindowsInv, NEW at \in 1..MaxTime, Admit(at),
         bucket' \in [start : Nat, count : 1..Limit],
         bucket'.start <= at, at < bucket'.start + Window,
         \/ bucket'.start = bucket.start /\ bucket'.count = bucket.count + 1
         \/ bucket.count > 0 => bucket.start + Window <= bucket'.start
  PROVE  admitted' \in Seq(Admission) /\ WindowsInv'
<1> DEFINE e == [at |-> at, start |-> bucket'.start, nth |-> bucket'.count]
<1>1. e \in Admission /\ admitted' = Append(admitted, e) /\ admitted \in Seq(Admission)
  BY DEF Admit, Admission, LimitInv, LimitTypeOK
<1>2. /\ admitted' \in Seq(Admission) /\ DOMAIN admitted' = DOMAIN admitted \union {Len(admitted) + 1}
      /\ admitted'[Len(admitted) + 1] = e
      /\ \A i \in DOMAIN admitted : admitted'[i] = admitted[i] /\ admitted[i] \in Admission
      /\ Len(admitted) + 1 \notin DOMAIN admitted
  BY <1>1
<1>3. /\ e.at = at /\ e.start = bucket'.start /\ e.nth = bucket'.count
      /\ bucket \in [start : Nat, count : Nat]
  BY DEF LimitInv, LimitTypeOK
<1> HIDE DEF e
<1>4. Admitted(e, bucket')
  BY <1>3 DEF Admitted
<1>5. ASSUME NEW i \in DOMAIN admitted
      PROVE  Admitted(admitted[i], bucket') /\ Apart(admitted[i], e) /\ Apart(e, admitted[i])
  <2>1. Admitted(admitted[i], bucket) /\ admitted[i] \in Admission
    BY <1>2 DEF WindowsInv
  <2> QED
    BY <1>3, <2>1, LimitAssumption DEF Admitted, Apart, Admission
<1>6. ASSUME NEW i \in DOMAIN admitted'
      PROVE  /\ Admitted(admitted'[i], bucket')
             /\ \A j \in DOMAIN admitted' : i # j => Apart(admitted'[i], admitted'[j])
  BY <1>2, <1>4, <1>5 DEF WindowsInv
<1> QED
  BY <1>2, <1>6 DEF WindowsInv

LEMMA MemoryStep == LimitInv /\ TakeInMemory => LimitInv'
<1> SUFFICES ASSUME LimitInv, TakeInMemory PROVE LimitInv'
  OBVIOUS
<1>1. /\ now \in 1..MaxTime /\ bucket \in [start : Nat, count : Nat] /\ bucket.start <= now
      /\ Limit \in Nat /\ Window \in Nat \ {0} /\ MaxTime \in Nat
      /\ UNCHANGED <<now, limiter, takers, disordered>> /\ limiter = "memory" /\ Admit(now) /\ Limit >= 1
  BY LimitAssumption, ClockAssumption DEF LimitInv, LimitTypeOK, StartInv, TakeInMemory
<1>2. bucket' \in [start : Nat, count : 1..Limit] /\ bucket'.start <= now /\ now < bucket'.start + Window
      /\ (\/ bucket'.start = bucket.start /\ bucket'.count = bucket.count + 1
          \/ bucket.count > 0 => bucket.start + Window <= bucket'.start)
  <2>1. CASE WindowIsOver /\ bucket' = [start |-> now, count |-> 1]
    BY <1>1, <2>1 DEF WindowIsOver
  <2>2. CASE ~WindowIsOver /\ BelowLimit /\ bucket' = [bucket EXCEPT !.count = @ + 1]
    BY <1>1, <2>2 DEF WindowIsOver, BelowLimit
  <2> QED
    BY <2>1, <2>2 DEF TakeInMemory
<1>3. admitted' \in Seq(Admission)
  <2>1. [at |-> now, start |-> bucket'.start, nth |-> bucket'.count] \in Admission
    BY <1>1, <1>2 DEF Admission
  <2> QED
    BY <1>1, <2>1 DEF Admit, LimitInv, LimitTypeOK
<1>4. WindowsInv => WindowsInv'
  BY <1>1, <1>2, WindowsAfterAdmission
<1>5. LimitTypeOK' /\ StartInv'
  BY <1>1, <1>2, <1>3 DEF LimitInv, LimitTypeOK, StartInv
<1> QED
  BY <1>1, <1>4, <1>5 DEF LimitInv

\* The start of the window a time is in.
LEMMA StartOfTime ==
  ASSUME NEW at \in Nat
  PROVE  /\ StartOf(at) \in Nat /\ StartOf(at) <= at /\ at < StartOf(at) + Window
         /\ \E q \in Nat : StartOf(at) = q * Window
BY LimitAssumption DEF StartOf

\* Two multiples of the length are at least the length apart.
LEMMA MultiplesApart ==
  ASSUME NEW p \in Nat, NEW q \in Nat, p * Window < q * Window
  PROVE  p * Window + Window <= q * Window
BY LimitAssumption

LEMMA D1Step ==
  ASSUME LimitInv, NEW t \in Taker, TakeInD1(t)
  PROVE  LimitInv'
<1> DEFINE start == StartOf(takers[t])
           count == IF bucket.count # 0 /\ bucket.start = start THEN bucket.count + 1 ELSE 1
<1>1. /\ takers[t] \in 1..MaxTime /\ bucket' = [start |-> start, count |-> count]
      /\ IF count <= Limit THEN Admit(takers[t]) ELSE UNCHANGED admitted
      /\ takers' = [takers EXCEPT ![t] = 0]
      /\ disordered' = (disordered \/ start < bucket.start)
      /\ UNCHANGED <<now, limiter>> /\ limiter = "d1"
  BY DEF LimitInv, LimitTypeOK, StartInv, TakeInD1
<1>2. /\ start \in Nat /\ start <= takers[t] /\ takers[t] < start + Window
      /\ \E q \in Nat : start = q * Window
  BY <1>1, StartOfTime
<1>3. /\ bucket \in [start : Nat, count : Nat] /\ count \in Nat /\ count >= 1
      /\ Limit \in Nat /\ Window \in Nat \ {0} /\ now \in 1..MaxTime
  BY LimitAssumption DEF LimitInv, LimitTypeOK
<1>4. bucket' \in [start : Nat, count : Nat] /\ bucket'.start = start /\ bucket'.count = count
  BY <1>1, <1>2, <1>3
<1>5. bucket.start < start => bucket.start + Window <= start
  <2>1. PICK q \in Nat : start = q * Window
    BY <1>2
  <2>2. PICK p \in Nat : bucket.start = p * Window
    BY <1>1 DEF LimitInv, StartInv
  <2> QED
    BY <2>1, <2>2, MultiplesApart
<1>6. StartInv'
  BY <1>1, <1>2, <1>4 DEF LimitInv, StartInv
<1>10. takers' \in [Taker -> 0..MaxTime]
  BY <1>1, ClockAssumption DEF LimitInv, LimitTypeOK
<1>11. count = IF bucket.count # 0 /\ bucket.start = start THEN bucket.count + 1 ELSE 1
  OBVIOUS
<1> HIDE DEF start, count
<1>7. ASSUME ~disordered', WindowsInv
      PROVE  \/ start = bucket.start /\ count >= bucket.count
                  /\ (count <= Limit => count = bucket.count + 1 \/ bucket.count = 0)
             \/ bucket.count > 0 => bucket.start + Window <= start
  <2>1. ~(start < bucket.start)
    BY <1>1, <1>7
  <2>2. start = bucket.start \/ bucket.start < start
    BY <1>2, <1>3, <2>1
  <2>3. start = bucket.start /\ bucket.count # 0 => count = bucket.count + 1
    BY <1>11
  <2>4. start = bucket.start /\ bucket.count = 0 => count = 1
    BY <1>11
  <2>5. bucket.count \in Nat
    BY <1>3
  <2> QED
    BY <1>5, <2>2, <2>3, <2>4, <2>5
<1>8. CASE count <= Limit
  <2>1. Admit(takers[t]) /\ takers[t] \in 1..MaxTime
    BY <1>1, <1>8
  <2>2. admitted' \in Seq(Admission)
    <3>1. [at |-> takers[t], start |-> bucket'.start, nth |-> bucket'.count] \in Admission
      BY <1>1, <1>2, <1>3, <1>4, <1>8 DEF Admission
    <3> QED
      BY <2>1, <3>1 DEF Admit, LimitInv, LimitTypeOK
  <2>3. LimitTypeOK'
    BY <1>1, <1>3, <1>4, <1>10, <2>2 DEF LimitInv, LimitTypeOK
  <2>4. ~disordered' => WindowsInv'
    <3> SUFFICES ASSUME ~disordered' PROVE WindowsInv'
      OBVIOUS
    <3>1. WindowsInv
      BY <1>1 DEF LimitInv
    <3>2. \/ bucket'.start = bucket.start /\ bucket'.count = bucket.count + 1
          \/ bucket.count > 0 => bucket.start + Window <= bucket'.start
      BY <1>3, <1>4, <1>7, <1>8, <3>1
    <3>3. bucket' \in [start : Nat, count : 1..Limit] /\ bucket'.start <= takers[t]
          /\ takers[t] < bucket'.start + Window
      BY <1>1, <1>2, <1>3, <1>4, <1>8
    <3> QED
      BY <2>1, <3>1, <3>2, <3>3, WindowsAfterAdmission
  <2> QED
    BY <1>6, <2>3, <2>4 DEF LimitInv
<1>9. CASE ~(count <= Limit)
  <2>1. UNCHANGED admitted
    BY <1>1, <1>9
  <2>2. LimitTypeOK'
    BY <1>1, <1>3, <1>4, <1>10, <2>1 DEF LimitInv, LimitTypeOK
  <2>3. ~disordered' => WindowsInv'
    <3> SUFFICES ASSUME ~disordered' PROVE WindowsInv'
      OBVIOUS
    <3>1. WindowsInv
      BY <1>1 DEF LimitInv
    <3>2. bucket'.count > 0
          /\ (\/ bucket'.start = bucket.start /\ bucket'.count >= bucket.count
              \/ bucket.count > 0 => bucket.start + Window <= bucket'.start)
      BY <1>3, <1>4, <1>7, <3>1
    <3> QED
      BY <1>4, <2>1, <3>1, <3>2, WindowsAfterBucket
  <2> QED
    BY <1>6, <2>2, <2>3 DEF LimitInv
<1> QED
  BY <1>8, <1>9

LEMMA LimitStep == LimitInv /\ [LimitNext]_<<now, limitVars>> => LimitInv'
<1> SUFFICES ASSUME LimitInv, [LimitNext]_<<now, limitVars>> PROVE LimitInv'
  OBVIOUS
<1>1. ASSUME NEW t \in Taker, AskLimiter(t) PROVE LimitInv'
  <2>1. /\ takers' = [takers EXCEPT ![t] = now] /\ limiter = "d1"
        /\ UNCHANGED <<now, limiter, bucket, admitted, disordered>>
    BY <1>1 DEF AskLimiter
  <2>2. LimitTypeOK' /\ StartInv'
    BY <2>1, ClockAssumption DEF LimitInv, LimitTypeOK, StartInv
  <2> QED
    BY <2>1, <2>2 DEF LimitInv, WindowsInv
<1>2. CASE LimitTick
  <2>1. now' \in 1..MaxTime /\ now' = now + 1 /\ now \in Nat /\ UNCHANGED limitVars
    BY <1>2, ClockAssumption DEF LimitTick, Tick, LimitInv, LimitTypeOK
  <2>2. LimitTypeOK' /\ StartInv'
    BY <2>1 DEF LimitInv, LimitTypeOK, StartInv, limitVars
  <2> QED
    BY <2>1, <2>2 DEF LimitInv, WindowsInv, limitVars
<1>3. CASE UNCHANGED <<now, limitVars>>
  BY <1>3 DEF LimitInv, LimitTypeOK, StartInv, WindowsInv, limitVars
<1> QED
  BY <1>1, <1>2, <1>3, MemoryStep, D1Step DEF LimitNext

\* Of the windows that a stretch touches, there are two at most: the requests of one of them, and
\* those of the other.
LEMMA TwoWindows ==
  ASSUME LimitInv, WindowsInv, NEW first \in 1..MaxTime,
         NEW i \in Stretch(first), NEW j \in Stretch(first), NEW k \in Stretch(first),
         admitted[j].start # admitted[i].start, admitted[k].start # admitted[i].start
  PROVE  admitted[j].start = admitted[k].start
<1>1. \A n \in Stretch(first) :
        /\ n \in DOMAIN admitted /\ admitted[n] \in Admission
        /\ first <= admitted[n].at /\ admitted[n].at < first + Window
        /\ admitted[n].start <= admitted[n].at /\ admitted[n].at < admitted[n].start + Window
  <2> SUFFICES ASSUME NEW n \in Stretch(first)
               PROVE  /\ n \in DOMAIN admitted /\ admitted[n] \in Admission
                      /\ first <= admitted[n].at /\ admitted[n].at < first + Window
                      /\ admitted[n].start <= admitted[n].at /\ admitted[n].at < admitted[n].start + Window
    OBVIOUS
  <2>1. n \in DOMAIN admitted /\ admitted[n].at \in first..(first + Window - 1)
    BY DEF Stretch
  <2>2. admitted[n] \in Admission /\ Admitted(admitted[n], bucket)
    BY <2>1, AdmittedIsTyped DEF WindowsInv
  <2> QED
    BY <2>1, <2>2, LimitAssumption, ClockAssumption DEF Admitted, Admission
<1>2. \A n, o \in Stretch(first) :
        \/ admitted[n].start = admitted[o].start
        \/ admitted[n].start + Window <= admitted[o].start
        \/ admitted[o].start + Window <= admitted[n].start
  BY <1>1 DEF WindowsInv, Apart
<1>3. /\ admitted[i].start \in Nat /\ admitted[j].start \in Nat /\ admitted[k].start \in Nat
      /\ admitted[i].at \in Nat /\ admitted[j].at \in Nat /\ admitted[k].at \in Nat
      /\ Window \in Nat \ {0} /\ first \in Nat
  BY <1>1, LimitAssumption, ClockAssumption DEF Admission
<1> QED
  BY <1>1, <1>2, <1>3

\* However the clock goes, however many requests wait for D1, and in whatever order its statements
\* run: no stretch as long as a window sees more than two limits of requests, as long as no
\* statement runs after one of a later window.
THEOREM TheLimitIsKept == LimitSpec => []LimitKept
<1>1. ClockInit /\ LimitInit => LimitInv
  <2> SUFFICES ASSUME ClockInit, LimitInit PROVE LimitInv
    OBVIOUS
  <2>1. now = 1 /\ 1 \in 1..MaxTime /\ admitted = <<>> /\ bucket = [start |-> 0, count |-> 0]
    BY ClockAssumption DEF ClockInit, LimitInit
  <2>2. LimitTypeOK
    <3>1. takers \in [Taker -> 0..MaxTime]
      BY ClockAssumption DEF LimitInit
    <3>2. admitted \in Seq(Admission) /\ bucket \in [start : Nat, count : Nat]
      BY <2>1
    <3>3. limiter \in {"memory", "d1"} /\ disordered \in BOOLEAN
      BY DEF LimitInit
    <3> QED
      BY <2>1, <3>1, <3>2, <3>3 DEF LimitTypeOK
  <2>3. 0 = 0 * Window
    BY LimitAssumption
  <2>4. StartInv
    BY <2>1, <2>3 DEF LimitInit, StartInv
  <2>5. WindowsInv
    BY <2>1 DEF WindowsInv
  <2> QED
    BY <2>2, <2>4, <2>5 DEF LimitInv
<1>2. LimitInv => LimitKept
  <2> SUFFICES ASSUME LimitInv, WindowsInv, NEW first \in 1..MaxTime
               PROVE  Cardinality(Stretch(first)) <= 2 * Limit
    BY DEF LimitInv, LimitKept
  <2>1. CASE Stretch(first) = {}
    BY <2>1, FS_EmptySet, LimitAssumption
  <2>2. CASE Stretch(first) # {}
    <3> PICK i \in Stretch(first) : TRUE
      BY <2>2
    <3> DEFINE number == [n \in Stretch(first) |->
                 IF admitted[n].start = admitted[i].start THEN admitted[n].nth ELSE Limit + admitted[n].nth]
    <3>1. \A n \in Stretch(first) : n \in DOMAIN admitted /\ admitted[n].nth \in 1..Limit
      BY AdmittedIsTyped DEF Stretch, Admission
    <3>2. number \in [Stretch(first) -> 1..(2 * Limit)]
      BY <3>1, LimitAssumption
    <3>3. \A n, o \in Stretch(first) : admitted[n].start = admitted[o].start /\ n # o
                                          => admitted[n].nth # admitted[o].nth
      BY <3>1, AdmittedIsTyped, LimitAssumption DEF WindowsInv, Apart, Admission
    <3>4. ASSUME NEW n \in Stretch(first), NEW o \in Stretch(first), number[n] = number[o]
          PROVE  n = o
      <4>1. admitted[n].start = admitted[o].start
        BY <3>1, <3>4, TwoWindows, LimitAssumption
      <4> QED
        BY <3>1, <3>3, <3>4, <4>1, LimitAssumption
    <3>5. number \in Injection(Stretch(first), 1..(2 * Limit))
      BY <3>2, <3>4 DEF Injection, IsInjective
    <3>6. IsFiniteSet(1..(2 * Limit)) /\ Cardinality(1..(2 * Limit)) = 2 * Limit
      BY FS_Interval, LimitAssumption
    <3> HIDE DEF number
    <3> QED
      BY <3>5, <3>6, FS_Injection
  <2> QED
    BY <2>1, <2>2
<1> QED
  BY <1>1, <1>2, LimitStep, PTL DEF LimitSpec
=============================================================================
