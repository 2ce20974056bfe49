-------------------------- MODULE CompletionClient ---------------------------
(***************************************************************************)
(* The agent's side and the resource's side of a grant: CompletionClient   *)
(* and WorkerBrokerClient (client.ts), which call the protected resource   *)
(* with a grant's credential and complete the grant whatever the call came *)
(* to, and the middleware of the resource (middleware.ts), which consumes  *)
(* the grant before the handler runs. Of the broker (module Broker) the    *)
(* model keeps what these calls do to the grant of a run; their answers    *)
(* may be lost on the way, except from a broker in the same process.       *)
(***************************************************************************)
EXTENDS Naturals

CONSTANTS
  Run,         \* runs of the client, each with a grant of its own
  Retrier,     \* calls of retryBufferedCompletions that can be in progress at once
  NoRun,       \* not a run
  Attempts,    \* completionAttempts
  MaxLosses    \* bound: lost requests and answers

ASSUME ClientAssumption ==
  /\ Attempts \in Nat \ {0} /\ MaxLosses \in Nat
  /\ NoRun \notin Run /\ Run \intersect Retrier = {}

VARIABLES
  remote,     \* a Worker broker behind fetch, or a Broker in this process
  grants,     \* Run -> its grant at the broker
  overdue,    \* runs whose grant and credential have passed their expiry
  runs,       \* Run -> how far run() came
  requests,   \* Run -> its request at the resource
  completing, \* Run \union Retrier -> the grant being completed and the attempts made
  queues,     \* Retrier -> the rest of the copy of the buffer that it goes through
  buffer,     \* bufferedCompletions
  losses,     \* losses so far
  died,       \* history: the agent's process was lost
  handled     \* history: Run -> times the protected handler was started for its grant

clientVars == <<remote, grants, overdue, runs, requests, completing, queues, buffer, losses, died,
                handled>>

NotCompleting == [grant |-> NoRun, attempt |-> 0]

ClientInit ==
  /\ remote \in BOOLEAN
  /\ grants = [r \in Run |-> "none"]
  /\ overdue = {}
  /\ runs = [r \in Run |-> "idle"]
  /\ requests = [r \in Run |-> "none"]
  /\ completing = [x \in Run \union Retrier |-> NotCompleting]
  /\ queues = [x \in Retrier |-> {}]
  /\ buffer = {}
  /\ losses = 0
  /\ died = FALSE
  /\ handled = [r \in Run |-> 0]

Lost == remote /\ losses < MaxLosses /\ losses' = losses + 1
Kept == UNCHANGED losses

(***************************************************************************)
(* run                                                                     *)
(***************************************************************************)

\* The policy allows the grant, denies it, or asks for an approval.
Exchange(r) ==
  /\ runs[r] = "idle" /\ ~died
  /\ \E status \in {"approved", "proposed", "denied"} :
       /\ grants' = [grants EXCEPT ![r] = status]
       /\ \/ /\ runs' = [runs EXCEPT ![r] = CASE status = "approved" -> "calling"
                                             [] status = "proposed" -> "approving"
                                             [] OTHER -> "ended"]
             /\ Kept
          \/ Lost /\ runs' = [runs EXCEPT ![r] = "ended"]
  /\ UNCHANGED <<remote, overdue, requests, completing, queues, buffer, died, handled>>

\* Without an approver or an approving transport, or when it is refused, the run ends without
\* a credential.
ApproveGrant(r) ==
  /\ runs[r] = "approving" /\ ~died
  /\ \/ /\ grants[r] = "proposed" /\ r \notin overdue
        /\ grants' = [grants EXCEPT ![r] = "approved"]
        /\ \/ Kept /\ runs' = [runs EXCEPT ![r] = "calling"]
           \/ Lost /\ runs' = [runs EXCEPT ![r] = "ended"]
     \/ Kept /\ UNCHANGED grants /\ runs' = [runs EXCEPT ![r] = "ended"]
  /\ UNCHANGED <<remote, overdue, requests, completing, queues, buffer, died, handled>>

\* The protected call: the agent's code may send the request again.
Call(r) ==
  /\ runs[r] = "calling" /\ ~died
  /\ requests[r] \in {"none", "refused"}
  /\ requests' = [requests EXCEPT ![r] = "sent"]
  /\ UNCHANGED <<remote, grants, overdue, runs, completing, queues, buffer, losses, died, handled>>

\* The call returns, throws, or loses the race against the timeout while it goes on: in any case
\* finally completes the grant.
CallEnds(r) ==
  /\ runs[r] = "calling" /\ ~died
  /\ runs' = [runs EXCEPT ![r] = "completing"]
  /\ completing' = [completing EXCEPT ![r] = [grant |-> r, attempt |-> 0]]
  /\ UNCHANGED <<remote, grants, overdue, requests, queues, buffer, losses, died, handled>>

(***************************************************************************)
(* The resource                                                            *)
(***************************************************************************)

Consumes(r) == grants[r] = "approved" /\ r \notin overdue

Consume(r) ==
  /\ requests[r] = "sent"
  /\ IF Consumes(r)
     THEN /\ grants' = [grants EXCEPT ![r] = "consumed"]
          /\ \/ Kept /\ requests' = [requests EXCEPT ![r] = "consumed"]
             \/ Lost /\ requests' = [requests EXCEPT ![r] = "refused"]
     ELSE Kept /\ UNCHANGED grants /\ requests' = [requests EXCEPT ![r] = "refused"]
  /\ UNCHANGED <<remote, overdue, runs, completing, queues, buffer, died, handled>>

\* onEvidence succeeds and the handler runs, or the answer is 503: the grant stays consumed.
Handle(r) ==
  /\ requests[r] = "consumed"
  /\ \/ /\ handled' = [handled EXCEPT ![r] = @ + 1]
        /\ requests' = [requests EXCEPT ![r] = "handled"]
     \/ requests' = [requests EXCEPT ![r] = "refused"] /\ UNCHANGED handled
  /\ UNCHANGED <<remote, grants, overdue, runs, completing, queues, buffer, losses, died>>

(***************************************************************************)
(* completeOrBuffer                                                        *)
(***************************************************************************)

\* completeAuthenticated verifies the credential, which has to be valid; complete in the same
\* process only needs the grant. A grant that has ended answers with its evidence.
Completable(r) == remote => r \notin overdue

Leave(x) ==
  /\ completing' = [completing EXCEPT ![x] = NotCompleting]
  /\ runs' = IF x \in Run THEN [runs EXCEPT ![x] = "ended"] ELSE runs

Complete(x) ==
  LET r == completing[x].grant IN
  /\ r # NoRun /\ ~died
  /\ completing[x].attempt < Attempts
  /\ Completable(r)
  /\ Kept
  /\ grants' = [grants EXCEPT ![r] = "ended"]
  /\ buffer' = buffer \ {r}
  /\ Leave(x)
  /\ UNCHANGED <<remote, overdue, requests, queues, died, handled>>

\* Refused, or the request or its answer is lost.
CompleteFails(x) ==
  LET r == completing[x].grant IN
  /\ r # NoRun /\ ~died
  /\ completing[x].attempt < Attempts
  /\ \/ Lost /\ grants' \in {grants, IF Completable(r) THEN [grants EXCEPT ![r] = "ended"] ELSE grants}
     \/ ~Completable(r) /\ Kept /\ UNCHANGED grants
  /\ completing' = [completing EXCEPT ![x].attempt = @ + 1]
  /\ UNCHANGED <<remote, overdue, runs, requests, queues, buffer, died, handled>>

BufferedNever(r) == buffer  \* fault: the attempts are used up and that is all
Buffered(r) == buffer \union {r}

KeepForLater(x) ==
  LET r == completing[x].grant IN
  /\ r # NoRun /\ ~died
  /\ completing[x].attempt = Attempts
  /\ buffer' = Buffered(r)
  /\ Leave(x)
  /\ UNCHANGED <<remote, grants, overdue, requests, queues, losses, died, handled>>

\* retryBufferedCompletions goes through a copy of the buffer, one grant after another.
StartRetry(x) ==
  /\ queues[x] = {} /\ completing[x] = NotCompleting /\ ~died
  /\ buffer # {}
  /\ queues' = [queues EXCEPT ![x] = buffer]
  /\ UNCHANGED <<remote, grants, overdue, runs, requests, completing, buffer, losses, died, handled>>

RetryNext(x) ==
  /\ completing[x] = NotCompleting /\ ~died
  /\ \E r \in queues[x] :
       /\ queues' = [queues EXCEPT ![x] = @ \ {r}]
       /\ completing' = [completing EXCEPT ![x] = [grant |-> r, attempt |-> 0]]
  /\ UNCHANGED <<remote, grants, overdue, runs, requests, buffer, losses, died, handled>>

(***************************************************************************)
(* The surroundings                                                        *)
(***************************************************************************)

TtlPasses(r) ==
  /\ grants[r] # "none" /\ r \notin overdue
  /\ overdue' = overdue \union {r}
  /\ UNCHANGED <<remote, grants, runs, requests, completing, queues, buffer, losses, died, handled>>

\* An operator revokes a grant at any time; the broker expires it after its time-to-live.
EndElsewhere(r) ==
  /\ grants[r] \in {"proposed", "approved", "consumed"}
  /\ grants' = [grants EXCEPT ![r] = "ended"]
  /\ UNCHANGED <<remote, overdue, runs, requests, completing, queues, buffer, losses, died, handled>>

\* The buffer is in memory only.
ProcessLost ==
  /\ ~died
  /\ died' = TRUE
  /\ buffer' = {}
  /\ completing' = [x \in Run \union Retrier |-> NotCompleting]
  /\ queues' = [x \in Retrier |-> {}]
  /\ runs' = [r \in Run |-> "ended"]
  /\ UNCHANGED <<remote, grants, overdue, requests, losses, handled>>

ClientNext ==
  \/ \E r \in Run :
       \/ Exchange(r)
       \/ ApproveGrant(r)
       \/ Call(r)
       \/ CallEnds(r)
       \/ Consume(r)
       \/ Handle(r)
       \/ TtlPasses(r)
       \/ EndElsewhere(r)
  \/ \E x \in Run \union Retrier : Complete(x) \/ CompleteFails(x) \/ KeepForLater(x)
  \/ \E x \in Retrier : StartRetry(x) \/ RetryNext(x)
  \/ ProcessLost

\* A run uses its grant once and does not forget to end it: however often the agent repeats the
\* call, the protected handler starts once, and a grant whose call may have reached the resource
\* is ended at the broker, or about to be completed, or buffered, although runs and retries
\* complete the same grants side by side. After a process loss its time-to-live ends it
\* (packages/broker/README.md:106).
UsesAndEndsItsGrant ==
  \A r \in Run :
    /\ handled[r] <= 1
    /\ requests[r] # "none" /\ runs[r] = "ended" =>
         died \/ grants[r] = "ended" \/ r \in buffer
           \/ \E x \in Run \union Retrier : completing[x].grant = r
=============================================================================
