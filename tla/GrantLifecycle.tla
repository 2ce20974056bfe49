--------------------------- MODULE GrantLifecycle ---------------------------
(***************************************************************************)
(* What the broker promises about completion-scoped grants, with no        *)
(* requests, locks, storage or clock: the life of every grant, the one     *)
(* credential a subject token may lead to, and the one use of it.          *)
(*                                                                         *)
(* Broker (the in-memory broker under concurrent calls) and Coordinator    *)
(* (the durable state of the deployed broker) are both shown to implement  *)
(* this specification.                                                     *)
(***************************************************************************)
EXTENDS Naturals

CONSTANTS
  Grant,         \* the ids a grant can get
  SubjectToken,  \* the subject assertions a proposal can present
  None           \* the token of a grant that does not exist yet

VARIABLES
  status,      \* Grant -> where the grant is in its life
  token,       \* Grant -> the subject token it was proposed with
  authorized,  \* the grants that were ever approved
  issued       \* the grants whose credential was handed out

vars == <<status, token, authorized, issued>>

Active == {"proposed", "approved", "consumed"}
Final == {"revoked", "expired"}
Status == {"absent", "denied"} \union Active \union Final

TypeOK ==
  /\ status \in [Grant -> Status]
  /\ token \in [Grant -> SubjectToken \union {None}]
  /\ authorized \subseteq Grant
  /\ issued \subseteq Grant

Init ==
  /\ status = [g \in Grant |-> "absent"]
  /\ token = [g \in Grant |-> None]
  /\ authorized = {}
  /\ issued = {}

\* No other grant was ever approved for subject token t.
Exclusive(g, t) == \A h \in authorized : h # g => token[h] # t

\* An accepted exchange creates a grant that waits for approval, or that policy denied.
Propose(g, t, s) ==
  /\ status[g] = "absent"
  /\ s \in {"proposed", "denied"}
  /\ status' = [status EXCEPT ![g] = s]
  /\ token' = [token EXCEPT ![g] = t]
  /\ UNCHANGED <<authorized, issued>>

\* An exchange that policy allows outright creates an approved grant.
ProposeAllowed(g, t) ==
  /\ status[g] = "absent"
  /\ Exclusive(g, t)
  /\ status' = [status EXCEPT ![g] = "approved"]
  /\ token' = [token EXCEPT ![g] = t]
  /\ authorized' = authorized \union {g}
  /\ UNCHANGED issued

Approve(g) ==
  /\ status[g] = "proposed"
  /\ Exclusive(g, token[g])
  /\ status' = [status EXCEPT ![g] = "approved"]
  /\ authorized' = authorized \union {g}
  /\ UNCHANGED <<token, issued>>

\* The credential of an approved grant is handed out once.
Issue(g) ==
  /\ g \in authorized \ issued
  /\ issued' = issued \union {g}
  /\ UNCHANGED <<status, token, authorized>>

\* The credential is used once, and only while the grant is approved.
Consume(g) ==
  /\ status[g] = "approved"
  /\ g \in issued
  /\ status' = [status EXCEPT ![g] = "consumed"]
  /\ UNCHANGED <<token, authorized, issued>>

\* Completion, revocation and the time-to-live end an active grant for good.
Finish(g, s) ==
  /\ status[g] \in Active
  /\ s \in Final
  /\ status' = [status EXCEPT ![g] = s]
  /\ UNCHANGED <<token, authorized, issued>>

Next ==
  \E g \in Grant :
    \/ \E t \in SubjectToken, s \in Status : Propose(g, t, s)
    \/ \E t \in SubjectToken : ProposeAllowed(g, t)
    \/ Approve(g)
    \/ Issue(g)
    \/ Consume(g)
    \/ \E s \in Status : Finish(g, s)

Spec == Init /\ [][Next]_vars
=============================================================================
