-------------------------- MODULE MCEventDelivery --------------------------
(* EventDelivery on small instances: symmetric tokens, subscribers, requests and runs. *)
EXTENDS EventDelivery, TLC

Symmetry == Permutations(Token) \union Permutations(Subscriber)
            \union Permutations(Request) \union Permutations(Run)

\* Bound: PendingIsScheduled and DeliveriesSettle promise nothing once the alarm was deleted by
\* an outdated answer or a request's work was given up; what comes after is left out.
Promised == ~crossed /\ ~abandoned
=============================================================================
