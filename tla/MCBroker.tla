------------------------------ MODULE MCBroker ------------------------------
(* Broker on a small instance: symmetric calls and grant ids. *)
EXTENDS Broker, TLC

Symmetry == Permutations(Request) \union Permutations(Grant)
=============================================================================
