--------------------------- MODULE ClaimLifecycle ---------------------------
(***************************************************************************)
(* What the claim ceremony promises (docs/spec and claim.ts): a claim is   *)
(* verified once, decided once, and its grant buys one token once, only    *)
(* after an approval. It may expire at any time before its grant is used,  *)
(* and leaves the storage in the end.                                      *)
(***************************************************************************)
EXTENDS Naturals

CONSTANT Claim

VARIABLES
  status,  \* Claim -> where it is in the ceremony
  tokens   \* Claim -> how many tokens were issued for it

vars == <<status, tokens>>

Status == {"none", "pending", "user_verified", "approved", "denied", "used", "expired", "removed"}

Init ==
  /\ status = [c \in Claim |-> "none"]
  /\ tokens = [c \in Claim |-> 0]

Move(c, from, to) ==
  /\ status[c] \in from
  /\ status' = [status EXCEPT ![c] = to]
  /\ UNCHANGED tokens

Start(c) == Move(c, {"none"}, "pending")
Verify(c) == Move(c, {"pending"}, "user_verified")
Decide(c) == \E decision \in {"approved", "denied"} : Move(c, {"user_verified"}, decision)
Expire(c) == Move(c, {"pending", "user_verified", "approved", "denied"}, "expired")

\* The use of a grant is final, whether or not the rest of the exchange succeeds.
Use(c) ==
  /\ status[c] = "approved"
  /\ status' = [status EXCEPT ![c] = "used"]
  /\ \E n \in {0, 1} : tokens' = [tokens EXCEPT ![c] = n]

\* One alarm removes every claim that has expired.
Remove ==
  /\ \E gone \in SUBSET {c \in Claim : status[c] # "none"} :
       status' = [c \in Claim |-> IF c \in gone THEN "removed" ELSE status[c]]
  /\ UNCHANGED tokens

Next ==
  \/ \E c \in Claim : Start(c) \/ Verify(c) \/ Decide(c) \/ Expire(c) \/ Use(c)
  \/ Remove

Spec == Init /\ [][Next]_vars
=============================================================================
