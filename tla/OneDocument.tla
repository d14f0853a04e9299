----------------------------- MODULE OneDocument -----------------------------
(***************************************************************************)
(* What an HTTPS read promises the check that makes it: it ends once, with *)
(* a document, a refusal of the address guard, or a loss, and exactly the  *)
(* losses are charged to the ledger (the Fetch of RuleLedger).             *)
(***************************************************************************)
VARIABLES outcome, charged

vars == <<outcome, charged>>

Outcomes == {"pending", "refused", "document", "busy", "unavailable"}
Losses == {"busy", "unavailable"}

Init == outcome = "pending" /\ charged = FALSE

End(how) ==
  /\ outcome = "pending"
  /\ outcome' = how
  /\ charged' = (how \in Losses)

Next == \E how \in Outcomes \ {"pending"} : End(how)

Spec == Init /\ [][Next]_vars
=============================================================================
